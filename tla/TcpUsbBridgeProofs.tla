-------------------------- MODULE TcpUsbBridgeProofs --------------------------
(***************************************************************************)
(* Proofs about one connection of the TCP/USB bridge, for any number of    *)
(* services, ids and bytes.                                                *)
(*                                                                         *)
(* IInv holds without a hypothesis: ids may wrap and the remote may send   *)
(* what it likes.  MapInv, about the service map, needs NoWrap: fewer      *)
(* opens on the connection than there are ids.  TalkInv and FlowInv, about *)
(* what a stream says and its flow control, and the refinement of          *)
(* AdbStream need Conforms: the remote keeps to the protocol as well.      *)
(***************************************************************************)
EXTENDS TcpUsbBridgeProps, FiniteSetTheorems, TLAPS

(***************************************************************************)
(* The inductive invariant, one part per concern.                          *)
(***************************************************************************)
\* Bytes consumed were sent; 'end' is due only on a drained, ended stream.
StreamInv(s) ==
    /\ dev[s].read <= dev[s].sent
    /\ dev[s].ending => dev[s].eof /\ dev[s].read = dev[s].sent
    /\ svc[s].chain \in {"none", "rejected", "transport", "reply"} => ~svc[s].opened
    /\ svc[s].chain = "finally" /\ svc[s].opened /\ dev[s].conn = "open"
         => dev[s].eof /\ dev[s].read = dev[s].sent

\* An open transport is held by its service, or its .finally is due.
TransportInv(s) ==
    /\ dev[s].conn = "open" => svc[s].hasTr
    /\ svc[s].chain \in {"none", "rejected", "transport"} => dev[s].conn = "none"
    /\ svc[s].ended /\ dev[s].conn = "open" => svc[s].chain = "finally"

\* A_CLSE is written when the service ends, not before, not twice.
CloseInv(s) ==
    /\ ~svc[s].ended => Closes(toPeer[s]) = {} /\ ~peer[s].shut
    /\ \A i, j \in Closes(toPeer[s]) : i = j
    /\ peer[s].shut => Closes(toPeer[s]) = {}

\* An A_OPEN comes first in its channel and finds no service yet.
OpenInv(s) ==
    /\ peer[s].st = "idle" => toBridge[s] = <<>> /\ svc[s].chain = "none"
    /\ \A i \in DOMAIN toBridge[s] :
          toBridge[s][i].cmd = "OPEN" => i = 1 /\ svc[s].chain = "none"

IInv ==
    /\ TypeOK
    /\ \A s \in Svcs : StreamInv(s) /\ TransportInv(s) /\ CloseInv(s) /\ OpenInv(s)

\* The first state satisfies IInv.
LEMMA InitInv == Init => IInv
<1> SUFFICES ASSUME Init PROVE IInv
  OBVIOUS
<1> USE BridgeAssumption DEF Init, BridgeAssumption
<1>1. TypeOK
  <2>1. svc \in [Svcs -> Service]
    BY DEF Service, Chains, None
  <2>2. dev \in [Svcs -> Transport]
    BY DEF Transport
  <2>3. peer \in [Svcs -> Peer]
    BY DEF Peer, None
  <2>4. toPeer \in [Svcs -> Seq(OutPacket)] /\ toBridge \in [Svcs -> Seq(InPacket)]
    OBVIOUS
  <2>5. remotes \in [Ids -> Svcs \cup {None}] /\ count \in Int
    OBVIOUS
  <2>6. sockEnded \in BOOLEAN /\ authorized \in BOOLEAN /\ failing \in BOOLEAN
    OBVIOUS
  <2>7. counter \in Ids \cup {IdMin} /\ strays \in 0 .. MaxStray
    OBVIOUS
  <2> QED
    BY ONLY <2>1, <2>2, <2>3, <2>4, <2>5, <2>6, <2>7 DEF TypeOK
<1>2. ASSUME NEW s \in Svcs
      PROVE StreamInv(s) /\ TransportInv(s) /\ CloseInv(s) /\ OpenInv(s)
  BY <1>2 DEF StreamInv, TransportInv, CloseInv, OpenInv, Closes
<1> QED
  BY <1>1, <1>2 DEF IInv

(***************************************************************************)
(* Channels.                                                               *)
(***************************************************************************)
LEMMA AppendOther ==
    ASSUME NEW q \in Seq(OutPacket), NEW p \in OutPacket, p.cmd # "CLSE"
    PROVE  Append(q, p) \in Seq(OutPacket) /\ Closes(Append(q, p)) = Closes(q)
<1>1. Append(q, p) \in Seq(OutPacket)
  OBVIOUS
<1>2. Closes(Append(q, p)) = Closes(q)
  BY DEF Closes
<1> QED
  BY <1>1, <1>2

\* A CLSE written where there was none is the only one.
LEMMA AppendClose ==
    ASSUME NEW q \in Seq(OutPacket), NEW p \in OutPacket, Closes(q) = {}
    PROVE  /\ Append(q, p) \in Seq(OutPacket)
           /\ \A i, j \in Closes(Append(q, p)) : i = j
<1>1. \A i \in DOMAIN q : q[i].cmd # "CLSE"
  BY DEF Closes
<1> QED
  BY <1>1 DEF Closes

\* What the remote reads is no longer in its channel.
LEMMA TailCloses ==
    ASSUME NEW q \in Seq(OutPacket), q # <<>>
    PROVE  /\ Tail(q) \in Seq(OutPacket) /\ Head(q) \in OutPacket
           /\ \A i \in Closes(Tail(q)) : i \in Nat /\ i >= 1 /\ i + 1 \in Closes(q)
           /\ Head(q).cmd = "CLSE" => 1 \in Closes(q)
BY DEF Closes

(***************************************************************************)
(* _tryPush: types, streams and transports are kept, no A_CLSE is written. *)
(***************************************************************************)
LEMMA ChunkBounds ==
    ASSUME NEW d \in Transport, d.read <= d.sent
    PROVE  /\ Chunk(d) \in Nat /\ Chunk(d) <= MaxPayload
           /\ ReadUpTo(d) \in 0 .. MaxDev /\ d.read <= ReadUpTo(d)
           /\ ReadUpTo(d) <= d.sent
           /\ ReadsEof(d) \in BOOLEAN
           /\ d.read = d.sent => ReadUpTo(d) = d.sent
BY BridgeAssumption DEF BridgeAssumption, Chunk, Buffered, ReadUpTo, ReadsEof, Transport

\* _tryPush preserves IInv, whoever calls it.
LEMMA TryPushKeeps ==
    ASSUME IInv, NEW s \in Svcs, NEW v \in Service, NEW d \in Transport,
           TryPush(s, v, d), peer' = peer,
           v.ended = svc[s].ended, v.hasTr = svc[s].hasTr, v.opened = svc[s].opened,
           \/ v.chain = svc[s].chain
           \/ svc[s].chain = "opened" /\ v.chain = "pushing",
           d.conn = dev[s].conn, d.read <= d.sent,
           d.ending => d.eof /\ d.read = d.sent,
           v.chain = "finally" /\ v.opened /\ d.conn = "open"
             => d.eof /\ d.read = d.sent
    PROVE  /\ svc' \in [Svcs -> Service] /\ dev' \in [Svcs -> Transport]
           /\ toPeer' \in [Svcs -> Seq(OutPacket)]
           /\ \A t \in Svcs : /\ StreamInv(t)' /\ TransportInv(t)' /\ CloseInv(t)'
                              /\ svc'[t].chain = "none" <=> svc[t].chain = "none"
<1> DEFINE w == IF MayPush(v) THEN [v EXCEPT !.needAck = @ \/ Chunk(d) > 0] ELSE v
           e == IF MayPush(v) THEN [d EXCEPT !.read = ReadUpTo(d),
                                             !.ending = @ \/ ReadsEof(d)]
                ELSE d
           p == Data(v.localId, d.read + 1, d.read + Chunk(d))
<1>0. TypeOK
  BY DEF IInv
<1>1. svc' = [svc EXCEPT ![s] = w] /\ dev' = [dev EXCEPT ![s] = e]
  BY DEF TryPush
<1>2. toPeer' = toPeer \/ toPeer' = [toPeer EXCEPT ![s] = Append(@, p)]
  BY DEF TryPush, Write
<1>3. w \in Service /\ w.ended = v.ended /\ w.hasTr = v.hasTr
        /\ w.opened = v.opened /\ w.chain = v.chain
  BY DEF Service
<1>4. e \in Transport /\ e.conn = d.conn /\ e.eof = d.eof /\ e.sent = d.sent
        /\ e.read <= e.sent /\ (d.read = d.sent => e.read = e.sent)
        /\ (e.ending => e.eof /\ e.read = e.sent)
  BY ChunkBounds DEF Transport, ReadsEof
<1>5. p \in OutPacket /\ p.cmd = "WRTE"
  <2>1. d.read + 1 \in 0 .. MaxDev + 1 /\ d.read + Chunk(d) \in 0 .. MaxDev
    BY ChunkBounds, BridgeAssumption DEF Transport, ReadUpTo, BridgeAssumption
  <2>2. v.localId \in Ids \cup {None}
    BY DEF Service
  <2> QED
    BY <2>1, <2>2 DEF Data, OutPacket
<1>6. svc' \in [Svcs -> Service] /\ dev' \in [Svcs -> Transport]
  BY <1>0, <1>1, <1>3, <1>4 DEF TypeOK
<1>7. /\ toPeer' \in [Svcs -> Seq(OutPacket)]
      /\ \A t \in Svcs : Closes(toPeer'[t]) = Closes(toPeer[t])
  <2>1. \A t \in Svcs : toPeer[t] \in Seq(OutPacket)
    BY <1>0 DEF TypeOK
  <2>2. Append(toPeer[s], p) \in Seq(OutPacket)
          /\ Closes(Append(toPeer[s], p)) = Closes(toPeer[s])
    BY <2>1, <1>5, AppendOther
  <2>3. CASE toPeer' = toPeer
    BY <2>3, <1>0 DEF TypeOK
  <2>4. CASE toPeer' = [toPeer EXCEPT ![s] = Append(@, p)]
    <3> HIDE DEF p
    <3> QED BY <2>2, <2>4, <1>0 DEF TypeOK
  <2> QED
    BY <1>2, <2>3, <2>4
<1>8. ASSUME NEW t \in Svcs
      PROVE /\ StreamInv(t)' /\ TransportInv(t)' /\ CloseInv(t)'
            /\ svc'[t].chain = "none" <=> svc[t].chain = "none"
  <2>1. /\ svc'[t].ended = svc[t].ended /\ svc'[t].hasTr = svc[t].hasTr
        /\ svc'[t].opened = svc[t].opened /\ dev'[t].conn = dev[t].conn
    BY <1>0, <1>1, <1>3, <1>4 DEF TypeOK
  <2>2. \/ svc'[t].chain = svc[t].chain
        \/ svc[t].chain = "opened" /\ svc'[t].chain = "pushing"
    BY <1>0, <1>1, <1>3 DEF TypeOK
  <2>3. StreamInv(t) /\ TransportInv(t) /\ CloseInv(t)
    BY DEF IInv
  <2>4. StreamInv(t)'
    <3>1. CASE t = s
      BY <3>1, <1>0, <1>1, <1>3, <1>4, <2>3 DEF StreamInv, TypeOK
    <3>2. CASE t # s
      BY <3>2, <1>0, <1>1, <2>3 DEF StreamInv, TypeOK
    <3> QED
      BY <3>1, <3>2
  <2>5. TransportInv(t)'
    BY <2>1, <2>2, <2>3 DEF TransportInv
  <2>6. CloseInv(t)'
    BY <2>1, <2>3, <1>7 DEF CloseInv
  <2> QED
    BY <2>2, <2>4, <2>5, <2>6
<1> QED
  BY <1>6, <1>7, <1>8

(***************************************************************************)
(* Service.end of any set of services, out of objects v that differ from   *)
(* svc at most in a flag no part of the invariant reads and in a chain     *)
(* whose .finally this very end() is.                                      *)
(***************************************************************************)
LEMMA EndServicesKeeps ==
    ASSUME IInv, NEW S \in SUBSET Svcs, NEW v \in [Svcs -> Service],
           EndServices(S, v), peer' = peer,
           \A t \in Svcs :
              /\ v[t].ended = svc[t].ended /\ v[t].hasTr = svc[t].hasTr
              /\ v[t].opened = svc[t].opened
              /\ \/ v[t].chain = svc[t].chain
                 \/ t \in S /\ svc[t].chain = "finally" /\ v[t].chain = "done"
    PROVE  /\ svc' \in [Svcs -> Service] /\ dev' \in [Svcs -> Transport]
           /\ toPeer' \in [Svcs -> Seq(OutPacket)]
           /\ \A t \in Svcs : /\ StreamInv(t)' /\ TransportInv(t)' /\ CloseInv(t)'
                              /\ svc'[t].chain = "none" <=> svc[t].chain = "none"
<1>0. TypeOK
  BY DEF IInv
<1>1. \A t \in Svcs : /\ Ended(v[t]) \in Service
                      /\ Ended(v[t]).ended
                      /\ Ended(v[t]).opened = v[t].opened
                      /\ Ended(v[t]).chain = v[t].chain
  <2> SUFFICES ASSUME NEW t \in Svcs
               PROVE  /\ Ended(v[t]) \in Service /\ Ended(v[t]).ended
                      /\ Ended(v[t]).opened = v[t].opened
                      /\ Ended(v[t]).chain = v[t].chain
    OBVIOUS
  <2>1. v[t] \in Service
    OBVIOUS
  <2> QED
    BY ONLY <2>1 DEF Ended, Service
<1>2. svc' \in [Svcs -> Service]
  BY <1>1 DEF EndServices
<1>3. dev' \in [Svcs -> Transport]
  <2>1. dev \in [Svcs -> Transport]
    BY <1>0 DEF TypeOK
  <2>2. \A d \in Transport : [d EXCEPT !.conn = "ended"] \in Transport
    BY ONLY DEF Transport
  <2> QED
    BY <2>1, <2>2 DEF EndServices
<1>4. \A t \in Svcs : Out("CLSE", CloseId(v[t])) \in OutPacket
  BY BridgeAssumption DEF Out, CloseId, OutPacket, Service, BridgeAssumption
<1>5. toPeer' \in [Svcs -> Seq(OutPacket)]
  <2>1. \A t \in Svcs : Append(toPeer[t], Out("CLSE", CloseId(v[t]))) \in Seq(OutPacket)
    BY <1>0, <1>4 DEF TypeOK
  <2> QED
    BY <2>1, <1>0 DEF EndServices, TypeOK
<1>6. ASSUME NEW t \in Svcs
      PROVE /\ StreamInv(t)' /\ TransportInv(t)' /\ CloseInv(t)'
            /\ svc'[t].chain = "none" <=> svc[t].chain = "none"
  <2>1. svc'[t] = IF t \in S THEN Ended(v[t]) ELSE v[t]
    BY DEF EndServices
  <2>2. /\ svc'[t].opened = svc[t].opened
        /\ \/ svc'[t].chain = svc[t].chain
           \/ t \in S /\ svc[t].chain = "finally" /\ svc'[t].chain = "done"
        /\ svc'[t].ended = (svc[t].ended \/ t \in S)
    BY <2>1, <1>1 DEF Service
  <2>3. /\ dev'[t].read = dev[t].read /\ dev'[t].sent = dev[t].sent
        /\ dev'[t].eof = dev[t].eof /\ dev'[t].ending = dev[t].ending
        /\ dev'[t].conn = IF t \in S /\ svc[t].hasTr /\ dev[t].conn = "open"
                          THEN "ended" ELSE dev[t].conn
    BY <1>0 DEF EndServices, TypeOK, Transport
  <2>4. StreamInv(t) /\ TransportInv(t) /\ CloseInv(t)
    BY DEF IInv
  <2>5. StreamInv(t)'
    BY <2>2, <2>3, <2>4 DEF StreamInv
  <2>6. TransportInv(t)'
    BY <2>1, <2>2, <2>3, <2>4 DEF TransportInv
  <2>7. CloseInv(t)'
    <3>1. CASE t \in S /\ Announces(v[t])
      <4>1. Closes(toPeer[t]) = {} /\ ~peer[t].shut
        BY <3>1, <2>4 DEF CloseInv, Announces
      <4>2. toPeer'[t] = Append(toPeer[t], Out("CLSE", CloseId(v[t])))
        BY <3>1 DEF EndServices
      <4>3. \A i, j \in Closes(toPeer'[t]) : i = j
        <5>1. toPeer[t] \in Seq(OutPacket)
          BY <1>0 DEF TypeOK
        <5>2. \A p \in OutPacket : \A i, j \in Closes(Append(toPeer[t], p)) : i = j
          BY ONLY <5>1, <4>1, AppendClose
        <5> QED
          BY ONLY <4>2, <1>4, <5>2
      <4>4. svc'[t].ended /\ ~peer'[t].shut
        BY <3>1, <2>2, <4>1
      <4> QED
        BY ONLY <4>3, <4>4 DEF CloseInv
    <3>2. CASE ~(t \in S /\ Announces(v[t]))
      <4>1. toPeer'[t] = toPeer[t]
        BY <3>2 DEF EndServices
      <4> QED
        BY <4>1, <2>2, <2>4 DEF CloseInv
    <3> QED
      BY <3>1, <3>2
  <2> QED
    BY <2>2, <2>5, <2>6, <2>7
<1> QED
  BY <1>2, <1>3, <1>5, <1>6

(***************************************************************************)
(* The A_OPEN of a channel across the steps that touch the channel.        *)
(***************************************************************************)
LEMMA ConsumeKeeps ==
    ASSUME IInv, NEW s \in Svcs, toBridge[s] # <<>>, Consume(s), peer' = peer,
           \A t \in Svcs \ {s} : svc'[t].chain = "none" <=> svc[t].chain = "none"
    PROVE  /\ toBridge' \in [Svcs -> Seq(InPacket)]
           /\ \A t \in Svcs : OpenInv(t)'
<1>1. toBridge \in [Svcs -> Seq(InPacket)] /\ \A t \in Svcs : OpenInv(t)
  BY DEF IInv, TypeOK
<1>2. toBridge' = [toBridge EXCEPT ![s] = Tail(toBridge[s])]
  BY DEF Consume
<1>3. toBridge' \in [Svcs -> Seq(InPacket)]
  BY <1>1, <1>2
<1>4. ASSUME NEW t \in Svcs PROVE OpenInv(t)'
  <2>1. CASE t = s
    <3>1. peer'[s].st # "idle"
      BY <1>1 DEF OpenInv
    <3>2. \A i \in DOMAIN toBridge'[s] : toBridge'[s][i].cmd # "OPEN"
      <4>1. toBridge'[s] = Tail(toBridge[s]) /\ toBridge[s] \in Seq(InPacket)
        BY <1>1, <1>2
      <4>2. \A i \in DOMAIN toBridge'[s] :
               /\ toBridge'[s][i] = toBridge[s][i + 1]
               /\ i + 1 \in DOMAIN toBridge[s] /\ i + 1 # 1
        BY <4>1
      <4> QED
        BY <4>2, <1>1 DEF OpenInv
    <3> QED
      BY <2>1, <3>1, <3>2 DEF OpenInv
  <2>2. CASE t # s
    BY <2>2, <1>1, <1>2 DEF OpenInv
  <2> QED
    BY <2>1, <2>2
<1> QED
  BY <1>3, <1>4

\* A packet the remote sends preserves the invariant of its channel.
LEMMA SendKeeps ==
    ASSUME IInv, NEW s \in Svcs, NEW p \in InPacket, Send(s, p), svc' = svc,
           peer'[s].st # "idle", \A t \in Svcs \ {s} : peer'[t] = peer[t],
           p.cmd = "OPEN" => peer[s].st = "idle"
    PROVE  /\ toBridge' \in [Svcs -> Seq(InPacket)]
           /\ \A t \in Svcs : OpenInv(t)'
<1>1. toBridge \in [Svcs -> Seq(InPacket)] /\ \A t \in Svcs : OpenInv(t)
  BY DEF IInv, TypeOK
<1>2. toBridge' = [toBridge EXCEPT ![s] = Append(toBridge[s], p)]
  BY DEF Send
<1>3. toBridge' \in [Svcs -> Seq(InPacket)]
  BY <1>1, <1>2
<1>4. ASSUME NEW t \in Svcs PROVE OpenInv(t)'
  <2>1. CASE t = s
    <3>1. toBridge'[s] = Append(toBridge[s], p) /\ toBridge[s] \in Seq(InPacket)
      BY <1>1, <1>2
    <3>2. ASSUME NEW i \in DOMAIN toBridge'[s], toBridge'[s][i].cmd = "OPEN"
          PROVE  i = 1 /\ svc[s].chain = "none"
      <4>1. CASE i \in DOMAIN toBridge[s]
        BY <4>1, <3>1, <3>2, <1>1 DEF OpenInv
      <4>2. CASE i \notin DOMAIN toBridge[s]
        <5>1. i = Len(toBridge[s]) + 1 /\ toBridge'[s][i] = p
          BY <4>2, <3>1
        <5>2. toBridge[s] = <<>> /\ svc[s].chain = "none"
          BY <5>1, <3>2, <1>1 DEF OpenInv
        <5> QED
          BY <5>1, <5>2
      <4> QED
        BY <4>1, <4>2
    <3> QED
      BY <2>1, <3>2 DEF OpenInv
  <2>2. CASE t # s
    BY <2>2, <1>1, <1>2 DEF OpenInv
  <2> QED
    BY <2>1, <2>2
<1> QED
  BY <1>3, <1>4

\* A step that sends nothing preserves it.
LEMMA SameChannels ==
    ASSUME IInv, toBridge' = toBridge, peer' = peer,
           \A t \in Svcs : svc'[t].chain = "none" <=> svc[t].chain = "none"
    PROVE  /\ toBridge' \in [Svcs -> Seq(InPacket)]
           /\ \A t \in Svcs : OpenInv(t)'
BY DEF IInv, TypeOK, OpenInv

(***************************************************************************)
(* Assembling the invariant from its parts.                                *)
(***************************************************************************)
SocketOK ==
    /\ sockEnded \in BOOLEAN /\ authorized \in BOOLEAN /\ failing \in BOOLEAN
    /\ counter \in Ids \cup {IdMin}
    /\ remotes \in [Ids -> Svcs \cup {None}] /\ count \in Int

PeerOK == peer \in [Svcs -> Peer] /\ strays \in 0 .. MaxStray

ServiceOK ==
    /\ svc \in [Svcs -> Service] /\ dev \in [Svcs -> Transport]
    /\ toPeer \in [Svcs -> Seq(OutPacket)]
    /\ \A t \in Svcs : StreamInv(t) /\ TransportInv(t) /\ CloseInv(t)

ChannelOK == toBridge \in [Svcs -> Seq(InPacket)] /\ \A t \in Svcs : OpenInv(t)

\* The invariant by the variables it is about.
LEMMA Parts == IInv <=> SocketOK /\ PeerOK /\ ServiceOK /\ ChannelOK
BY DEF IInv, TypeOK, SocketOK, PeerOK, ServiceOK, ChannelOK

\* And of the next state.
LEMMA PartsNext == SocketOK' /\ PeerOK' /\ ServiceOK' /\ ChannelOK' => IInv'
BY DEF IInv, TypeOK, SocketOK, PeerOK, ServiceOK, ChannelOK

\* The next id is one.
LEMMA NextIdType ==
    ASSUME IInv PROVE NextId \in Ids
<1>1. counter \in Ids \cup {IdMin}
  BY DEF IInv, TypeOK
<1> QED
  BY <1>1, BridgeAssumption DEF NextId, Ids, IdMin, BridgeAssumption

(***************************************************************************)
(* A step that leaves svc, dev, toPeer and the remote's A_CLSE alone.      *)
(***************************************************************************)
LEMMA ServicesIdle ==
    ASSUME IInv, UNCHANGED <<svc, dev, toPeer>>,
           \A t \in Svcs : peer'[t].shut = peer[t].shut
    PROVE  ServiceOK'
<1>1. ServiceOK
  BY Parts
<1>2. ASSUME NEW t \in Svcs
      PROVE StreamInv(t)' /\ TransportInv(t)' /\ CloseInv(t)'
  <2>1. StreamInv(t) /\ TransportInv(t) /\ CloseInv(t)
    BY <1>1 DEF ServiceOK
  <2>2. StreamInv(t)' /\ TransportInv(t)'
    BY <2>1 DEF StreamInv, TransportInv
  <2>3. CloseInv(t)'
    BY <2>1 DEF CloseInv
  <2> QED
    BY <2>2, <2>3
<1> QED
  BY <1>1, <1>2 DEF ServiceOK

\* A step that leaves the socket alone preserves its part.
LEMMA SocketIdle ==
    ASSUME IInv, UNCHANGED sockVars PROVE SocketOK'
BY Parts DEF SocketOK, sockVars

\* A step that leaves the remote alone preserves its part.
LEMMA PeerIdle ==
    ASSUME IInv, UNCHANGED <<peer, strays>> PROVE PeerOK'
BY Parts DEF PeerOK

\* The service a packet is forwarded to is one.
LEMMA TargetType ==
    ASSUME IInv, NEW s \in Svcs, Live(Target(s)) PROVE Target(s) \in Svcs
<1>1. remotes \in [Ids -> Svcs \cup {None}]
  BY DEF IInv, TypeOK
<1>2. Target(s) \in Svcs \cup {None}
  BY <1>1 DEF Target
<1> QED
  BY <1>2 DEF Live

(***************************************************************************)
(* Packets from the remote preserve the invariant.                         *)
(***************************************************************************)
LEMMA PacketStep ==
    ASSUME IInv, NEW s \in Svcs, HandlePacket(s) PROVE IInv'
<1>0. TypeOK /\ ServiceOK
  BY Parts DEF IInv
<1>1. ASSUME UNCHANGED <<peer, strays>>, SocketOK', ServiceOK', Consume(s), toBridge[s] # <<>>,
             \A t \in Svcs \ {s} : svc'[t].chain = "none" <=> svc[t].chain = "none"
      PROVE  IInv'
  <2>1. ChannelOK'
    BY <1>1, ConsumeKeeps DEF ChannelOK
  <2>2. PeerOK'
    BY <1>1, PeerIdle
  <2> QED
    BY <1>1, <2>1, <2>2, PartsNext
<1>2. CASE Discard(s) \/ Ignore(s)
  <2>1. toBridge[s] # <<>> /\ Consume(s)
          /\ UNCHANGED <<sockVars, svc, dev, toPeer, peer, strays>>
    BY <1>2 DEF Discard, Ignore, Forwards, Arrives
  <2>2. ServiceOK' /\ SocketOK'
    BY <2>1, ServicesIdle, SocketIdle
  <2> QED
    BY <1>1, <2>1, <2>2
<1>3. CASE Unauthorized(s) \/ OpenEmpty(s)
  <2>1. toBridge[s] # <<>> /\ Consume(s) /\ UNCHANGED <<svc, dev, toPeer, peer, strays>>
    BY <1>3 DEF Unauthorized, OpenEmpty, Arrives
  <2>2. ServiceOK'
    BY <2>1, ServicesIdle
  <2>3. SocketOK'
    BY <1>0, <1>3, NextIdType DEF Unauthorized, OpenEmpty, SocketOK, TypeOK
  <2> QED
    BY <1>1, <2>1, <2>2, <2>3
<1>4. CASE OpenService(s)
  <2>1. toBridge[s] # <<>> /\ Consume(s) /\ UNCHANGED <<dev, toPeer, peer, strays>>
          /\ Head(toBridge[s]).cmd = "OPEN"
    BY <1>4 DEF OpenService, Arrives
  <2>2. svc[s].chain = "none"
    <3>1. OpenInv(s) /\ toBridge[s] \in Seq(InPacket)
      BY <1>0 DEF IInv, TypeOK
    <3> QED
      BY <2>1, <3>1 DEF OpenInv
  <2>3. svc' = [svc EXCEPT ![s] = [svc[s] EXCEPT !.localId = NextId, !.chain = "transport",
                                                 !.cleanup = "waiting"]]
    BY <1>4, <1>0 DEF OpenService, TypeOK, Service
  <2>4. svc' \in [Svcs -> Service]
    <3>1. \A v \in Service : [v EXCEPT !.localId = NextId, !.chain = "transport",
                                       !.cleanup = "waiting"] \in Service
      BY ONLY NextIdType, <1>0, IInv DEF Service, Chains
    <3> QED
      BY <2>3, <1>0, <3>1 DEF TypeOK
  <2>5. ServiceOK'
    BY <2>1, <2>2, <2>3, <2>4, <1>0 DEF ServiceOK, StreamInv, TransportInv, CloseInv, TypeOK, Service
  <2>6. SocketOK'
    BY <1>4, <1>0, NextIdType DEF OpenService, SocketOK, TypeOK
  <2> QED
    BY <1>1, <2>1, <2>3, <2>5, <2>6, <1>0 DEF TypeOK
<1>5. CASE OpenCollides(s)
  <2>1. toBridge[s] # <<>> /\ Consume(s) /\ UNCHANGED <<dev, toPeer, peer, strays>>
          /\ Head(toBridge[s]).cmd = "OPEN"
    BY <1>5 DEF OpenCollides, Arrives
  <2>2. svc[s].chain = "none"
    <3>1. OpenInv(s) /\ toBridge[s] \in Seq(InPacket)
      BY <1>0 DEF IInv, TypeOK
    <3> QED
      BY <2>1, <3>1 DEF OpenInv
  <2>3. svc' = [svc EXCEPT ![s] = [svc[s] EXCEPT !.localId = NextId, !.chain = "rejected",
                                                 !.cleanup = "due"]]
    BY <1>5, <1>0 DEF OpenCollides, TypeOK, Service
  <2>4. svc' \in [Svcs -> Service]
    <3>1. \A v \in Service : [v EXCEPT !.localId = NextId, !.chain = "rejected",
                                       !.cleanup = "due"] \in Service
      BY ONLY NextIdType, <1>0, IInv DEF Service, Chains
    <3> QED
      BY <2>3, <1>0, <3>1 DEF TypeOK
  <2>5. ServiceOK'
    BY <2>1, <2>2, <2>3, <2>4, <1>0 DEF ServiceOK, StreamInv, TransportInv, CloseInv, TypeOK, Service
  <2>6. SocketOK'
    BY <1>5, <1>0, NextIdType DEF OpenCollides, SocketOK, TypeOK
  <2> QED
    BY <1>1, <2>1, <2>3, <2>5, <2>6, <1>0 DEF TypeOK
<1>6. CASE Premature(s)
  <2> DEFINE t == Target(s)
  <2>1. toBridge[s] # <<>> /\ Consume(s) /\ t \in Svcs
          /\ UNCHANGED <<sockVars, dev, toPeer, peer, strays>>
          /\ svc' = [svc EXCEPT ![t] = [svc[t] EXCEPT !.raising = TRUE]]
    BY <1>6, <1>0, TargetType DEF Premature, Forwards, Arrives, TypeOK, Service
  <2> HIDE DEF t
  <2>2. svc' \in [Svcs -> Service]
    <3>1. \A v \in Service : [v EXCEPT !.raising = TRUE] \in Service
      BY ONLY DEF Service
    <3> QED
      BY <2>1, <1>0, <3>1 DEF TypeOK
  <2>3. \A r \in Svcs : /\ svc'[r].ended = svc[r].ended /\ svc'[r].hasTr = svc[r].hasTr
                        /\ svc'[r].opened = svc[r].opened /\ svc'[r].chain = svc[r].chain
    BY <2>1, <1>0 DEF TypeOK, Service
  <2>4. ServiceOK'
    BY <2>1, <2>2, <2>3, <1>0 DEF ServiceOK, StreamInv, TransportInv, CloseInv
  <2> QED
    BY <1>1, <2>1, <2>3, <2>4, SocketIdle
<1>7. CASE HandleOkay(s)
  <2> DEFINE t == Target(s)
             v == [svc[t] EXCEPT !.needAck = FALSE]
  <2>1. toBridge[s] # <<>> /\ Consume(s) /\ t \in Svcs
          /\ UNCHANGED <<sockVars, peer, strays>> /\ TryPush(t, v, dev[t])
    BY <1>7, TargetType DEF HandleOkay, Forwards, Arrives, Usable
  <2>2. /\ v \in Service /\ v.ended = svc[t].ended /\ v.hasTr = svc[t].hasTr
        /\ v.opened = svc[t].opened /\ v.chain = svc[t].chain
    BY <2>1, <1>0, ZenonT(30) DEF TypeOK, Service
  <2>3. dev[t] \in Transport /\ StreamInv(t)
    BY <2>1, <1>0 DEF TypeOK, ServiceOK
  <2> HIDE DEF t, v
  <2>4. ServiceOK' /\ \A r \in Svcs : svc'[r].chain = "none" <=> svc[r].chain = "none"
    BY <2>1, <2>2, <2>3, TryPushKeeps DEF ServiceOK, StreamInv
  <2> QED
    BY <1>1, <2>1, <2>4, SocketIdle
<1>8. CASE HandleWrite(s)
  <2> DEFINE t == Target(s)
             p == Out("OKAY", svc[t].localId)
  <2>1. toBridge[s] # <<>> /\ Consume(s) /\ t \in Svcs
          /\ UNCHANGED <<sockVars, svc, peer, strays>>
          /\ dev' = [dev EXCEPT ![t] = PassOn(dev[t])] /\ toPeer' = Write(t, p)
    BY <1>8, TargetType DEF HandleWrite, Forwards, Arrives, Usable
  <2>2. p \in OutPacket /\ p.cmd # "CLSE"
    BY <2>1, <1>0, BridgeAssumption DEF TypeOK, Service, Out, OutPacket, BridgeAssumption
  <2> HIDE DEF t, p
  <2>3. /\ toPeer' \in [Svcs -> Seq(OutPacket)]
        /\ \A r \in Svcs : Closes(toPeer'[r]) = Closes(toPeer[r])
    <3>1. Append(toPeer[t], p) \in Seq(OutPacket)
            /\ Closes(Append(toPeer[t], p)) = Closes(toPeer[t])
      BY <2>1, <2>2, <1>0, AppendOther DEF TypeOK
    <3> QED
      BY <3>1, <2>1, <1>0 DEF Write, TypeOK
  <2>4. /\ PassOn(dev[t]) \in Transport /\ PassOn(dev[t]).read = dev[t].read
        /\ PassOn(dev[t]).sent = dev[t].sent /\ PassOn(dev[t]).eof = dev[t].eof
        /\ PassOn(dev[t]).ending = dev[t].ending /\ PassOn(dev[t]).conn = dev[t].conn
    <3>1. \A d \in Transport : [d EXCEPT !.accepted = @ + 1] \in Transport
      BY ONLY DEF Transport
    <3> QED
      BY <2>1, <1>0, <3>1 DEF TypeOK, PassOn, Transport
  <2>5. ServiceOK'
    BY <2>1, <2>3, <2>4, <1>0 DEF ServiceOK, StreamInv, TransportInv, CloseInv
  <2> QED
    BY <1>1, <2>1, <2>5, SocketIdle
<1>9. CASE HandleClose(s)
  <2>1. toBridge[s] # <<>> /\ Consume(s) /\ Target(s) \in Svcs
          /\ UNCHANGED <<sockVars, peer, strays>> /\ EndServices({Target(s)}, svc)
    BY <1>9, TargetType DEF HandleClose, Forwards, Arrives, Usable
  <2>2. ServiceOK' /\ \A r \in Svcs : svc'[r].chain = "none" <=> svc[r].chain = "none"
    BY <2>1, <1>0, EndServicesKeeps DEF ServiceOK
  <2> QED
    BY <1>1, <2>1, <2>2, SocketIdle
<1> QED
  BY <1>2, <1>3, <1>4, <1>5, <1>6, <1>7, <1>8, <1>9 DEF HandlePacket

(***************************************************************************)
(* Steps that leave both channels' ends to the remote alone.               *)
(***************************************************************************)
LEMMA InnerStep ==
    ASSUME IInv, UNCHANGED <<toBridge, peer, strays>>, SocketOK', ServiceOK',
           \A t \in Svcs : svc'[t].chain = "none" <=> svc[t].chain = "none"
    PROVE  IInv'
<1>1. ChannelOK'
  BY SameChannels DEF ChannelOK
<1>2. PeerOK'
  BY PeerIdle
<1> QED
  BY <1>1, <1>2, PartsNext

(***************************************************************************)
(* The deferred callbacks of services and socket preserve it.              *)
(***************************************************************************)
LEMMA ResumeStep ==
    ASSUME IInv, NEW s \in Svcs, Resume(s) PROVE IInv'
<1>0. TypeOK /\ ServiceOK
  BY Parts DEF IInv
<1>1. CASE HandleError(s)
  <2> DEFINE due == IF svc[s].cleanup = "waiting" THEN "due" ELSE svc[s].cleanup
             v == [svc EXCEPT ![s] = [svc[s] EXCEPT !.raising = FALSE, !.cleanup = due]]
  <2>1. EndServices({s}, v) /\ UNCHANGED <<sockVars, toBridge, peer, strays>>
    BY <1>1, <1>0 DEF HandleError, TypeOK, Service
  <2>2. v \in [Svcs -> Service]
    <3>1. svc[s] \in Service /\ svc \in [Svcs -> Service]
      BY <1>0 DEF TypeOK
    <3>2. [svc[s] EXCEPT !.raising = FALSE, !.cleanup = due] \in Service
      BY ONLY <3>1 DEF Service
    <3> QED
      BY <3>1, <3>2
  <2>3. \A t \in Svcs : /\ v[t].ended = svc[t].ended /\ v[t].hasTr = svc[t].hasTr
                        /\ v[t].opened = svc[t].opened /\ v[t].chain = svc[t].chain
    BY <1>0 DEF TypeOK, Service
  <2> HIDE DEF v
  <2>4. ServiceOK' /\ \A t \in Svcs : svc'[t].chain = "none" <=> svc[t].chain = "none"
    BY <2>1, <2>2, <2>3, EndServicesKeeps, ZenonT(30) DEF ServiceOK
  <2> QED
    BY <2>1, <2>4, InnerStep, SocketIdle
<1>2. CASE StartPush(s)
  <2>1. svc[s].chain = "opened" /\ UNCHANGED <<sockVars, toBridge, peer, strays>>
    BY <1>2 DEF StartPush
  <2>2. CASE svc[s].hasTr
    <3> DEFINE v == [svc[s] EXCEPT !.chain = "pushing"]
    <3>1. TryPush(s, v, dev[s])
      BY <1>2, <2>2 DEF StartPush
    <3>2. /\ v.ended = svc[s].ended /\ v.hasTr = svc[s].hasTr
          /\ v.opened = svc[s].opened /\ v.chain = "pushing"
      BY <1>0 DEF TypeOK, Service
    <3>3. v \in Service
      <4>1. \A u \in Service : [u EXCEPT !.chain = "pushing"] \in Service
        BY ONLY DEF Service, Chains
      <4> QED
        BY <4>1, <1>0 DEF TypeOK
    <3>4. dev[s] \in Transport /\ StreamInv(s)
      BY <1>0 DEF TypeOK, ServiceOK
    <3> HIDE DEF v
    <3>5. ServiceOK' /\ \A t \in Svcs : svc'[t].chain = "none" <=> svc[t].chain = "none"
      BY <2>1, <3>1, <3>2, <3>3, <3>4, TryPushKeeps DEF ServiceOK, StreamInv
    <3> QED
      BY <2>1, <3>5, InnerStep, SocketIdle
  <2>3. CASE ~svc[s].hasTr
    <3>1. svc' = [svc EXCEPT ![s] = [svc[s] EXCEPT !.chain = "finally"]]
            /\ UNCHANGED <<dev, toPeer>>
      BY <1>2, <2>3 DEF StartPush
    <3>2. svc' \in [Svcs -> Service]
      <4>1. \A u \in Service : [u EXCEPT !.chain = "finally"] \in Service
        BY ONLY DEF Service, Chains
      <4> QED
        BY <3>1, <4>1, <1>0 DEF TypeOK
    <3>3. ServiceOK'
      BY <2>1, <2>3, <3>1, <3>2, <1>0
         DEF ServiceOK, StreamInv, TransportInv, CloseInv, TypeOK, Service
    <3>4. \A t \in Svcs : svc'[t].chain = "none" <=> svc[t].chain = "none"
      BY <2>1, <3>1, <1>0 DEF TypeOK, Service
    <3> QED
      BY <2>1, <3>3, <3>4, InnerStep, SocketIdle
  <2> QED
    BY <2>2, <2>3
<1>3. CASE TransportEnds(s)
  <2>1. /\ svc[s].chain = "pushing" /\ dev[s].ending
        /\ UNCHANGED <<sockVars, dev, toPeer, toBridge, peer, strays>>
        /\ svc' = [svc EXCEPT ![s] = [svc[s] EXCEPT !.chain = "finally"]]
    BY <1>3 DEF TransportEnds
  <2>2. svc' \in [Svcs -> Service]
    <3>1. \A u \in Service : [u EXCEPT !.chain = "finally"] \in Service
      BY ONLY DEF Service, Chains
    <3> QED
      BY <2>1, <3>1, <1>0 DEF TypeOK
  <2>3. ServiceOK'
    BY <2>1, <2>2, <1>0 DEF ServiceOK, StreamInv, TransportInv, CloseInv, TypeOK, Service
  <2>4. \A t \in Svcs : svc'[t].chain = "none" <=> svc[t].chain = "none"
    BY <2>1, <1>0 DEF TypeOK, Service
  <2> QED
    BY <2>1, <2>3, <2>4, InnerStep, SocketIdle
<1>4. CASE Finally(s)
  <2> DEFINE v == [svc EXCEPT ![s] = [svc[s] EXCEPT !.chain = "done"]]
  <2>1. EndServices({s}, v) /\ UNCHANGED <<sockVars, toBridge, peer, strays>>
          /\ svc[s].chain = "finally"
    BY <1>4 DEF Finally
  <2>2. v \in [Svcs -> Service]
    <3>1. \A u \in Service : [u EXCEPT !.chain = "done"] \in Service
      BY ONLY DEF Service, Chains
    <3> QED
      BY <3>1, <1>0 DEF TypeOK
  <2>3. \A t \in Svcs : /\ v[t].ended = svc[t].ended /\ v[t].hasTr = svc[t].hasTr
                        /\ v[t].opened = svc[t].opened
                        /\ \/ v[t].chain = svc[t].chain
                           \/ /\ t \in {s} /\ svc[t].chain = "finally"
                              /\ v[t].chain = "done"
    BY <2>1, <1>0 DEF TypeOK, Service
  <2> HIDE DEF v
  <2>4. ServiceOK' /\ \A t \in Svcs : svc'[t].chain = "none" <=> svc[t].chain = "none"
    BY <2>1, <2>2, <2>3, EndServicesKeeps DEF ServiceOK
  <2> QED
    BY <2>1, <2>4, InnerStep, SocketIdle
<1>5. CASE Cleanup(s)
  <2> DEFINE v == [svc EXCEPT ![s] = [svc[s] EXCEPT !.cleanup = "done"]]
  <2>1. EndServices({s}, v) /\ UNCHANGED <<toBridge, peer, strays>>
    BY <1>5 DEF Cleanup
  <2>2. v \in [Svcs -> Service]
    <3>1. \A u \in Service : [u EXCEPT !.cleanup = "done"] \in Service
      BY ONLY DEF Service
    <3> QED
      BY <3>1, <1>0 DEF TypeOK
  <2>3. \A t \in Svcs : /\ v[t].ended = svc[t].ended /\ v[t].hasTr = svc[t].hasTr
                        /\ v[t].opened = svc[t].opened /\ v[t].chain = svc[t].chain
    BY <1>0 DEF TypeOK, Service
  <2> HIDE DEF v
  <2>4. ServiceOK' /\ \A t \in Svcs : svc'[t].chain = "none" <=> svc[t].chain = "none"
    BY <2>1, <2>2, <2>3, EndServicesKeeps, ZenonT(30) DEF ServiceOK
  <2>5. SocketOK'
    <3>1. remotes' \in [Ids -> Svcs \cup {None}] /\ count' \in Int
      <4>1. /\ remotes' = [remotes EXCEPT ![svc[s].localId] = None]
            /\ count' = count - 1 \/ count' = count
        BY <1>5 DEF Cleanup, CountAfterRemove
      <4>2. remotes \in [Ids -> Svcs \cup {None}] /\ count \in Int
        BY <1>0 DEF TypeOK
      <4>3. count' \in Int
        BY ONLY <4>1, <4>2
      <4>4. remotes' \in [Ids -> Svcs \cup {None}]
        BY ONLY <4>1, <4>2
      <4> QED
        BY ONLY <4>3, <4>4
    <3>2. UNCHANGED <<sockEnded, authorized, counter, failing>>
      BY <1>5 DEF Cleanup
    <3> QED
      BY <3>1, <3>2, <1>0 DEF SocketOK, TypeOK
  <2> QED
    BY <2>1, <2>4, <2>5, InnerStep
<1> QED
  BY <1>1, <1>2, <1>3, <1>4, <1>5 DEF Resume

(***************************************************************************)
(* The answers of the local ADB server preserve it.                        *)
(***************************************************************************)
LEMMA ServerStep ==
    ASSUME IInv, NEW s \in Svcs, ServerAnswers(s) PROVE IInv'
<1>0. TypeOK /\ ServiceOK
  BY Parts DEF IInv
<1>1. CASE TransportReady(s)
  <2>1. /\ svc[s].chain = "transport"
        /\ UNCHANGED <<sockVars, toPeer, toBridge, peer, strays>>
        /\ svc' = [svc EXCEPT ![s] = [svc[s] EXCEPT !.hasTr = TRUE,
                                                    !.chain = AfterTransport(svc[s])]]
        /\ dev' = [dev EXCEPT ![s] = [dev[s] EXCEPT !.conn = "open"]]
    BY <1>1, <1>0 DEF TransportReady, TypeOK, Service
  <2>2. svc' \in [Svcs -> Service]
    <3>1. \A u \in Service : [u EXCEPT !.hasTr = TRUE, !.chain = "reply"] \in Service
                               /\ [u EXCEPT !.hasTr = TRUE, !.chain = "finally"] \in Service
      BY ONLY DEF Service, Chains
    <3> QED
      BY <2>1, <3>1, <1>0 DEF TypeOK, AfterTransport
  <2>3. dev' \in [Svcs -> Transport]
    <3>1. \A d \in Transport : [d EXCEPT !.conn = "open"] \in Transport
      BY ONLY DEF Transport
    <3> QED
      BY <2>1, <3>1, <1>0 DEF TypeOK
  <2>4. ServiceOK'
    BY <2>1, <2>2, <2>3, <1>0 DEF ServiceOK, StreamInv, TransportInv, CloseInv, TypeOK,
                                  Service, Transport, AfterTransport
  <2>5. \A t \in Svcs : svc'[t].chain = "none" <=> svc[t].chain = "none"
    BY <2>1, <1>0 DEF TypeOK, Service, AfterTransport
  <2> QED
    BY <2>1, <2>4, <2>5, InnerStep, SocketIdle
<1>2. CASE TransportFailed(s)
  <2>1. /\ svc[s].chain = "transport"
        /\ UNCHANGED <<sockVars, dev, toPeer, toBridge, peer, strays>>
        /\ svc' = [svc EXCEPT ![s] = [svc[s] EXCEPT !.chain = "finally"]]
    BY <1>2 DEF TransportFailed
  <2>2. svc' \in [Svcs -> Service]
    <3>1. \A u \in Service : [u EXCEPT !.chain = "finally"] \in Service
      BY ONLY DEF Service, Chains
    <3> QED
      BY <2>1, <3>1, <1>0 DEF TypeOK
  <2>3. ServiceOK'
    BY <2>1, <2>2, <1>0 DEF ServiceOK, StreamInv, TransportInv, CloseInv, TypeOK, Service
  <2>4. \A t \in Svcs : svc'[t].chain = "none" <=> svc[t].chain = "none"
    BY <2>1, <1>0 DEF TypeOK, Service
  <2> QED
    BY <2>1, <2>3, <2>4, InnerStep, SocketIdle
<1>3. CASE ReplyOkay(s)
  <2> DEFINE p == Out("OKAY", svc[s].localId)
  <2>1. /\ svc[s].chain = "reply"
        /\ UNCHANGED <<sockVars, dev, toBridge, peer, strays>>
        /\ svc' = [svc EXCEPT ![s] = [svc[s] EXCEPT !.opened = TRUE, !.chain = "opened"]]
        /\ toPeer' = Write(s, p)
    BY <1>3, <1>0 DEF ReplyOkay, TypeOK, Service
  <2>2. svc' \in [Svcs -> Service]
    <3>1. \A u \in Service : [u EXCEPT !.opened = TRUE, !.chain = "opened"] \in Service
      BY ONLY DEF Service, Chains
    <3> QED
      BY <2>1, <3>1, <1>0 DEF TypeOK
  <2>3. p \in OutPacket /\ p.cmd # "CLSE"
    BY <1>0, BridgeAssumption DEF TypeOK, Service, Out, OutPacket, BridgeAssumption
  <2> HIDE DEF p
  <2>4. /\ toPeer' \in [Svcs -> Seq(OutPacket)]
        /\ \A r \in Svcs : Closes(toPeer'[r]) = Closes(toPeer[r])
    <3>1. Append(toPeer[s], p) \in Seq(OutPacket)
            /\ Closes(Append(toPeer[s], p)) = Closes(toPeer[s])
      BY <2>3, <1>0, AppendOther DEF TypeOK
    <3> QED
      BY <3>1, <2>1, <1>0 DEF Write, TypeOK
  <2>5. ServiceOK'
    BY <2>1, <2>2, <2>4, <1>0 DEF ServiceOK, StreamInv, TransportInv, CloseInv, TypeOK, Service
  <2>6. \A t \in Svcs : svc'[t].chain = "none" <=> svc[t].chain = "none"
    BY <2>1, <1>0 DEF TypeOK, Service
  <2> QED
    BY <2>1, <2>5, <2>6, InnerStep, SocketIdle
<1>4. CASE ReplyFails(s)
  <2>1. /\ svc[s].chain = "reply"
        /\ UNCHANGED <<sockVars, toPeer, toBridge, peer, strays>>
        /\ svc' = [svc EXCEPT ![s] = [svc[s] EXCEPT !.chain = "finally"]]
    BY <1>4 DEF ReplyFails
  <2>2. PICK c \in {dev[s].conn, "lost"} :
               dev' = [dev EXCEPT ![s] = [dev[s] EXCEPT !.conn = c]]
    BY <1>4 DEF ReplyFails
  <2>3. svc' \in [Svcs -> Service]
    <3>1. \A u \in Service : [u EXCEPT !.chain = "finally"] \in Service
      BY ONLY DEF Service, Chains
    <3> QED
      BY <2>1, <3>1, <1>0 DEF TypeOK
  <2>4. dev' \in [Svcs -> Transport]
    <3>1. \A d \in Transport : \A x \in {d.conn, "lost"} : [d EXCEPT !.conn = x] \in Transport
      BY ONLY DEF Transport
    <3> QED
      BY <2>2, <3>1, <1>0 DEF TypeOK
  <2>5. ServiceOK'
    <3>1. ASSUME NEW t \in Svcs
          PROVE StreamInv(t)' /\ TransportInv(t)' /\ CloseInv(t)'
      <4>1. StreamInv(t) /\ TransportInv(t) /\ CloseInv(t)
        BY <1>0 DEF ServiceOK
      <4>2. /\ svc'[t].ended = svc[t].ended /\ svc'[t].hasTr = svc[t].hasTr
            /\ svc'[t].opened = svc[t].opened
            /\ svc'[t].chain = IF t = s THEN "finally" ELSE svc[t].chain
        BY <2>1, <1>0 DEF TypeOK, Service
      <4>3. /\ dev'[t].read = dev[t].read /\ dev'[t].sent = dev[t].sent
            /\ dev'[t].eof = dev[t].eof /\ dev'[t].ending = dev[t].ending
            /\ \/ dev'[t].conn = dev[t].conn
               \/ t = s /\ dev'[t].conn = "lost"
        BY <2>2, <1>0 DEF TypeOK, Transport
      <4>4. StreamInv(t)'
        BY <2>1, <4>1, <4>2, <4>3 DEF StreamInv
      <4>5. TransportInv(t)'
        BY <2>1, <4>1, <4>2, <4>3 DEF TransportInv
      <4>6. CloseInv(t)'
        <5>1. toPeer' = toPeer /\ peer' = peer
          BY <2>1
        <5> QED
          BY ONLY <5>1, <4>1, <4>2, t \in Svcs DEF CloseInv
      <4> QED
        BY <4>4, <4>5, <4>6
    <3> QED
      BY <3>1, <2>1, <2>3, <2>4, <1>0 DEF ServiceOK
  <2>6. \A t \in Svcs : svc'[t].chain = "none" <=> svc[t].chain = "none"
    BY <2>1, <1>0 DEF TypeOK, Service
  <2> QED
    BY <2>1, <2>5, <2>6, InnerStep, SocketIdle
<1> QED
  BY <1>1, <1>2, <1>3, <1>4 DEF ServerAnswers

(***************************************************************************)
(* What the device side does preserves it.                                 *)
(***************************************************************************)
LEMMA EmitStep ==
    ASSUME IInv, NEW s \in Svcs, NEW d \in Transport, DeviceEmits(s, d),
           d.conn = dev[s].conn, d.read = dev[s].read, d.ending = dev[s].ending,
           d.sent >= dev[s].sent
    PROVE  IInv'
<1>0. TypeOK /\ ServiceOK
  BY Parts DEF IInv
<1>1. /\ svc[s].chain \in {"opened", "pushing"} /\ ~dev[s].eof
      /\ UNCHANGED <<sockVars, toBridge, peer, strays>>
  BY DEF DeviceEmits
<1>2. StreamInv(s) /\ svc[s] \in Service /\ dev[s] \in Transport
  BY <1>0 DEF ServiceOK, TypeOK
<1>3. d.read <= d.sent /\ ~d.ending
  BY <1>1, <1>2 DEF StreamInv, Transport
<1>4. CASE svc[s].chain = "pushing"
  <2>1. TryPush(s, svc[s], d)
    BY <1>4 DEF DeviceEmits
  <2>2. ServiceOK' /\ \A t \in Svcs : svc'[t].chain = "none" <=> svc[t].chain = "none"
    BY <2>1, <1>1, <1>2, <1>3, <1>4, TryPushKeeps DEF ServiceOK
  <2> QED
    BY <1>1, <2>2, InnerStep, SocketIdle
<1>5. CASE svc[s].chain = "opened"
  <2>1. dev' = [dev EXCEPT ![s] = d] /\ UNCHANGED <<svc, toPeer>>
    BY <1>5 DEF DeviceEmits
  <2>2. ServiceOK'
    BY <2>1, <1>0, <1>1, <1>3, <1>5 DEF ServiceOK, StreamInv, TransportInv, CloseInv, TypeOK
  <2> QED
    BY <1>1, <2>1, <2>2, InnerStep, SocketIdle
<1> QED
  BY <1>1, <1>4, <1>5

\* The device's steps preserve IInv.
LEMMA DeviceStep ==
    ASSUME IInv, NEW s \in Svcs, DeviceSide(s) PROVE IInv'
<1>0. TypeOK /\ ServiceOK /\ dev[s] \in Transport
  BY Parts DEF IInv, TypeOK
<1>1. CASE DeviceSends(s)
  <2>1. PICK n \in 1 .. (MaxDev - dev[s].sent) : DeviceEmits(s, [dev[s] EXCEPT !.sent = @ + n])
    BY <1>1 DEF DeviceSends
  <2> DEFINE d == [dev[s] EXCEPT !.sent = @ + n]
  <2>2. /\ d \in Transport /\ d.conn = dev[s].conn /\ d.read = dev[s].read
        /\ d.ending = dev[s].ending /\ d.sent >= dev[s].sent
    BY ONLY <1>0, <2>1, BridgeAssumption DEF Transport, BridgeAssumption
  <2> HIDE DEF d
  <2> QED
    BY <2>1, <2>2, EmitStep DEF d
<1>2. CASE DeviceCloses(s)
  <2> DEFINE d == [dev[s] EXCEPT !.eof = TRUE]
  <2>1. DeviceEmits(s, d)
    BY <1>2 DEF DeviceCloses
  <2>2. /\ d \in Transport /\ d.conn = dev[s].conn /\ d.read = dev[s].read
        /\ d.ending = dev[s].ending /\ d.sent >= dev[s].sent
    <3>1. \A u \in Transport : [u EXCEPT !.eof = TRUE] \in Transport
      BY ONLY DEF Transport
    <3>2. /\ d.conn = dev[s].conn /\ d.read = dev[s].read
          /\ d.ending = dev[s].ending /\ d.sent = dev[s].sent
      BY ONLY <1>0 DEF Transport
    <3>3. dev[s].sent \in Int
      BY ONLY <1>0 DEF Transport
    <3> QED
      BY <1>0, <3>1, <3>2, <3>3
  <2> HIDE DEF d
  <2> QED
    BY <2>1, <2>2, EmitStep
<1>3. CASE TransportErrors(s)
  <2>1. /\ UNCHANGED <<sockVars, toPeer, toBridge, peer, strays>>
        /\ \/ svc[s].chain = "pushing"
              /\ svc' = [svc EXCEPT ![s] = [svc[s] EXCEPT !.chain = "finally"]]
           \/ svc[s].chain = "opened" /\ svc' = svc
        /\ dev' = [dev EXCEPT ![s] = [dev[s] EXCEPT !.conn = "lost"]]
    BY <1>3 DEF TransportErrors
  <2>2. svc' \in [Svcs -> Service]
    <3>1. \A u \in Service : [u EXCEPT !.chain = "finally"] \in Service
      BY ONLY DEF Service, Chains
    <3>2. svc \in [Svcs -> Service]
      BY <1>0 DEF TypeOK
    <3>3. CASE svc' = svc
      BY <3>2, <3>3
    <3>4. CASE svc' = [svc EXCEPT ![s] = [svc[s] EXCEPT !.chain = "finally"]]
      BY <3>1, <3>2, <3>4
    <3> QED
      BY <2>1, <3>3, <3>4
  <2>3. dev' \in [Svcs -> Transport]
    <3>1. \A d \in Transport : [d EXCEPT !.conn = "lost"] \in Transport
      BY ONLY DEF Transport
    <3> QED
      BY <2>1, <3>1, <1>0 DEF TypeOK
  <2>4. ServiceOK'
    BY <2>1, <2>2, <2>3, <1>0, SMTT(20)
       DEF ServiceOK, StreamInv, TransportInv, CloseInv, TypeOK, Service, Transport
  <2>5. \A t \in Svcs : svc'[t].chain = "none" <=> svc[t].chain = "none"
    <3>1. CASE svc' = svc
      BY <3>1
    <3>2. CASE svc' = [svc EXCEPT ![s] = [svc[s] EXCEPT !.chain = "finally"]]
      BY <2>1, <3>2, <1>0, SMTT(30) DEF TypeOK, Service
    <3> QED
      BY <2>1, <3>1, <3>2
  <2> QED
    BY <2>1, <2>4, <2>5, InnerStep, SocketIdle
<1> QED
  BY <1>1, <1>2, <1>3 DEF DeviceSide

(***************************************************************************)
(* What the remote does preserves it.                                      *)
(***************************************************************************)
LEMMA PeerSends ==
    ASSUME IInv, NEW s \in Svcs, NEW p \in InPacket, Send(s, p),
           UNCHANGED <<sockVars, svc, dev, toPeer>>, PeerOK', peer'[s].st # "idle",
           \A t \in Svcs \ {s} : peer'[t] = peer[t], peer'[s].shut = peer[s].shut,
           p.cmd = "OPEN" => peer[s].st = "idle"
    PROVE  IInv'
<1>1. ChannelOK'
  BY SendKeeps DEF ChannelOK
<1>2. ServiceOK'
  BY ServicesIdle
<1> QED
  BY <1>1, <1>2, SocketIdle, PartsNext

\* The remote's steps preserve IInv.
LEMMA PeerStep ==
    ASSUME IInv, NEW s \in Svcs, PeerSide(s) PROVE IInv'
<1>0. TypeOK /\ ServiceOK /\ peer[s] \in Peer
  BY Parts DEF IInv, TypeOK
<1>a. peer[s].id \in Ids \cup {None} /\ peer \in [Svcs -> Peer]
  BY <1>0 DEF Peer, TypeOK
<1>b. \A c \in {"OPEN", "OKAY", "WRTE", "CLSE"}, i \in Ids \cup {None}, e \in BOOLEAN :
         In(c, i, e) \in InPacket /\ In(c, i, e).cmd = c
  BY DEF In, InPacket
<1>1. CASE PeerOpens(s)
  <2>1. /\ peer[s].st = "idle" /\ UNCHANGED <<sockVars, svc, dev, toPeer, strays>>
        /\ peer' = [peer EXCEPT ![s] = [peer[s] EXCEPT !.st = "opening"]]
    BY <1>1 DEF PeerOpens
  <2>2. PICK e \in BOOLEAN : Send(s, In("OPEN", None, e))
    BY <1>1 DEF PeerOpens
  <2>3. \A v \in Peer : [v EXCEPT !.st = "opening"] \in Peer
    BY ONLY DEF Peer
  <2>4. PeerOK'
    BY <2>1, <2>3, <1>0 DEF PeerOK, TypeOK
  <2>5. /\ peer'[s].st # "idle" /\ \A t \in Svcs \ {s} : peer'[t] = peer[t]
        /\ peer'[s].shut = peer[s].shut
    BY <2>1, <1>a DEF Peer
  <2> QED
    BY <2>1, <2>2, <2>4, <2>5, <1>b, PeerSends
<1>2. CASE PeerReceives(s)
  <2> DEFINE p == Head(toPeer[s])
             v == peer[s]
  <2>1. /\ toPeer[s] # <<>> /\ UNCHANGED <<sockVars, svc, dev, toBridge, strays>>
        /\ toPeer' = [toPeer EXCEPT ![s] = Tail(toPeer[s])]
    BY <1>2 DEF PeerReceives
  <2>2. toPeer[s] \in Seq(OutPacket) /\ p \in OutPacket
    BY <2>1, <1>0, TailCloses DEF TypeOK
  <2>3. PICK w : /\ peer' = [peer EXCEPT ![s] = w]
                 /\ w = CASE p.cmd = "CLSE" -> [v EXCEPT !.st = "closed", !.shut = TRUE]
                          [] p.cmd = "WRTE" /\ v.st # "closed" ->
                               [v EXCEPT !.got = p.hi, !.owes = TRUE]
                          [] p.cmd = "OKAY" /\ v.st = "opening" ->
                               [v EXCEPT !.st = "open", !.id = p.id]
                          [] p.cmd = "OKAY" /\ v.st = "open" -> [v EXCEPT !.waiting = FALSE]
                          [] OTHER -> v
    BY <1>2 DEF PeerReceives
  <2>4. /\ w \in Peer
        /\ w.st = "idle" => v.st = "idle"
        /\ w.shut => v.shut \/ p.cmd = "CLSE"
    <3>1. /\ p.id \in Ids \cup {None} /\ p.hi \in 0 .. MaxDev
      BY <2>2 DEF OutPacket
    <3> HIDE DEF p, v
    <3>2. v \in Peer
      BY <1>0 DEF v
    <3>3. CASE p.cmd = "CLSE"
      BY ONLY <3>2, <3>3, <2>3 DEF Peer
    <3>4. CASE p.cmd # "CLSE"
      BY ONLY <3>1, <3>2, <3>4, <2>3 DEF Peer
    <3> QED
      BY <3>3, <3>4
  <2>5. PeerOK'
    BY <2>1, <2>3, <2>4, <1>0, <1>a DEF PeerOK, TypeOK
  <2>6. ChannelOK'
    <3>1. ChannelOK
      BY Parts
    <3>2. \A t \in Svcs : peer'[t].st = "idle" => peer[t].st = "idle"
      BY <2>3, <2>4, <1>a
    <3> QED
      BY <2>1, <3>1, <3>2 DEF ChannelOK, OpenInv
  <2>7. ServiceOK'
    <3>1. toPeer' \in [Svcs -> Seq(OutPacket)]
      BY <2>1, <2>2, <1>0, TailCloses DEF TypeOK
    <3>2. ASSUME NEW t \in Svcs PROVE StreamInv(t)' /\ TransportInv(t)' /\ CloseInv(t)'
      <4>1. StreamInv(t) /\ TransportInv(t) /\ CloseInv(t)
        BY <1>0 DEF ServiceOK
      <4>2. StreamInv(t)' /\ TransportInv(t)'
        BY <2>1, <4>1 DEF StreamInv, TransportInv
      <4>3. CASE t # s
        <5>1. toPeer'[t] = toPeer[t] /\ peer'[t] = peer[t]
          BY <4>3, <2>1, <2>3, <1>0 DEF TypeOK
        <5> QED
          BY <2>1, <4>1, <4>2, <5>1 DEF CloseInv
      <4>4. CASE t = s
        <5>1. toPeer'[t] = Tail(toPeer[t]) /\ peer'[t] = w
          BY <4>4, <2>1, <2>3, <1>0 DEF TypeOK
        <5>2. \A i \in Closes(toPeer'[t]) : i \in Nat /\ i >= 1 /\ i + 1 \in Closes(toPeer[t])
          BY <4>4, <5>1, <2>1, <2>2, TailCloses
        <5>3. p.cmd = "CLSE" => 1 \in Closes(toPeer[t])
          BY <4>4, <2>1, <2>2, TailCloses
        <5>4. \A i, j \in Closes(toPeer'[t]) : i = j
          BY ONLY <5>2, <4>1, t \in Svcs DEF CloseInv
        <5>5. p.cmd = "CLSE" => Closes(toPeer'[t]) = {}
          BY ONLY <5>2, <5>3, <4>1, t \in Svcs DEF CloseInv
        <5>6. Closes(toPeer[t]) = {} => Closes(toPeer'[t]) = {} /\ p.cmd # "CLSE"
          BY ONLY <5>2, <5>3
        <5>7. peer'[t].shut => peer[t].shut \/ p.cmd = "CLSE"
          BY <4>4, <5>1, <2>4
        <5>8. svc' = svc
          BY <2>1
        <5>9. CloseInv(t)'
          BY ONLY <4>1, <5>4, <5>5, <5>6, <5>7, <5>8, t \in Svcs DEF CloseInv
        <5> QED
          BY <4>2, <5>9
      <4> QED
        BY <4>3, <4>4
    <3> QED
      BY <2>1, <3>1, <3>2, <1>0 DEF ServiceOK
  <2> QED
    BY <2>1, <2>5, <2>6, <2>7, SocketIdle, PartsNext
<1>3. CASE PeerAcks(s)
  <2>1. /\ peer[s].st = "open" /\ UNCHANGED <<sockVars, svc, dev, toPeer, strays>>
        /\ peer' = [peer EXCEPT ![s] = [peer[s] EXCEPT !.owes = FALSE]]
        /\ Send(s, In("OKAY", peer[s].id, FALSE))
    BY <1>3 DEF PeerAcks
  <2>2. \A v \in Peer : [v EXCEPT !.owes = FALSE] \in Peer
    BY ONLY DEF Peer
  <2>3. PeerOK'
    BY <2>1, <2>2, <1>0 DEF PeerOK, TypeOK
  <2>4. /\ peer'[s].st # "idle" /\ \A t \in Svcs \ {s} : peer'[t] = peer[t]
        /\ peer'[s].shut = peer[s].shut
    BY <2>1, <1>a DEF Peer
  <2> QED
    BY <2>1, <2>3, <2>4, <1>a, <1>b, PeerSends
<1>4. CASE PeerWrites(s)
  <2>1. /\ peer[s].st = "open" /\ UNCHANGED <<sockVars, svc, dev, toPeer, strays>>
        /\ peer[s].written < MaxWrites
        /\ peer' = [peer EXCEPT ![s] = [peer[s] EXCEPT !.waiting = TRUE, !.written = @ + 1]]
        /\ Send(s, In("WRTE", peer[s].id, FALSE))
    BY <1>4, <1>a DEF PeerWrites, Peer
  <2>2. [peer[s] EXCEPT !.waiting = TRUE, !.written = @ + 1] \in Peer
    <3>1. peer[s].written + 1 \in 0 .. MaxWrites
      BY ONLY <2>1, <1>0, BridgeAssumption DEF Peer, BridgeAssumption
    <3>2. \A n \in 0 .. MaxWrites : [peer[s] EXCEPT !.waiting = TRUE, !.written = n] \in Peer
      BY ONLY <1>0 DEF Peer
    <3> QED
      BY ONLY <3>1, <3>2
  <2>3. PeerOK'
    BY <2>1, <2>2, <1>0 DEF PeerOK, TypeOK
  <2>4. /\ peer'[s].st # "idle" /\ \A t \in Svcs \ {s} : peer'[t] = peer[t]
        /\ peer'[s].shut = peer[s].shut
    BY <2>1, <1>a DEF Peer
  <2> QED
    BY <2>1, <2>3, <2>4, <1>a, <1>b, PeerSends
<1>5. CASE PeerCloses(s)
  <2>1. /\ peer[s].st = "open" /\ UNCHANGED <<sockVars, svc, dev, toPeer, strays>>
        /\ peer' = [peer EXCEPT ![s] = [peer[s] EXCEPT !.st = "closed"]]
        /\ Send(s, In("CLSE", peer[s].id, FALSE))
    BY <1>5 DEF PeerCloses
  <2>2. \A v \in Peer : [v EXCEPT !.st = "closed"] \in Peer
    BY ONLY DEF Peer
  <2>3. PeerOK'
    BY <2>1, <2>2, <1>0 DEF PeerOK, TypeOK
  <2>4. /\ peer'[s].st # "idle" /\ \A t \in Svcs \ {s} : peer'[t] = peer[t]
        /\ peer'[s].shut = peer[s].shut
    BY <2>1, <1>a DEF Peer
  <2> QED
    BY <2>1, <2>3, <2>4, <1>a, <1>b, PeerSends
<1>6. CASE PeerStrays(s)
  <2>1. /\ peer[s].st # "idle" /\ strays < MaxStray /\ strays' = strays + 1
        /\ UNCHANGED <<sockVars, svc, dev, toPeer, peer>>
    BY <1>6 DEF PeerStrays
  <2>2. PICK c \in {"OKAY", "WRTE", "CLSE"}, i \in Ids : Send(s, In(c, i, FALSE))
    BY <1>6 DEF PeerStrays
  <2>3. PeerOK'
    <3>1. strays' \in 0 .. MaxStray
      BY <2>1, <1>0, BridgeAssumption DEF TypeOK, BridgeAssumption
    <3> QED
      BY <2>1, <3>1, <1>0 DEF PeerOK, TypeOK
  <2> QED
    BY <2>1, <2>2, <2>3, <1>b, PeerSends
<1> QED
  BY <1>1, <1>2, <1>3, <1>4, <1>5, <1>6 DEF PeerSide

(***************************************************************************)
(* The socket's own steps preserve it.                                     *)
(***************************************************************************)
LEMMA SocketStep ==
    ASSUME IInv, Accept \/ SocketFails \/ SocketEnds PROVE IInv'
<1>0. TypeOK /\ ServiceOK /\ SocketOK
  BY Parts DEF IInv
<1>1. CASE Accept
  <2>1. UNCHANGED <<svc, dev, toPeer, toBridge, peer, strays>>
    BY <1>1 DEF Accept
  <2>2. SocketOK'
    BY <1>1, <1>0 DEF Accept, SocketOK
  <2> QED
    BY <2>1, <2>2, ServicesIdle, InnerStep
<1>2. CASE SocketFails \/ SocketEnds
  <2>1. /\ EndSocket /\ UNCHANGED <<authorized, counter, toBridge, peer, strays>>
        /\ failing' \in BOOLEAN
    BY <1>2, <1>0 DEF SocketFails, SocketEnds, SocketOK
  <2>2. CASE sockEnded
    <3>1. UNCHANGED <<sockEnded, remotes, count, svc, dev, toPeer>>
      BY <2>1, <2>2 DEF EndSocket
    <3>2. SocketOK'
      BY <2>1, <3>1, <1>0 DEF SocketOK
    <3> QED
      BY <2>1, <3>1, <3>2, ServicesIdle, InnerStep
  <2>3. CASE ~sockEnded
    <3>1. /\ EndServices(InMap, svc) /\ sockEnded' = TRUE
          /\ remotes' = [i \in Ids |-> None] /\ count' = 0
      BY <2>1, <2>3 DEF EndSocket, EndAll
    <3>2. InMap \in SUBSET Svcs
      BY <1>0 DEF InMap, TypeOK
    <3>3. svc \in [Svcs -> Service]
      BY <1>0 DEF TypeOK
    <3>4. ServiceOK' /\ \A t \in Svcs : svc'[t].chain = "none" <=> svc[t].chain = "none"
      BY <2>1, <3>1, <3>2, <3>3, EndServicesKeeps DEF ServiceOK
    <3>5. SocketOK'
      <4>1. sockEnded' \in BOOLEAN /\ remotes' \in [Ids -> Svcs \cup {None}] /\ count' \in Int
        BY ONLY <3>1
      <4> QED
        BY <4>1, <2>1, <1>0 DEF SocketOK
    <3> QED
      BY <2>1, <3>4, <3>5, InnerStep
  <2> QED
    BY <2>2, <2>3
<1> QED
  BY <1>1, <1>2

\* Every step preserves IInv.
LEMMA NextInv == IInv /\ [Next]_vars => IInv'
<1> SUFFICES ASSUME IInv, [Next]_vars PROVE IInv'
  OBVIOUS
<1>1. CASE UNCHANGED vars
  BY <1>1, ServicesIdle, SocketIdle, InnerStep DEF vars, sockVars
<1>2. CASE Accept \/ SocketFails \/ SocketEnds
  BY <1>2, SocketStep
<1>3. ASSUME NEW s \in Svcs, HandlePacket(s) PROVE IInv'
  BY <1>3, PacketStep
<1>4. ASSUME NEW s \in Svcs, Resume(s) PROVE IInv'
  BY <1>4, ResumeStep
<1>5. ASSUME NEW s \in Svcs, ServerAnswers(s) PROVE IInv'
  BY <1>5, ServerStep
<1>6. ASSUME NEW s \in Svcs, DeviceSide(s) PROVE IInv'
  BY <1>6, DeviceStep
<1>7. ASSUME NEW s \in Svcs, PeerSide(s) PROVE IInv'
  BY <1>7, PeerStep
<1> QED
  BY <1>1, <1>2, <1>3, <1>4, <1>5, <1>6, <1>7 DEF Next

\* IInv is an invariant.
LEMMA Invariance == Spec => []IInv
<1> QED
  BY InitInv, NextInv, PTL DEF Spec

(***************************************************************************)
(* The theorems.                                                           *)
(***************************************************************************)
\* Every variable of the bridge keeps its type.
THEOREM TypeCorrect == Spec => []TypeOK
<1>1. IInv => TypeOK
  BY DEF IInv
<1> QED
  BY <1>1, Invariance, PTL

\* Service.end and LateTransportError: no open transport is left behind an
\* ended service, whatever the remote sends and however often ids wrap.
THEOREM TransportsReleased == Spec => []NoTransportLeft
<1>1. IInv => NoTransportLeft
  BY DEF IInv, TransportInv, NoTransportLeft
<1> QED
  BY <1>1, Invariance, PTL

\* Service.end: a stream is closed to the remote at most once.
THEOREM ClosedOnce == Spec => []CloseOnce
<1>1. IInv => CloseOnce
  BY DEF IInv, CloseInv, CloseOnce
<1> QED
  BY <1>1, Invariance, PTL

\* _readChunk and 'end': a device side that hangs up has been drained.
THEOREM DrainedAtEof == Spec => []EofDrained
<1>1. IInv => EofDrained
  BY DEF IInv, StreamInv, EofDrained
<1> QED
  BY <1>1, Invariance, PTL

(***************************************************************************)
(* The service map, as long as ids do not wrap.                            *)
(***************************************************************************)
NoWrap == MaxOpens < IdMax

\* The opens whose packet has been read; each of them took an id.
Served == {s \in Svcs : peer[s].st # "idle" /\ ~InFlight(toBridge[s], "OPEN")}
InUse == {i \in Ids : remotes[i] # None}

\* IdsCounted: no more ids were taken than opens read.  MapRight: what the map
\* holds is there under its own id, and nothing is after Socket.end.
IdsCounted == counter <= IdMin + Cardinality(Served)
IdsDistinct ==
    \A s, t \in Svcs : svc[s].localId # None /\ svc[s].localId = svc[t].localId => s = t
MapRight == \A i \in InUse : svc[remotes[i]].localId = i /\ ~sockEnded

\* A service that is handled has an id that was given out; it stays in the map
\* until it ends, and its cleanup is not due before; Socket.end ends it.
LifeInv(s) ==
    /\ svc[s].localId <= counter
    /\ svc[s].chain = "none" <=> svc[s].localId = None
    /\ svc[s].chain = "none" <=> svc[s].cleanup = "none"
    /\ svc[s].chain # "rejected"
    /\ svc[s].cleanup \in {"due", "done"} => svc[s].ended
    /\ svc[s].cleanup = "waiting" /\ ~sockEnded => remotes[svc[s].localId] = s
    /\ sockEnded /\ svc[s].chain # "none" => svc[s].ended

MapInv ==
    /\ IdsCounted /\ IdsDistinct /\ MapRight
    /\ count = Cardinality(InUse)
    /\ \A s \in Svcs : LifeInv(s)

\* Sets of services are finite, and a proper subset is smaller.
LEMMA SvcSets ==
    ASSUME NEW S \in SUBSET Svcs
    PROVE  /\ IsFiniteSet(S) /\ Cardinality(S) \in Nat /\ Cardinality(S) <= MaxOpens
           /\ \A s \in Svcs \ S : Cardinality(S) < MaxOpens
           /\ \A T \in SUBSET S : Cardinality(T) <= Cardinality(S)
           /\ \A T \in SUBSET S : T # S => Cardinality(T) < Cardinality(S)
<1>1. IsFiniteSet(Svcs) /\ Cardinality(Svcs) = MaxOpens
  BY FS_Interval, BridgeAssumption DEF Svcs, BridgeAssumption
<1>2. IsFiniteSet(S) /\ Cardinality(S) <= MaxOpens
        /\ (Cardinality(S) = MaxOpens => S = Svcs)
  BY <1>1, FS_Subset
<1>3. Cardinality(S) \in Nat
  BY <1>2, FS_CardinalityType
<1>4. \A T \in SUBSET S : /\ IsFiniteSet(T) /\ Cardinality(T) <= Cardinality(S)
                          /\ Cardinality(S) = Cardinality(T) => S = T
  BY <1>2, FS_Subset
<1>5. \A T \in SUBSET S : Cardinality(T) \in Nat
  BY <1>4, FS_CardinalityType
<1> QED
  BY <1>2, <1>3, <1>4, <1>5, BridgeAssumption DEF BridgeAssumption

\* A step that takes no id and leaves the map alone, and whose services go on.
LifeStep(s) ==
    /\ svc'[s].localId = svc[s].localId
    /\ svc'[s].chain = "none" <=> svc[s].chain = "none"
    /\ svc'[s].chain # "rejected"
    /\ svc[s].ended => svc'[s].ended
    /\ \/ svc'[s].cleanup = svc[s].cleanup
       \/ svc[s].cleanup = "waiting" /\ svc'[s].cleanup = "due" /\ svc'[s].ended

\* A step that leaves the map alone keeps MapInv.
LEMMA MapKept ==
    ASSUME IInv, MapInv, UNCHANGED <<sockEnded, counter, remotes, count>>,
           Served \subseteq Served', \A s \in Svcs : LifeStep(s)
    PROVE  MapInv'
<1>1. IdsCounted'
  <2>1. Served \in SUBSET Svcs /\ Served' \in SUBSET Svcs
    BY DEF Served
  <2>2. /\ Cardinality(Served) \in Nat /\ Cardinality(Served') \in Nat
        /\ Cardinality(Served) <= Cardinality(Served')
    BY <2>1, SvcSets
  <2>3. counter \in Nat
    BY BridgeAssumption DEF IInv, TypeOK, Ids, IdMin, BridgeAssumption
  <2>4. counter <= IdMin + Cardinality(Served)
    BY DEF MapInv, IdsCounted
  <2>5. counter <= IdMin + Cardinality(Served')
    BY <2>2, <2>3, <2>4 DEF IdMin
  <2> QED
    BY <2>5 DEF IdsCounted
<1>2. IdsDistinct'
  BY DEF MapInv, IdsDistinct, LifeStep
<1>3. MapRight' /\ InUse' = InUse
  BY DEF MapInv, MapRight, InUse, LifeStep, IInv, TypeOK, None
<1>4. ASSUME NEW s \in Svcs PROVE LifeInv(s)'
  BY DEF MapInv, LifeInv, LifeStep
<1> QED
  BY <1>1, <1>2, <1>3, <1>4 DEF MapInv

(***************************************************************************)
(* What the two operations shared by the handlers do to a service.         *)
(***************************************************************************)
LEMMA EndEffect ==
    ASSUME TypeOK, NEW S \in SUBSET Svcs, NEW v \in [Svcs -> Service], EndServices(S, v),
           NEW t \in Svcs
    PROVE  /\ svc'[t].localId = v[t].localId /\ svc'[t].chain = v[t].chain
           /\ svc'[t].opened = v[t].opened /\ svc'[t].needAck = v[t].needAck
           /\ svc'[t].raising = v[t].raising
           /\ svc'[t].ended <=> (v[t].ended \/ t \in S)
           /\ svc'[t].hasTr <=> (v[t].hasTr /\ (t \in S => v[t].ended))
           /\ svc'[t].cleanup = IF t \in S /\ ~v[t].ended /\ v[t].cleanup = "waiting"
                                THEN "due" ELSE v[t].cleanup
           /\ toPeer'[t] = IF t \in S /\ ~v[t].ended /\ ~sockEnded
                           THEN Append(toPeer[t], Out("CLSE", CloseId(v[t]))) ELSE toPeer[t]
           /\ dev'[t].sent = dev[t].sent /\ dev'[t].read = dev[t].read
           /\ dev'[t].accepted = dev[t].accepted
<1>1. v[t] \in Service
  OBVIOUS
<1>2. svc'[t] = IF t \in S THEN Ended(v[t]) ELSE v[t]
  BY DEF EndServices
<1>a. v[t].ended \in BOOLEAN /\ v[t].hasTr \in BOOLEAN
  BY <1>1 DEF Service
<1>5. /\ dev'[t].sent = dev[t].sent /\ dev'[t].read = dev[t].read
      /\ dev'[t].accepted = dev[t].accepted
  <2>1. dev[t] \in Transport
    BY DEF TypeOK
  <2>2. dev'[t] \in {dev[t], [dev[t] EXCEPT !.conn = "ended"]}
    BY DEF EndServices
  <2> QED
    BY <2>1, <2>2 DEF Transport
<1>6. toPeer'[t] = IF t \in S /\ ~v[t].ended /\ ~sockEnded
                  THEN Append(toPeer[t], Out("CLSE", CloseId(v[t]))) ELSE toPeer[t]
  BY DEF EndServices, Announces
<1>3. CASE t \in S /\ ~v[t].ended
  <2>1. svc'[t] = [v[t] EXCEPT !.ended = TRUE, !.hasTr = FALSE,
                      !.cleanup = IF @ = "waiting" THEN "due" ELSE @]
    BY <1>2, <1>3 DEF Ended
  <2>2. /\ svc'[t].localId = v[t].localId /\ svc'[t].chain = v[t].chain
        /\ svc'[t].opened = v[t].opened /\ svc'[t].needAck = v[t].needAck
        /\ svc'[t].raising = v[t].raising /\ svc'[t].ended /\ ~svc'[t].hasTr
        /\ svc'[t].cleanup = IF v[t].cleanup = "waiting" THEN "due" ELSE v[t].cleanup
    BY ONLY <1>1, <2>1 DEF Service
  <2> QED
    BY <1>a, <1>3, <2>2, <1>5, <1>6
<1>4. CASE ~(t \in S /\ ~v[t].ended)
  <2>1. svc'[t] = v[t]
    BY <1>2, <1>4 DEF Ended
  <2> QED
    BY <1>a, <1>4, <2>1, <1>5, <1>6
<1> QED
  BY <1>3, <1>4

\* The bytes lo to hi were written, or no byte was.
Pushes(s, id, lo, hi) ==
    /\ hi \in lo .. lo + MaxPayload - 1 /\ hi <= dev'[s].sent /\ dev'[s].read = hi
    /\ toPeer'[s] = IF sockEnded THEN toPeer[s] ELSE Append(toPeer[s], Data(id, lo, hi))

\* What _tryPush does: at most one A_WRTE, with the bytes it read.
LEMMA PushEffect ==
    ASSUME TypeOK, NEW s \in Svcs, NEW v \in Service, NEW d \in Transport, d.read <= d.sent,
           TryPush(s, v, d)
    PROVE  /\ \A t \in Svcs \ {s} : svc'[t] = svc[t] /\ dev'[t] = dev[t] /\ toPeer'[t] = toPeer[t]
           /\ svc'[s].localId = v.localId /\ svc'[s].chain = v.chain
           /\ svc'[s].opened = v.opened /\ svc'[s].raising = v.raising
           /\ svc'[s].ended = v.ended /\ svc'[s].hasTr = v.hasTr
           /\ svc'[s].cleanup = v.cleanup
           /\ dev'[s].sent = d.sent /\ dev'[s].accepted = d.accepted
           /\ \/ /\ svc'[s].needAck = v.needAck /\ dev'[s].read = d.read
                 /\ toPeer'[s] = toPeer[s]
              \/ /\ ~v.ended /\ ~v.needAck /\ svc'[s].needAck
                 /\ Pushes(s, v.localId, d.read + 1, d.read + Chunk(d))
<1>1. svc \in [Svcs -> Service] /\ dev \in [Svcs -> Transport]
        /\ toPeer \in [Svcs -> Seq(OutPacket)]
  BY DEF TypeOK
<1>2. \A t \in Svcs \ {s} : svc'[t] = svc[t] /\ dev'[t] = dev[t] /\ toPeer'[t] = toPeer[t]
  BY <1>1 DEF TryPush, Write
<1>3. CASE ~MayPush(v)
  <2>1. svc'[s] = v /\ dev'[s] = d /\ toPeer' = toPeer
    BY <1>1, <1>3 DEF TryPush
  <2> QED
    BY <1>2, <2>1
<1>4. CASE MayPush(v)
  <2>1. /\ svc'[s] = [v EXCEPT !.needAck = @ \/ Chunk(d) > 0]
        /\ dev'[s] = [d EXCEPT !.read = ReadUpTo(d), !.ending = @ \/ ReadsEof(d)]
        /\ toPeer' = IF Chunk(d) = 0 THEN toPeer
                     ELSE Write(s, Data(v.localId, d.read + 1, d.read + Chunk(d)))
    BY <1>1, <1>4 DEF TryPush
  <2>2. /\ svc'[s].localId = v.localId /\ svc'[s].chain = v.chain
        /\ svc'[s].opened = v.opened /\ svc'[s].raising = v.raising
        /\ svc'[s].ended = v.ended /\ svc'[s].hasTr = v.hasTr
        /\ svc'[s].cleanup = v.cleanup /\ svc'[s].needAck = (v.needAck \/ Chunk(d) > 0)
    BY <2>1 DEF Service
  <2>3. /\ dev'[s].sent = d.sent /\ dev'[s].accepted = d.accepted
        /\ dev'[s].read = d.read + Chunk(d)
    BY <2>1 DEF Transport, ReadUpTo
  <2>4. Chunk(d) \in Nat /\ Chunk(d) <= MaxPayload /\ d.read + Chunk(d) <= d.sent /\ d.read \in Nat
    BY ChunkBounds, BridgeAssumption DEF ReadUpTo, Transport, BridgeAssumption
  <2>5. ~v.needAck /\ ~v.ended
    BY <1>4 DEF MayPush
  <2>6. CASE Chunk(d) = 0
    <3>1. svc'[s].needAck = v.needAck
      BY <2>2, <2>6 DEF Service
    <3>2. dev'[s].read = d.read
      BY <2>3, <2>4, <2>6
    <3>3. toPeer'[s] = toPeer[s]
      BY <2>1, <2>6
    <3> QED
      BY <1>2, <2>2, <2>3, <3>1, <3>2, <3>3
  <2>7. CASE Chunk(d) > 0
    <3>1. toPeer'[s] = IF sockEnded THEN toPeer[s]
                      ELSE Append(toPeer[s], Data(v.localId, d.read + 1, d.read + Chunk(d)))
      BY <1>1, <2>1, <2>4, <2>7 DEF Write
    <3>2. d.read + Chunk(d) \in d.read + 1 .. d.read + 1 + MaxPayload - 1
      BY <2>4, <2>7, BridgeAssumption DEF BridgeAssumption
    <3>3. Pushes(s, v.localId, d.read + 1, d.read + Chunk(d))
      BY <3>1, <3>2, <2>3, <2>4 DEF Pushes
    <3> QED
      BY <1>2, <2>2, <2>3, <2>5, <2>7, <3>3
  <2> QED
    BY <2>4, <2>6, <2>7
<1> QED
  BY <1>3, <1>4

\* A new Socket has an empty map.
LEMMA InitMap == Init => MapInv
<1> SUFFICES ASSUME Init PROVE MapInv
  OBVIOUS
<1>1. \A i \in Ids : remotes[i] = None
  BY DEF Init
<1>2. InUse = {}
  BY <1>1 DEF InUse
<1>3. count = Cardinality(InUse) /\ MapRight
  BY <1>2, FS_EmptySet DEF Init, MapRight
<1>4. Served \in SUBSET Svcs
  BY DEF Served
<1>5. IdsCounted
  BY <1>4, SvcSets DEF Init, IdsCounted, IdMin
<1>6. IdsDistinct
  BY DEF Init, IdsDistinct
<1>7. ASSUME NEW s \in Svcs PROVE LifeInv(s)
  BY DEF Init, LifeInv, None, IdMin
<1> QED
  BY <1>3, <1>5, <1>6, <1>7 DEF MapInv

(***************************************************************************)
(* The opens that are read.                                                *)
(***************************************************************************)
LEMMA ServedConsume ==
    ASSUME IInv, NEW s \in Svcs, Consume(s), toBridge[s] # <<>>, peer' = peer
    PROVE  Served \subseteq Served'
<1>1. toBridge \in [Svcs -> Seq(InPacket)]
  BY DEF IInv, TypeOK
<1>2. ASSUME NEW t \in Served PROVE t \in Served'
  <2>1. t \in Svcs /\ peer[t].st # "idle" /\ ~InFlight(toBridge[t], "OPEN")
    BY DEF Served
  <2>2. \A i \in DOMAIN toBridge'[t] : \E j \in DOMAIN toBridge[t] : toBridge'[t][i] = toBridge[t][j]
    <3>1. CASE t = s
      <4>1. toBridge'[t] = Tail(toBridge[t]) /\ toBridge[t] \in Seq(InPacket) /\ toBridge[t] # <<>>
        BY <1>1, <2>1, <3>1 DEF Consume
      <4> QED
        BY ONLY <4>1
    <3>2. CASE t # s
      BY <1>1, <2>1, <3>2 DEF Consume
    <3> QED
      BY <3>1, <3>2
  <2>3. ~InFlight(toBridge'[t], "OPEN")
    BY <2>1, <2>2 DEF InFlight
  <2> QED
    BY <2>1, <2>3 DEF Served
<1> QED
  BY <1>2

\* Reading an OPEN adds its service.
LEMMA ServedOpen ==
    ASSUME IInv, NEW s \in Svcs, Consume(s), Arrives(s, "OPEN"), peer' = peer
    PROVE  /\ s \notin Served /\ s \in Served' /\ Served \subseteq Served'
           /\ Cardinality(Served) < Cardinality(Served') /\ Cardinality(Served) < MaxOpens
           /\ Cardinality(Served) \in Nat /\ Cardinality(Served') \in Nat
<1>1. toBridge \in [Svcs -> Seq(InPacket)] /\ toBridge[s] # <<>> /\ Head(toBridge[s]).cmd = "OPEN"
  BY DEF IInv, TypeOK, Arrives
<1>2. toBridge[s] \in Seq(InPacket) /\ 1 \in DOMAIN toBridge[s] /\ toBridge[s][1].cmd = "OPEN"
  BY <1>1
<1>3. s \notin Served
  BY <1>2 DEF Served, InFlight
<1>4. OpenInv(s) /\ peer[s].st # "idle"
  BY <1>2 DEF IInv, OpenInv
<1>5. \A i \in DOMAIN toBridge[s] : toBridge[s][i].cmd = "OPEN" => i = 1
  BY <1>4 DEF OpenInv
<1>6. toBridge'[s] = Tail(toBridge[s])
  BY <1>1 DEF Consume
<1>7. \A i \in DOMAIN toBridge'[s] : /\ i + 1 \in DOMAIN toBridge[s] /\ i + 1 # 1
                                    /\ toBridge'[s][i] = toBridge[s][i + 1]
  BY ONLY <1>1, <1>2, <1>6
<1>8. ~InFlight(toBridge'[s], "OPEN")
  BY <1>5, <1>7 DEF InFlight
<1>9. s \in Served'
  BY <1>4, <1>8 DEF Served
<1>10. Served \subseteq Served'
  BY <1>1, ServedConsume
<1>11. Served \in SUBSET Svcs /\ Served' \in SUBSET Svcs
  BY DEF Served
<1> QED
  BY <1>3, <1>9, <1>10, <1>11, SvcSets

\* Nor does a packet the remote sends count as an open read.
LEMMA ServedSend ==
    ASSUME IInv, NEW s \in Svcs, NEW p \in InPacket, p.cmd # "OPEN" \/ peer[s].st = "idle",
           Send(s, p), \A t \in Svcs : peer[t].st # "idle" => peer'[t].st # "idle"
    PROVE  Served \subseteq Served'
<1>1. toBridge \in [Svcs -> Seq(InPacket)]
  BY DEF IInv, TypeOK
<1>2. ASSUME NEW t \in Served PROVE t \in Served'
  <2>1. t \in Svcs /\ peer[t].st # "idle" /\ ~InFlight(toBridge[t], "OPEN")
    BY DEF Served
  <2>2. \A i \in DOMAIN toBridge'[t] :
           \/ \E j \in DOMAIN toBridge[t] : toBridge'[t][i] = toBridge[t][j]
           \/ t = s /\ toBridge'[t][i] = p
    <3>1. CASE t = s
      <4>1. toBridge'[t] = Append(toBridge[t], p) /\ toBridge[t] \in Seq(InPacket)
        BY <1>1, <2>1, <3>1 DEF Send
      <4> QED
        BY ONLY <4>1, <3>1
    <3>2. CASE t # s
      BY <1>1, <2>1, <3>2 DEF Send
    <3> QED
      BY <3>1, <3>2
  <2>3. ~InFlight(toBridge'[t], "OPEN")
    BY <2>1, <2>2 DEF InFlight
  <2> QED
    BY <2>1, <2>3 DEF Served
<1> QED
  BY <1>2

(***************************************************************************)
(* The steps.                                                              *)
(***************************************************************************)
\* Every open takes the next id, which is not in use.
LEMMA FreshId ==
    ASSUME NoWrap, IInv, MapInv, NEW s \in Svcs, Consume(s), Arrives(s, "OPEN"), peer' = peer,
           counter' = NextId
    PROVE  /\ NextId = counter + 1 /\ NextId \in Ids /\ remotes[NextId] = None /\ IdsCounted'
           /\ \A t \in Svcs : svc[t].localId < NextId
           /\ svc[s].chain = "none"
<1>1. counter \in Nat /\ counter <= IdMin + Cardinality(Served)
  BY BridgeAssumption DEF IInv, TypeOK, Ids, IdMin, BridgeAssumption, MapInv, IdsCounted
<1>2. /\ Cardinality(Served) < Cardinality(Served') /\ Cardinality(Served) < MaxOpens
      /\ Cardinality(Served) \in Nat /\ Cardinality(Served') \in Nat
  BY ServedOpen
<1>3. counter < IdMax
  BY <1>1, <1>2, BridgeAssumption DEF NoWrap, IdMin, BridgeAssumption
<1>4. NextId = counter + 1
  BY <1>3 DEF NextId
<1>5. NextId \in Ids
  BY <1>4, NextIdType DEF IInv, TypeOK
<1>6. \A t \in Svcs : svc[t].localId \in Nat /\ svc[t].localId < NextId
  <2>1. \A t \in Svcs : svc[t].localId \in Nat /\ svc[t].localId <= counter
    BY BridgeAssumption DEF MapInv, LifeInv, IInv, TypeOK, Service, Ids, IdMin, None, BridgeAssumption
  <2> QED
    BY <1>1, <1>4, <2>1
<1>7. remotes[NextId] = None
  <2> SUFFICES ASSUME remotes[NextId] # None PROVE FALSE
    OBVIOUS
  <2>1. remotes[NextId] \in Svcs /\ NextId \in InUse
    BY <1>5 DEF InUse, IInv, TypeOK
  <2>2. svc[remotes[NextId]].localId = NextId
    BY <2>1 DEF MapInv, MapRight
  <2>3. NextId \in Nat
    BY <1>1, <1>4
  <2> QED
    BY <2>1, <2>2, <2>3, <1>6
<1>8. IdsCounted'
  <2>1. counter' = counter + 1
    BY <1>4
  <2> QED
    BY <1>1, <1>2, <2>1 DEF IdsCounted, IdMin
<1>9. svc[s].chain = "none"
  <2>1. toBridge[s] \in Seq(InPacket) /\ toBridge[s] # <<>> /\ Head(toBridge[s]).cmd = "OPEN"
    BY DEF IInv, TypeOK, Arrives
  <2>2. 1 \in DOMAIN toBridge[s] /\ toBridge[s][1].cmd = "OPEN"
    BY <2>1
  <2> QED
    BY <2>2 DEF IInv, OpenInv
<1> QED
  BY <1>4, <1>5, <1>6, <1>7, <1>8, <1>9

\* An A_OPEN takes the next id, which no service has.
LEMMA MapOpen ==
    ASSUME NoWrap, IInv, IInv', MapInv, NEW s \in Svcs,
           OpenEmpty(s) \/ OpenService(s) \/ OpenCollides(s)
    PROVE  MapInv'
<1>1. Consume(s) /\ Arrives(s, "OPEN") /\ peer' = peer /\ counter' = NextId /\ sockEnded' = sockEnded
  BY DEF OpenEmpty, OpenService, OpenCollides
<1>2. /\ NextId = counter + 1 /\ NextId \in Ids /\ remotes[NextId] = None /\ IdsCounted'
      /\ \A t \in Svcs : svc[t].localId < NextId
      /\ svc[s].chain = "none"
  BY <1>1, FreshId
<1>3. \A t \in Svcs : svc[t].localId \in Nat
  BY BridgeAssumption DEF IInv, TypeOK, Service, Ids, IdMin, None, BridgeAssumption
<1>4. counter \in Nat /\ counter' = counter + 1
  BY <1>1, <1>2, BridgeAssumption DEF IInv, TypeOK, Ids, IdMin, BridgeAssumption
<1>5. CASE OpenEmpty(s)
  <2>1. UNCHANGED <<remotes, count, svc>>
    BY <1>5 DEF OpenEmpty
  <2>2. IdsDistinct' /\ MapRight' /\ InUse' = InUse
    BY <1>1, <2>1 DEF MapInv, IdsDistinct, MapRight, InUse
  <2>3. ASSUME NEW t \in Svcs PROVE LifeInv(t)'
    BY <1>1, <1>3, <1>4, <2>1 DEF MapInv, LifeInv
  <2> QED
    BY <1>2, <2>1, <2>2, <2>3 DEF MapInv
<1>6. CASE OpenService(s)
  <2>1. /\ ~sockEnded /\ count' = count + 1
        /\ remotes' = [remotes EXCEPT ![NextId] = s]
        /\ svc' = [svc EXCEPT ![s].localId = NextId, ![s].chain = "transport",
                              ![s].cleanup = "waiting"]
    BY <1>6 DEF OpenService
  <2>2. svc \in [Svcs -> Service] /\ remotes \in [Ids -> Svcs \cup {None}]
    BY DEF IInv, TypeOK
  <2>3. /\ \A t \in Svcs \ {s} : svc'[t] = svc[t]
        /\ svc'[s].localId = NextId /\ svc'[s].chain = "transport" /\ svc'[s].cleanup = "waiting"
    BY <2>1, <2>2 DEF Service
  <2>4. remotes'[NextId] = s /\ \A i \in Ids \ {NextId} : remotes'[i] = remotes[i]
    BY <1>2, <2>1, <2>2
  <2>5. s # None
    BY DEF Svcs, None
  <2>6. InUse' = InUse \cup {NextId} /\ NextId \notin InUse
    BY <1>2, <2>4, <2>5 DEF InUse
  <2>7. count' = Cardinality(InUse')
    <3>1. IsFiniteSet(Ids)
      BY FS_Interval, BridgeAssumption DEF Ids, IdMin, BridgeAssumption
    <3>2. IsFiniteSet(InUse)
      BY <3>1, FS_Subset DEF InUse
    <3> QED
      BY <2>1, <2>6, <3>2, FS_AddElement DEF MapInv
  <2>8. IdsDistinct'
    BY <1>2, <1>3, <1>4, <2>3 DEF MapInv, IdsDistinct
  <2>9. MapRight'
    <3> SUFFICES ASSUME NEW i \in InUse' PROVE svc'[remotes'[i]].localId = i /\ ~sockEnded'
      BY DEF MapRight
    <3>1. CASE i = NextId
      BY <3>1, <2>1, <2>3, <2>4, <1>1
    <3>2. CASE i # NextId
      <4>1. i \in InUse /\ remotes'[i] = remotes[i]
        BY <3>2, <2>4, <2>6 DEF InUse
      <4>2. svc[remotes[i]].localId = i /\ remotes[i] \in Svcs
        BY <4>1, <2>2 DEF MapInv, MapRight, InUse
      <4>3. remotes[i] # s
        <5>1. LifeInv(s) /\ i \in Ids
          BY <4>1 DEF MapInv, InUse
        <5>2. svc[s].localId = None /\ i # None
          BY <5>1, <1>2 DEF LifeInv, Ids, None, IdMin
        <5> QED
          BY <4>2, <5>2
      <4> QED
        BY <4>1, <4>2, <4>3, <2>3, <2>1, <1>1, ZenonT(30)
    <3> QED
      BY <3>1, <3>2
  <2>10. ASSUME NEW t \in Svcs PROVE LifeInv(t)'
    <3>1. CASE t = s
      <4>1. NextId <= counter' /\ NextId # None
        BY <1>1, <1>2, <1>4 DEF None
      <4> QED
        BY <3>1, <4>1, <2>1, <2>3, <2>4, <1>1 DEF LifeInv
    <3>2. CASE t # s
      <4>1. svc[t].localId # NextId /\ svc[t].localId <= counter'
        BY <1>2, <1>3, <1>4 DEF MapInv, LifeInv
      <4>2. svc[t].cleanup = "waiting" => svc[t].localId \in Ids
        BY <2>2 DEF MapInv, LifeInv, Service
      <4>3. LifeInv(t)
        BY DEF MapInv
      <4> QED
        <5>1. svc'[t] = svc[t] /\ sockEnded' = sockEnded
          BY <3>2, <2>3, <1>1
        <5>2. svc[t].cleanup = "waiting" /\ ~sockEnded => remotes'[svc[t].localId] = t
          BY <4>1, <4>2, <4>3, <2>4 DEF LifeInv
        <5> QED
          BY <4>1, <4>3, <5>1, <5>2 DEF LifeInv
    <3> QED
      BY <3>1, <3>2
  <2> QED
    BY <1>2, <2>7, <2>8, <2>9, <2>10 DEF MapInv
<1>7. CASE OpenCollides(s)
  BY <1>2, <1>7 DEF OpenCollides
<1> QED
  BY <1>5, <1>6, <1>7

\* MapInv and the packet handlers.
LEMMA MapPacket ==
    ASSUME NoWrap, IInv, IInv', MapInv, NEW s \in Svcs, HandlePacket(s)
    PROVE  MapInv'
<1>1. CASE OpenEmpty(s) \/ OpenService(s) \/ OpenCollides(s)
  BY <1>1, MapOpen
<1>2. ASSUME Consume(s), toBridge[s] # <<>>, peer' = peer, UNCHANGED <<sockEnded, counter, remotes, count>>,
             \A t \in Svcs : LifeStep(t)
      PROVE  MapInv'
  BY <1>2, ServedConsume, MapKept
<1>a. /\ svc \in [Svcs -> Service] /\ dev \in [Svcs -> Transport] /\ TypeOK
      /\ \A t \in Svcs : svc[t].chain # "rejected"
  BY DEF IInv, TypeOK, MapInv, LifeInv
<1>b. \A t \in Svcs : svc'[t] = svc[t] => LifeStep(t)
  BY <1>a DEF LifeStep
<1>3. CASE Discard(s) \/ Unauthorized(s) \/ Ignore(s)
  <2>1. svc' = svc
    BY <1>3 DEF Discard, Unauthorized, Ignore
  <2>2. \A t \in Svcs : LifeStep(t)
    BY <1>b, <2>1
  <2> QED
    BY <1>2, <1>3, <2>2 DEF Discard, Unauthorized, Ignore, Forwards, Arrives, sockVars
<1>4. CASE Premature(s)
  <2>1. svc' = [svc EXCEPT ![Target(s)].raising = TRUE] /\ Live(Target(s))
    BY <1>4 DEF Premature
  <2>2. \A t \in Svcs : LifeStep(t)
    BY <1>a, <2>1 DEF LifeStep, Service
  <2> QED
    BY <1>2, <1>4, <2>2 DEF Premature, Forwards, Arrives, sockVars
<1>5. CASE HandleOkay(s)
  <2> PICK u : u = Target(s)
    OBVIOUS
  <2>1. u \in Svcs /\ TryPush(u, [svc[u] EXCEPT !.needAck = FALSE], dev[u])
    BY <1>5, TargetType DEF HandleOkay, Usable
  <2>2. [svc[u] EXCEPT !.needAck = FALSE] \in Service /\ dev[u] \in Transport /\ dev[u].read <= dev[u].sent
    BY <1>a, <2>1, ZenonT(30) DEF Service, IInv, StreamInv
  <2>3. \A t \in Svcs \ {u} : svc'[t] = svc[t]
    BY <1>a, <2>1, <2>2, PushEffect
  <2>h. PICK v : v = [svc[u] EXCEPT !.needAck = FALSE]
    OBVIOUS
  <2>4. /\ v.localId = svc[u].localId /\ v.chain = svc[u].chain /\ v.ended = svc[u].ended
        /\ v.cleanup = svc[u].cleanup
    BY <2>h, <1>a, <2>1 DEF Service
  <2>5. /\ svc'[u].localId = v.localId /\ svc'[u].chain = v.chain /\ svc'[u].ended = v.ended
        /\ svc'[u].cleanup = v.cleanup
    <3>1. u \in Svcs /\ v \in Service /\ TryPush(u, v, dev[u])
      BY <2>h, <1>a, <2>1, <2>2
    <3> QED
      BY <1>a, <2>2, <3>1, PushEffect
  <2>6. LifeStep(u)
    BY <1>a, <2>1, <2>4, <2>5 DEF LifeStep
  <2>7. \A t \in Svcs : LifeStep(t)
    BY <2>3, <2>6, <1>b
  <2> QED
    BY <1>2, <1>5, <2>7 DEF HandleOkay, Forwards, Arrives, sockVars
<1>6. CASE HandleWrite(s)
  <2>1. \A t \in Svcs : LifeStep(t)
    BY <1>6, <1>b DEF HandleWrite
  <2> QED
    BY <1>2, <1>6, <2>1 DEF HandleWrite, Forwards, Arrives, sockVars
<1>7. CASE HandleClose(s)
  <2> PICK u : u = Target(s)
    OBVIOUS
  <2>1. u \in Svcs /\ EndServices({u}, svc)
    BY <1>7, TargetType DEF HandleClose, Usable
  <2>2. ASSUME NEW t \in Svcs PROVE LifeStep(t)
    <3>h. PICK S : S = {u}
      OBVIOUS
    <3>1. S \in SUBSET Svcs /\ EndServices(S, svc)
      BY <2>1, <3>h
    <3>2. /\ svc'[t].localId = svc[t].localId /\ svc'[t].chain = svc[t].chain
          /\ svc'[t].ended <=> (svc[t].ended \/ t \in S)
          /\ svc'[t].cleanup = IF t \in S /\ ~svc[t].ended /\ svc[t].cleanup = "waiting"
                                THEN "due" ELSE svc[t].cleanup
      BY <1>a, <3>1, EndEffect
    <3> QED
      BY <1>a, <3>2 DEF LifeStep
  <2> QED
    BY <1>2, <1>7, <2>2 DEF HandleClose, Forwards, Arrives, sockVars
<1> QED
  BY <1>1, <1>3, <1>4, <1>5, <1>6, <1>7 DEF HandlePacket

\* A service that Service.end reaches goes on as LifeStep allows.
LEMMA LifeEnds ==
    ASSUME TypeOK, NEW S \in SUBSET Svcs, NEW v \in [Svcs -> Service], EndServices(S, v),
           \A t \in Svcs : /\ v[t].localId = svc[t].localId /\ v[t].chain # "rejected"
                           /\ v[t].chain = "none" <=> svc[t].chain = "none"
                           /\ v[t].ended = svc[t].ended
                           /\ \/ v[t].cleanup = svc[t].cleanup
                              \/ svc[t].cleanup = "waiting" /\ v[t].cleanup = "due" /\ t \in S
    PROVE  \A t \in Svcs : LifeStep(t)
<1> SUFFICES ASSUME NEW t \in Svcs PROVE LifeStep(t)
  OBVIOUS
<1>1. /\ svc'[t].localId = v[t].localId /\ svc'[t].chain = v[t].chain
      /\ svc'[t].ended <=> (v[t].ended \/ t \in S)
      /\ svc'[t].cleanup = IF t \in S /\ ~v[t].ended /\ v[t].cleanup = "waiting"
                            THEN "due" ELSE v[t].cleanup
  BY EndEffect
<1> QED
  BY <1>1 DEF LifeStep

\* A service leaves the map: the id its open was given is free again.
LEMMA MapCleanup ==
    ASSUME IInv, MapInv, NEW s \in Svcs, Cleanup(s)
    PROVE  MapInv'
<1>h. PICK id : id = svc[s].localId
  OBVIOUS
<1>1. /\ svc[s].cleanup = "due" /\ remotes' = [remotes EXCEPT ![id] = None]
      /\ count' = IF remotes[id] # None THEN count - 1 ELSE count
      /\ EndServices({s}, [svc EXCEPT ![s].cleanup = "done"])
      /\ UNCHANGED <<sockEnded, counter, toBridge, peer>>
  BY <1>h DEF Cleanup, CountAfterRemove
<1>2. TypeOK /\ svc \in [Svcs -> Service] /\ remotes \in [Ids -> Svcs \cup {None}]
  BY DEF IInv, TypeOK
<1>3. LifeInv(s)
  BY DEF MapInv
<1>4. id \in Ids /\ svc[s].ended /\ id # None
  BY <1>1, <1>2, <1>3, <1>h DEF LifeInv, Service, Ids, None, IdMin
<1>5. PICK v : v = [svc EXCEPT ![s].cleanup = "done"]
  OBVIOUS
<1>6. /\ v \in [Svcs -> Service] /\ \A t \in Svcs \ {s} : v[t] = svc[t]
      /\ v[s].localId = id /\ v[s].chain = svc[s].chain /\ v[s].ended = svc[s].ended
      /\ v[s].cleanup = "done"
  BY <1>5, <1>2, <1>h DEF Service
<1>7. ASSUME NEW t \in Svcs
      PROVE  /\ svc'[t].localId = svc[t].localId /\ svc'[t].chain = svc[t].chain
             /\ svc'[t].ended <=> svc[t].ended
             /\ t # s => svc'[t].cleanup = svc[t].cleanup
             /\ t = s => svc'[t].cleanup = "done"
  <2>h. PICK S : S = {s}
    OBVIOUS
  <2>1. S \in SUBSET Svcs /\ EndServices(S, v)
    BY <1>1, <1>5, <2>h
  <2>2. /\ svc'[t].localId = v[t].localId /\ svc'[t].chain = v[t].chain
        /\ svc'[t].ended <=> (v[t].ended \/ t \in S)
        /\ svc'[t].cleanup = IF t \in S /\ ~v[t].ended /\ v[t].cleanup = "waiting"
                              THEN "due" ELSE v[t].cleanup
    BY <1>2, <1>6, <2>1, EndEffect
  <2> QED
    BY <1>2, <1>4, <1>6, <1>h, <2>2, <2>h
<1>8. remotes'[id] = None /\ \A i \in Ids \ {id} : remotes'[i] = remotes[i]
  BY <1>1, <1>2, <1>4
<1>9. InUse' = InUse \ {id} /\ (id \in InUse <=> remotes[id] # None)
  BY <1>4, <1>8 DEF InUse
<1>10. count' = Cardinality(InUse')
  <2>1. IsFiniteSet(InUse)
    <3>1. IsFiniteSet(Ids)
      BY FS_Interval, BridgeAssumption DEF Ids, IdMin, BridgeAssumption
    <3> QED
      BY <3>1, FS_Subset DEF InUse
  <2>2. count = Cardinality(InUse)
    BY DEF MapInv
  <2>3. CASE id \in InUse
    <3>1. Cardinality(InUse \ {id}) = Cardinality(InUse) - 1
      BY <2>1, <2>3, FS_RemoveElement
    <3> QED
      BY <1>1, <1>9, <2>2, <2>3, <3>1
  <2>4. CASE id \notin InUse
    <3>1. InUse \ {id} = InUse
      BY <2>4
    <3> QED
      BY <1>1, <1>9, <2>2, <2>4, <3>1
  <2> QED
    BY <2>3, <2>4
<1>11. IdsDistinct'
  BY <1>7 DEF MapInv, IdsDistinct
<1>12. MapRight'
  <2> SUFFICES ASSUME NEW i \in InUse' PROVE svc'[remotes'[i]].localId = i /\ ~sockEnded'
    BY DEF MapRight
  <2>1. i \in InUse /\ remotes'[i] = remotes[i] /\ remotes[i] \in Svcs
    BY <1>8, <1>9, <1>2 DEF InUse
  <2> QED
    BY <2>1, <1>1, <1>7 DEF MapInv, MapRight
<1>13. IdsCounted'
  BY <1>1 DEF MapInv, IdsCounted, Served
<1>14. ASSUME NEW t \in Svcs PROVE LifeInv(t)'
  <2>1. LifeInv(t) /\ sockEnded' = sockEnded /\ counter' = counter
    BY <1>1 DEF MapInv
  <2>2. CASE t = s
    BY <2>1, <2>2, <1>1, <1>4, <1>7 DEF LifeInv
  <2>3. CASE t # s
    <3>1. svc[t].cleanup = "waiting" => svc[t].localId \in Ids /\ svc[t].localId # id
      <4>1. svc[t].cleanup = "waiting" => svc[t].localId # None
        BY <2>1 DEF LifeInv
      <4>2. svc[t].localId # None => svc[t].localId # id
        BY <2>3, <1>h DEF MapInv, IdsDistinct
      <4> QED
        BY <4>1, <4>2, <1>2 DEF Service
    <3>2. svc'[t].cleanup = "waiting" /\ ~sockEnded' => remotes'[svc'[t].localId] = t
      BY <2>1, <2>3, <3>1, <1>7, <1>8 DEF LifeInv
    <3> QED
      BY <2>1, <2>3, <3>2, <1>7 DEF LifeInv
  <2> QED
    BY <2>2, <2>3
<1> QED
  BY <1>10, <1>11, <1>12, <1>13, <1>14 DEF MapInv

\* MapInv and the deferred parts of the promise chains.
LEMMA MapResume ==
    ASSUME IInv, MapInv, NEW s \in Svcs, Resume(s)
    PROVE  MapInv'
<1>a. /\ svc \in [Svcs -> Service] /\ dev \in [Svcs -> Transport] /\ TypeOK
      /\ \A t \in Svcs : svc[t].chain # "rejected"
      /\ dev[s].read <= dev[s].sent
  BY DEF IInv, TypeOK, MapInv, LifeInv, StreamInv
<1>b. ASSUME UNCHANGED <<sockVars, toBridge, peer>>, \A t \in Svcs : LifeStep(t)
      PROVE  MapInv'
  BY <1>b, MapKept DEF sockVars, Served
<1>1. CASE HandleError(s)
  <2>1. PICK due : /\ due = IF svc[s].cleanup = "waiting" THEN "due" ELSE svc[s].cleanup
                   /\ EndServices({s}, [svc EXCEPT ![s].raising = FALSE, ![s].cleanup = due])
    BY <1>1 DEF HandleError
  <2>2. PICK v, S : v = [svc EXCEPT ![s].raising = FALSE, ![s].cleanup = due] /\ S = {s}
    OBVIOUS
  <2>3. /\ v \in [Svcs -> Service] /\ \A t \in Svcs \ {s} : v[t] = svc[t]
        /\ v[s].localId = svc[s].localId /\ v[s].chain = svc[s].chain /\ v[s].ended = svc[s].ended
        /\ v[s].cleanup = due
    <3>1. due \in {"none", "waiting", "due", "done"} /\ svc[s] \in Service
      BY <2>1, <1>a DEF Service
    <3>2. v = [svc EXCEPT ![s] = [svc[s] EXCEPT !.raising = FALSE, !.cleanup = due]]
      BY <2>2, <1>a
    <3>3. /\ [svc[s] EXCEPT !.raising = FALSE, !.cleanup = due] \in Service
          /\ v[s] = [svc[s] EXCEPT !.raising = FALSE, !.cleanup = due]
          /\ \A t \in Svcs \ {s} : v[t] = svc[t]
      BY <3>1, <3>2, <1>a DEF Service
    <3> QED
      BY <3>1, <3>2, <3>3, <1>a DEF Service
  <2>4. S \in SUBSET Svcs /\ EndServices(S, v)
    BY <2>1, <2>2
  <2>5. \A t \in Svcs : /\ v[t].localId = svc[t].localId /\ v[t].chain # "rejected"
                        /\ v[t].chain = "none" <=> svc[t].chain = "none"
                        /\ v[t].ended = svc[t].ended
                        /\ \/ v[t].cleanup = svc[t].cleanup
                           \/ svc[t].cleanup = "waiting" /\ v[t].cleanup = "due" /\ t \in S
    BY <2>1, <2>2, <2>3, <1>a
  <2>6. \A t \in Svcs : LifeStep(t)
    BY <2>3, <2>4, <2>5, <1>a, LifeEnds
  <2> QED
    BY <1>1, <1>b, <2>6 DEF HandleError
<1>2. CASE StartPush(s)
  <2>1. CASE svc[s].hasTr
    <3>1. PICK v : v = [svc[s] EXCEPT !.chain = "pushing"]
      OBVIOUS
    <3>2. TryPush(s, v, dev[s]) /\ svc[s].chain = "opened"
      BY <1>2, <2>1, <3>1 DEF StartPush
    <3>3. /\ v \in Service /\ v.localId = svc[s].localId /\ v.chain = "pushing"
          /\ v.ended = svc[s].ended /\ v.cleanup = svc[s].cleanup
      BY <3>1, <1>a DEF Service, Chains
    <3>4. /\ \A t \in Svcs \ {s} : svc'[t] = svc[t]
          /\ svc'[s].localId = v.localId /\ svc'[s].chain = v.chain
          /\ svc'[s].ended = v.ended /\ svc'[s].cleanup = v.cleanup
      BY <3>2, <3>3, <1>a, PushEffect
    <3>5. \A t \in Svcs : LifeStep(t)
      BY <3>2, <3>3, <3>4, <1>a DEF LifeStep
    <3> QED
      BY <1>2, <1>b, <3>5 DEF StartPush
  <2>2. CASE ~svc[s].hasTr
    <3>1. svc' = [svc EXCEPT ![s].chain = "finally"] /\ svc[s].chain = "opened"
      BY <1>2, <2>2 DEF StartPush
    <3>2. \A t \in Svcs : LifeStep(t)
      BY <3>1, <1>a DEF LifeStep, Service
    <3> QED
      BY <1>2, <1>b, <3>2 DEF StartPush
  <2> QED
    BY <2>1, <2>2
<1>3. CASE TransportEnds(s)
  <2>1. \A t \in Svcs : LifeStep(t)
    BY <1>3, <1>a DEF TransportEnds, LifeStep, Service
  <2> QED
    BY <1>3, <1>b, <2>1 DEF TransportEnds
<1>4. CASE Finally(s)
  <2>1. PICK v, S : v = [svc EXCEPT ![s].chain = "done"] /\ S = {s}
    OBVIOUS
  <2>2. S \in SUBSET Svcs /\ EndServices(S, v) /\ svc[s].chain = "finally"
    BY <1>4, <2>1 DEF Finally
  <2>3. v \in [Svcs -> Service] /\ v[s] = [svc[s] EXCEPT !.chain = "done"]
          /\ \A t \in Svcs \ {s} : v[t] = svc[t]
    BY <2>1, <1>a DEF Service, Chains
  <2>4. /\ v[s].localId = svc[s].localId /\ v[s].chain = "done" /\ v[s].ended = svc[s].ended
        /\ v[s].cleanup = svc[s].cleanup
    BY <2>3, <1>a DEF Service
  <2>5. \A t \in Svcs : LifeStep(t)
    <3>1. \A t \in Svcs : /\ v[t].localId = svc[t].localId /\ v[t].chain # "rejected"
                          /\ v[t].chain = "none" <=> svc[t].chain = "none"
                          /\ v[t].ended = svc[t].ended
                          /\ v[t].cleanup = svc[t].cleanup
      BY <2>2, <2>3, <2>4, <1>a
    <3> QED
      BY <2>2, <2>3, <3>1, <1>a, LifeEnds
  <2> QED
    BY <1>4, <1>b, <2>5 DEF Finally
<1>5. CASE Cleanup(s)
  BY <1>5, MapCleanup
<1> QED
  BY <1>1, <1>2, <1>3, <1>4, <1>5 DEF Resume

\* MapInv and the answers of the ADB server and its devices.
LEMMA MapServer ==
    ASSUME IInv, MapInv, NEW s \in Svcs, ServerAnswers(s) \/ DeviceSide(s)
    PROVE  MapInv'
<1>a. /\ svc \in [Svcs -> Service] /\ dev \in [Svcs -> Transport] /\ TypeOK
      /\ \A t \in Svcs : svc[t].chain # "rejected"
      /\ dev[s].read <= dev[s].sent
  BY DEF IInv, TypeOK, MapInv, LifeInv, StreamInv
<1>b. ASSUME UNCHANGED <<sockVars, toBridge, peer>>, \A t \in Svcs : LifeStep(t)
      PROVE  MapInv'
  BY <1>b, MapKept DEF sockVars, Served
<1>c. \A t \in Svcs : svc'[t] = svc[t] => LifeStep(t)
  BY <1>a DEF LifeStep
<1>1. CASE TransportReady(s)
  <2>1. \A t \in Svcs : LifeStep(t)
    BY <1>1, <1>a DEF TransportReady, AfterTransport, LifeStep, Service
  <2> QED
    BY <1>1, <1>b, <2>1 DEF TransportReady
<1>2. CASE TransportFailed(s)
  <2>1. \A t \in Svcs : LifeStep(t)
    BY <1>2, <1>a DEF TransportFailed, LifeStep, Service
  <2> QED
    BY <1>2, <1>b, <2>1 DEF TransportFailed
<1>3. CASE ReplyOkay(s)
  <2>1. \A t \in Svcs : LifeStep(t)
    BY <1>3, <1>a DEF ReplyOkay, LifeStep, Service
  <2> QED
    BY <1>3, <1>b, <2>1 DEF ReplyOkay
<1>4. CASE ReplyFails(s)
  <2>1. \A t \in Svcs : LifeStep(t)
    BY <1>4, <1>a DEF ReplyFails, LifeStep, Service
  <2> QED
    BY <1>4, <1>b, <2>1 DEF ReplyFails
<1>5. ASSUME NEW d \in Transport, d.read <= d.sent, DeviceEmits(s, d) PROVE MapInv'
  <2>1. UNCHANGED <<sockVars, toBridge, peer>>
    BY <1>5 DEF DeviceEmits
  <2>2. CASE svc[s].chain = "pushing"
    <3>1. TryPush(s, svc[s], d) /\ svc[s] \in Service
      BY <1>5, <2>2, <1>a DEF DeviceEmits
    <3>2. /\ \A t \in Svcs \ {s} : svc'[t] = svc[t]
          /\ svc'[s].localId = svc[s].localId /\ svc'[s].chain = svc[s].chain
          /\ svc'[s].ended = svc[s].ended /\ svc'[s].cleanup = svc[s].cleanup
      BY <1>5, <3>1, <1>a, PushEffect
    <3>3. \A t \in Svcs : LifeStep(t)
      BY <3>2, <1>a DEF LifeStep
    <3> QED
      BY <1>b, <2>1, <3>3
  <2>3. CASE svc[s].chain # "pushing"
    <3>1. svc' = svc
      BY <1>5, <2>3 DEF DeviceEmits
    <3> QED
      BY <1>b, <1>c, <2>1, <3>1
  <2> QED
    BY <2>2, <2>3
<1>6. CASE DeviceSends(s)
  <2>1. PICK n \in 1 .. (MaxDev - dev[s].sent) : DeviceEmits(s, [dev[s] EXCEPT !.sent = @ + n])
    BY <1>6 DEF DeviceSends
  <2>2. PICK d : d = [dev[s] EXCEPT !.sent = @ + n]
    OBVIOUS
  <2>3. d \in Transport /\ d.read <= d.sent
    <3>1. dev[s] \in Transport /\ dev[s].read <= dev[s].sent
      BY <1>a
    <3>2. n \in Nat /\ dev[s].sent + n \in 0 .. MaxDev
      BY ONLY <2>1, <3>1, BridgeAssumption DEF Transport, BridgeAssumption
    <3>3. d.read = dev[s].read /\ d.sent = dev[s].sent + n /\ d \in Transport
      BY ONLY <2>2, <3>1, <3>2 DEF Transport
    <3>4. dev[s].read \in Int /\ dev[s].sent \in Int
      BY ONLY <3>1 DEF Transport
    <3> QED
      BY ONLY <3>1, <3>2, <3>3, <3>4
  <2> QED
    BY <2>1, <2>2, <2>3, <1>5
<1>7. CASE DeviceCloses(s)
  <2>1. PICK d : d = [dev[s] EXCEPT !.eof = TRUE]
    OBVIOUS
  <2>2. d \in Transport /\ d.read <= d.sent
    BY <2>1, <1>a DEF Transport
  <2> QED
    BY <1>7, <2>1, <2>2, <1>5 DEF DeviceCloses
<1>8. CASE TransportErrors(s)
  <2>1. \A t \in Svcs : LifeStep(t)
    BY <1>8, <1>a DEF TransportErrors, LifeStep, Service
  <2> QED
    BY <1>8, <1>b, <2>1 DEF TransportErrors
<1> QED
  BY <1>1, <1>2, <1>3, <1>4, <1>6, <1>7, <1>8 DEF ServerAnswers, DeviceSide

\* MapInv and the remote.
LEMMA MapPeer ==
    ASSUME IInv, MapInv, NEW s \in Svcs, PeerSide(s)
    PROVE  MapInv'
<1>a. /\ svc \in [Svcs -> Service] /\ peer \in [Svcs -> Peer]
      /\ \A t \in Svcs : svc[t].chain # "rejected"
  BY DEF IInv, TypeOK, MapInv, LifeInv
<1>b. UNCHANGED <<sockVars, svc>> /\ \A t \in Svcs : LifeStep(t)
  <2>1. UNCHANGED <<sockVars, svc>>
    BY DEF PeerSide, PeerOpens, PeerReceives, PeerAcks, PeerWrites, PeerCloses, PeerStrays
  <2> QED
    BY <2>1, <1>a DEF LifeStep
<1>c. ASSUME Served \subseteq Served' PROVE MapInv'
  BY <1>b, <1>c, MapKept DEF sockVars
<1>d. \A c \in {"OPEN", "OKAY", "WRTE", "CLSE"}, i \in Ids \cup {None}, e \in BOOLEAN :
         In(c, i, e) \in InPacket /\ In(c, i, e).cmd = c
  BY DEF In, InPacket
<1>e. peer[s].id \in Ids \cup {None}
  BY <1>a DEF Peer
<1>1. CASE PeerReceives(s)
  <2>1. \A t \in Svcs : peer[t].st # "idle" => peer'[t].st # "idle"
    <3> DEFINE p == Head(toPeer[s])
    <3>1. PICK w : /\ peer' = [peer EXCEPT ![s] = w]
                   /\ w = CASE p.cmd = "CLSE" -> [peer[s] EXCEPT !.st = "closed", !.shut = TRUE]
                            [] p.cmd = "WRTE" /\ peer[s].st # "closed" ->
                                 [peer[s] EXCEPT !.got = p.hi, !.owes = TRUE]
                            [] p.cmd = "OKAY" /\ peer[s].st = "opening" ->
                                 [peer[s] EXCEPT !.st = "open", !.id = p.id]
                            [] p.cmd = "OKAY" /\ peer[s].st = "open" ->
                                 [peer[s] EXCEPT !.waiting = FALSE]
                            [] OTHER -> peer[s]
      BY <1>1 DEF PeerReceives
    <3> HIDE DEF p
    <3>2. peer[s].st # "idle" => w.st # "idle"
      BY <3>1, <1>a DEF Peer
    <3> QED
      BY <3>1, <3>2, <1>a
  <2>2. toBridge' = toBridge
    BY <1>1 DEF PeerReceives
  <2> QED
    BY <2>1, <2>2, <1>c DEF Served
<1>2. CASE ~PeerReceives(s)
  <2>1. PICK p \in InPacket : Send(s, p) /\ (p.cmd # "OPEN" \/ peer[s].st = "idle")
    BY <1>2, <1>d, <1>e DEF PeerSide, PeerOpens, PeerAcks, PeerWrites, PeerCloses, PeerStrays
  <2>2. \A t \in Svcs : peer[t].st # "idle" => peer'[t].st # "idle"
    BY <1>2, <1>a, ZenonT(30) DEF PeerSide, PeerOpens, PeerAcks, PeerWrites, PeerCloses, PeerStrays, Peer
  <2> QED
    BY <2>1, <2>2, <1>c, ServedSend
<1> QED
  BY <1>1, <1>2

\* Socket.end empties the map and ends what was in it.
LEMMA MapSocket ==
    ASSUME IInv, MapInv, Accept \/ SocketFails \/ SocketEnds
    PROVE  MapInv'
<1>a. /\ TypeOK /\ svc \in [Svcs -> Service] /\ remotes \in [Ids -> Svcs \cup {None}]
      /\ \A t \in Svcs : svc[t].chain # "rejected"
  BY DEF IInv, TypeOK, MapInv, LifeInv
<1>1. counter' = counter /\ Served' = Served
  BY DEF Accept, SocketFails, SocketEnds, Served
<1>2. CASE UNCHANGED <<sockEnded, remotes, count, svc>>
  <2>1. \A t \in Svcs : LifeStep(t)
    BY <1>2, <1>a DEF LifeStep
  <2> QED
    BY <1>1, <1>2, <2>1, MapKept
<1>3. CASE ~UNCHANGED <<sockEnded, remotes, count, svc>>
  <2>1. /\ ~sockEnded /\ EndServices(InMap, svc) /\ sockEnded' = TRUE
        /\ remotes' = [i \in Ids |-> None] /\ count' = 0
    BY <1>3 DEF Accept, SocketFails, SocketEnds, EndSocket, EndAll
  <2>2. InMap \in SUBSET Svcs
    BY <1>a DEF InMap
  <2>3. \A t \in Svcs : LifeStep(t)
    BY <1>a, <2>1, <2>2, LifeEnds
  <2>4. IdsDistinct'
    BY <2>3 DEF MapInv, IdsDistinct, LifeStep
  <2>5. InUse' = {}
    BY <2>1 DEF InUse
  <2>6. MapRight' /\ count' = Cardinality(InUse')
    BY <2>1, <2>5, FS_EmptySet DEF MapRight
  <2>7. IdsCounted'
    BY <1>1 DEF MapInv, IdsCounted
  <2>8. ASSUME NEW t \in Svcs PROVE LifeInv(t)'
    <3>1. LifeInv(t) /\ LifeStep(t) /\ svc[t] \in Service
      BY <1>a, <2>3 DEF MapInv
    <3>2. svc[t].chain # "none" => svc'[t].ended
      <4>1. CASE svc[t].cleanup = "waiting"
        <5>1. remotes[svc[t].localId] = t /\ svc[t].localId \in Ids
          BY <3>1, <4>1, <2>1 DEF LifeInv, Service
        <5>2. t # None
          BY DEF Svcs, None
        <5>3. t \in InMap
          BY <5>1, <5>2 DEF InMap
        <5> QED
          BY <5>3, <1>a, <2>1, <2>2, EndEffect
      <4>2. CASE svc[t].cleanup # "waiting"
        BY <3>1, <4>2 DEF LifeInv, LifeStep, Service
      <4> QED
        BY <4>1, <4>2
    <3> QED
      BY <3>1, <3>2, <1>1, <2>1 DEF LifeInv, LifeStep
  <2> QED
    BY <2>4, <2>6, <2>7, <2>8 DEF MapInv
<1> QED
  BY <1>2, <1>3

\* MapInv is inductive under IInv.
LEMMA MapNext == NoWrap /\ IInv /\ IInv' /\ MapInv /\ [Next]_vars => MapInv'
<1> SUFFICES ASSUME NoWrap, IInv, IInv', MapInv, [Next]_vars PROVE MapInv'
  OBVIOUS
<1>1. CASE UNCHANGED vars
  BY <1>1 DEF vars, MapInv, IdsCounted, Served, IdsDistinct, MapRight, InUse, LifeInv
<1>2. CASE Accept \/ SocketFails \/ SocketEnds
  BY <1>2, MapSocket
<1>3. ASSUME NEW s \in Svcs, HandlePacket(s) PROVE MapInv'
  BY <1>3, MapPacket
<1>4. ASSUME NEW s \in Svcs, Resume(s) PROVE MapInv'
  BY <1>4, MapResume
<1>5. ASSUME NEW s \in Svcs, ServerAnswers(s) \/ DeviceSide(s) PROVE MapInv'
  BY <1>5, MapServer
<1>6. ASSUME NEW s \in Svcs, PeerSide(s) PROVE MapInv'
  BY <1>6, MapPeer
<1> QED
  BY <1>1, <1>2, <1>3, <1>4, <1>5, <1>6 DEF Next

\* While ids do not wrap, MapInv always holds.
LEMMA MapInvariance == ASSUME NoWrap PROVE Spec => []MapInv
<1>1. IInv /\ IInv' /\ MapInv /\ [Next]_vars => MapInv'
  BY MapNext
<1> QED
  BY <1>1, InitMap, Invariance, PTL DEF Spec

\* ServiceMap: as long as ids do not wrap, the map holds exactly the services
\* whose cleanup has not run, each under its own id, and counts them.
THEOREM MapConsistent == ASSUME NoWrap PROVE Spec => []ServiceMapConsistent
<1>1. IInv /\ MapInv => ServiceMapConsistent
  <2> SUFFICES ASSUME IInv, MapInv PROVE ServiceMapConsistent
    OBVIOUS
  <2>1. count = Cardinality({i \in Ids : remotes[i] # None})
    BY DEF MapInv, InUse
  <2>2. \A i \in Ids : remotes[i] # None => svc[remotes[i]].localId = i
    BY DEF MapInv, MapRight, InUse
  <2>3. \A s \in Svcs : ~sockEnded /\ svc[s].cleanup = "waiting"
                          => remotes[svc[s].localId] = s
    BY DEF MapInv, LifeInv
  <2> QED
    BY <2>1, <2>2, <2>3 DEF ServiceMapConsistent
<1> QED
  BY <1>1, MapInvariance, Invariance, PTL

\* Socket.end: no service that was handled outlives the FIN.
THEOREM EndedBeforeFin == ASSUME NoWrap PROVE Spec => []ServicesEndBeforeFin
<1>1. MapInv => ServicesEndBeforeFin
  BY DEF MapInv, LifeInv, ServicesEndBeforeFin
<1> QED
  BY <1>1, MapInvariance, PTL

(***************************************************************************)
(* The talk of one stream with a remote that keeps to the protocol.        *)
(***************************************************************************)
Conforms == NoWrap /\ MaxStray = 0

\* A_CLSE closes what is written, and is there exactly when the service ended.
CloseLastInv(s) ==
    /\ peer[s].shut => toPeer[s] = <<>>
    /\ \A i \in DOMAIN toPeer[s] : toPeer[s][i].cmd = "CLSE" => i = Len(toPeer[s])
    /\ svc[s].ended <=> peer[s].shut \/ InFlight(toPeer[s], "CLSE")

\* The remote learns of an id by the A_OKAY that opens its stream.
KnownInv(s) ==
    /\ peer[s].st = "open" => svc[s].opened /\ peer[s].id = svc[s].localId
    /\ \A i \in DOMAIN toPeer[s] :
          /\ toPeer[s][i].cmd \in {"OKAY", "WRTE"} => svc[s].opened
          /\ toPeer[s][i].cmd = "OKAY" => toPeer[s][i].id = svc[s].localId
    /\ \A i \in DOMAIN toBridge[s] :
          toBridge[s][i].cmd # "OPEN" => svc[s].opened /\ toBridge[s][i].id = svc[s].localId

\* An opened service has its transport until it ends; only Socket.end ends
\* one that is not opened yet, and no packet is premature.
OpenedInv(s) ==
    /\ ~svc[s].raising
    /\ (svc[s].chain = "reply" \/ svc[s].opened) /\ ~svc[s].ended => svc[s].hasTr
    /\ svc[s].chain \in {"transport", "reply"} /\ svc[s].ended => sockEnded
    /\ svc[s].ended => svc[s].chain # "none"
    /\ svc[s].chain \in {"opened", "pushing"} => svc[s].opened
    /\ svc[s].chain # "none" => authorized

TalkInv == \A s \in Svcs : CloseLastInv(s) /\ KnownInv(s) /\ OpenedInv(s)

(***************************************************************************)
(* A step, as one stream sees it.                                          *)
(***************************************************************************)
Reads(t, cmd) == Arrives(t, cmd) /\ toBridge'[t] = Tail(toBridge[t])
Wrote(t, p) == toPeer'[t] = Append(toPeer[t], p)

SvcKept(t) ==
    /\ svc'[t].opened <=> svc[t].opened
    /\ svc[t].opened => svc'[t].localId = svc[t].localId
SvcStays(t) ==
    /\ SvcKept(t)
    /\ svc'[t].ended <=> svc[t].ended
    /\ svc'[t].needAck <=> svc[t].needAck
DevStays(t) == dev'[t].read = dev[t].read /\ dev'[t].accepted = dev[t].accepted
PeerStays(t) == peer'[t] = peer[t]

Unseen(t) ==
    /\ SvcStays(t) /\ DevStays(t) /\ PeerStays(t)
    /\ toPeer'[t] = toPeer[t] /\ toBridge'[t] = toBridge[t]

Drops(t) ==
    /\ SvcStays(t) /\ DevStays(t) /\ PeerStays(t) /\ toPeer'[t] = toPeer[t]
    /\ toBridge[t] # <<>> /\ toBridge'[t] = Tail(toBridge[t])
    /\ Arrives(t, "OPEN") \/ svc[t].ended

PushStep(t) ==
    /\ dev'[t].read \in dev[t].read + 1 .. dev[t].read + MaxPayload
    /\ dev'[t].read <= dev'[t].sent
    /\ Wrote(t, Data(svc[t].localId, dev[t].read + 1, dev'[t].read))

Pushing(t) ==
    /\ ~svc[t].ended /\ ~svc'[t].ended /\ ~svc[t].needAck /\ svc'[t].needAck
    /\ svc[t].opened /\ SvcKept(t) /\ PeerStays(t)
    /\ dev'[t].accepted = dev[t].accepted /\ toBridge'[t] = toBridge[t]
    /\ PushStep(t)

HearsOkay(t) ==
    /\ Reads(t, "OKAY") /\ ~svc[t].ended /\ ~svc'[t].ended
    /\ SvcKept(t) /\ PeerStays(t) /\ dev'[t].accepted = dev[t].accepted
    /\ \/ ~svc'[t].needAck /\ dev'[t].read = dev[t].read /\ toPeer'[t] = toPeer[t]
       \/ svc'[t].needAck /\ PushStep(t)

HearsWrite(t) ==
    /\ Reads(t, "WRTE") /\ ~svc[t].ended
    /\ SvcStays(t) /\ PeerStays(t)
    /\ dev'[t].read = dev[t].read /\ dev'[t].accepted = dev[t].accepted + 1
    /\ Wrote(t, Out("OKAY", svc[t].localId))

Ends(t) ==
    /\ ~svc[t].ended /\ svc'[t].ended
    /\ svc'[t].needAck <=> svc[t].needAck
    /\ SvcKept(t) /\ DevStays(t) /\ PeerStays(t)
    /\ Wrote(t, Out("CLSE", CloseId(svc[t])))
    /\ toBridge'[t] = toBridge[t] \/ Reads(t, "CLSE")

Replies(t) ==
    /\ ~svc[t].opened /\ svc'[t].opened /\ svc'[t].localId = svc[t].localId
    /\ svc'[t].ended <=> svc[t].ended
    /\ svc'[t].needAck <=> svc[t].needAck
    /\ DevStays(t) /\ PeerStays(t) /\ toBridge'[t] = toBridge[t]
    /\ \/ svc[t].ended /\ toPeer'[t] = toPeer[t]
       \/ ~svc[t].ended /\ Wrote(t, Out("OKAY", svc[t].localId))

RemoteSteps(t) ==
    /\ SvcStays(t) /\ DevStays(t)
    /\ \/ PeerOpens(t) \/ PeerReceives(t) \/ PeerAcks(t)
       \/ PeerWrites(t) \/ PeerCloses(t)

StreamStep(t) ==
    \/ Unseen(t) \/ Drops(t) \/ Pushing(t) \/ HearsOkay(t) \/ HearsWrite(t)
    \/ Ends(t) \/ Replies(t) \/ RemoteSteps(t)

\* A packet of a stream is for the service of that stream.
LEMMA TargetIsOwn ==
    ASSUME IInv, MapInv, TalkInv, NEW s \in Svcs, toBridge[s] # <<>>,
           Head(toBridge[s]).cmd # "OPEN"
    PROVE  /\ svc[s].opened /\ svc[s].chain # "none" /\ authorized
           /\ Target(s) \in {s, None}
           /\ ~sockEnded /\ Target(s) = None => svc[s].ended
<1>1. toBridge[s] \in Seq(InPacket) /\ svc[s] \in Service
        /\ remotes \in [Ids -> Svcs \cup {None}]
  BY DEF IInv, TypeOK
<1>2. /\ 1 \in DOMAIN toBridge[s] /\ toBridge[s][1] = Head(toBridge[s])
  BY <1>1
<1>3. svc[s].opened /\ Head(toBridge[s]).id = svc[s].localId
  BY <1>2 DEF TalkInv, KnownInv
<1>4. svc[s].chain # "none"
  BY <1>3 DEF IInv, StreamInv
<1>5. LifeInv(s) /\ authorized
  BY <1>4 DEF MapInv, TalkInv, OpenedInv
<1>6. svc[s].localId \in Ids
  BY <1>1, <1>4, <1>5 DEF LifeInv, Service
<1>7. Target(s) = remotes[svc[s].localId]
  BY <1>3, <1>6 DEF Target
<1>8. Target(s) \in {s, None}
  <2> SUFFICES ASSUME Target(s) # None PROVE Target(s) = s
    OBVIOUS
  <2>1. svc[s].localId \in InUse /\ Target(s) \in Svcs
    BY <1>1, <1>6, <1>7 DEF InUse
  <2>2. svc[Target(s)].localId = svc[s].localId
    BY <2>1, <1>7 DEF MapInv, MapRight
  <2>3. svc[s].localId # None
    BY <1>4, <1>5 DEF LifeInv
  <2> QED
    BY <2>1, <2>2, <2>3 DEF MapInv, IdsDistinct
<1>9. ~sockEnded /\ Target(s) = None => svc[s].ended
  <2> SUFFICES ASSUME ~sockEnded, Target(s) = None PROVE svc[s].ended
    OBVIOUS
  <2>1. s # None
    BY DEF Svcs, None
  <2>2. svc[s].cleanup # "waiting"
    BY <1>5, <1>7, <2>1 DEF LifeInv
  <2> QED
    BY <1>1, <1>4, <1>5, <2>2 DEF LifeInv, Service
<1> QED
  BY <1>3, <1>4, <1>5, <1>8, <1>9

\* The facts about the states of the services that the steps need.
LEMMA TalkTypes ==
    ASSUME IInv
    PROVE  /\ TypeOK /\ svc \in [Svcs -> Service] /\ dev \in [Svcs -> Transport]
           /\ toPeer \in [Svcs -> Seq(OutPacket)] /\ toBridge \in [Svcs -> Seq(InPacket)]
           /\ peer \in [Svcs -> Peer]
           /\ \A t \in Svcs : dev[t].read <= dev[t].sent
           /\ \A t \in Svcs : svc[t].opened =>
                 svc[t].chain \notin {"none", "rejected", "transport", "reply"}
BY DEF IInv, TypeOK, StreamInv

\* OpenedInv of a service that a step leaves as it is.
LEMMA OpenedSame ==
    ASSUME TalkInv, NEW t \in Svcs, sockEnded => sockEnded', authorized => authorized',
           svc'[t].chain = svc[t].chain, svc'[t].opened <=> svc[t].opened,
           svc'[t].ended <=> svc[t].ended, svc[t].hasTr => svc'[t].hasTr,
           ~svc'[t].raising
    PROVE  OpenedInv(t)'
BY DEF TalkInv, OpenedInv

\* A step that concerns other streams.
LEMMA UnseenStep ==
    ASSUME TalkInv, NEW t \in Svcs, sockEnded => sockEnded', authorized => authorized',
           svc'[t] = svc[t], toPeer'[t] = toPeer[t], toBridge'[t] = toBridge[t],
           dev'[t].read = dev[t].read, dev'[t].accepted = dev[t].accepted, peer'[t] = peer[t]
    PROVE  OpenedInv(t)' /\ StreamStep(t)
<1>1. Unseen(t)
  BY DEF Unseen, SvcStays, SvcKept, DevStays, PeerStays
<1>2. OpenedInv(t)'
  BY DEF TalkInv, OpenedInv
<1> QED
  BY <1>1, <1>2 DEF StreamStep

\* A packet that is read and dropped.
LEMMA DropStep ==
    ASSUME TalkInv, NEW t \in Svcs, sockEnded => sockEnded', authorized => authorized',
           svc'[t] = svc[t], toPeer'[t] = toPeer[t], dev'[t] = dev[t], peer'[t] = peer[t],
           toBridge[t] # <<>>, toBridge'[t] = Tail(toBridge[t]),
           Arrives(t, "OPEN") \/ svc[t].ended
    PROVE  OpenedInv(t)' /\ StreamStep(t)
<1>1. Drops(t)
  BY DEF Drops, SvcStays, SvcKept, DevStays, PeerStays
<1>2. OpenedInv(t)'
  BY DEF TalkInv, OpenedInv
<1> QED
  BY <1>1, <1>2 DEF StreamStep

\* A service that pushes, if it may.
LEMMA PushedStep ==
    ASSUME IInv, MapInv, TalkInv, UNCHANGED <<sockEnded, authorized, peer>>, NEW s \in Svcs,
           NEW v \in Service, NEW d \in Transport, d.read <= d.sent, TryPush(s, v, d),
           svc[s].opened, v.localId = svc[s].localId, v.opened = svc[s].opened,
           v.ended = svc[s].ended, v.hasTr = svc[s].hasTr, v.raising = svc[s].raising,
           d.read = dev[s].read, d.accepted = dev[s].accepted,
           v.chain = svc[s].chain \/ (svc[s].chain = "opened" /\ v.chain = "pushing"),
           \/ toBridge'[s] = toBridge[s] /\ v.needAck = svc[s].needAck
           \/ Reads(s, "OKAY") /\ ~svc[s].ended /\ ~v.needAck
    PROVE  OpenedInv(s)' /\ StreamStep(s)
<1>1. /\ svc'[s].localId = v.localId /\ svc'[s].chain = v.chain
      /\ svc'[s].opened = v.opened /\ svc'[s].raising = v.raising
      /\ svc'[s].ended = v.ended /\ svc'[s].hasTr = v.hasTr
      /\ dev'[s].accepted = d.accepted
      /\ \/ /\ svc'[s].needAck = v.needAck /\ dev'[s].read = d.read
            /\ toPeer'[s] = toPeer[s]
         \/ /\ ~v.ended /\ ~v.needAck /\ svc'[s].needAck
            /\ Pushes(s, v.localId, d.read + 1, d.read + Chunk(d))
  <2>1. /\ TypeOK /\ s \in Svcs /\ v \in Service /\ d \in Transport
        /\ d.read <= d.sent /\ TryPush(s, v, d)
    BY TalkTypes
  <2> QED
    BY ONLY <2>1, PushEffect
<1>2. OpenedInv(s)'
  BY <1>1 DEF TalkInv, OpenedInv
<1>3. SvcKept(s) /\ PeerStays(s) /\ svc'[s].ended = svc[s].ended
  BY <1>1 DEF SvcKept, PeerStays
<1>4. CASE ~v.ended /\ ~v.needAck /\ svc'[s].needAck
             /\ Pushes(s, v.localId, d.read + 1, d.read + Chunk(d))
  <2>1. ~sockEnded
    <3>1. svc[s].chain # "none" /\ ~svc[s].ended
      BY <1>4, TalkTypes
    <3> QED
      BY <3>1 DEF MapInv, LifeInv
  <2>2. PushStep(s)
    <3>1. Chunk(d) \in Nat /\ d.read \in Nat /\ MaxPayload \in Nat
      BY ChunkBounds, BridgeAssumption DEF Transport, BridgeAssumption
    <3>2. dev'[s].read = dev[s].read + Chunk(d) /\ dev'[s].read <= dev'[s].sent
      BY <1>4 DEF Pushes
    <3>3. dev'[s].read \in dev[s].read + 1 .. dev[s].read + MaxPayload
      BY <1>4, <3>1, <3>2 DEF Pushes
    <3>4. toPeer'[s] = Append(toPeer[s], Data(svc[s].localId, dev[s].read + 1, dev'[s].read))
      BY <1>4, <2>1, <3>2 DEF Pushes
    <3> QED
      BY <3>2, <3>3, <3>4 DEF PushStep, Wrote
  <2>3. CASE toBridge'[s] = toBridge[s] /\ v.needAck = svc[s].needAck
    <3>1. Pushing(s)
      BY <1>1, <1>3, <1>4, <2>2, <2>3 DEF Pushing
    <3> QED
      BY <1>2, <3>1 DEF StreamStep
  <2>4. CASE Reads(s, "OKAY")
    <3>1. HearsOkay(s)
      BY <1>1, <1>3, <1>4, <2>2, <2>4 DEF HearsOkay
    <3> QED
      BY <1>2, <3>1 DEF StreamStep
  <2> QED
    BY <2>3, <2>4
<1>5. CASE svc'[s].needAck = v.needAck /\ dev'[s].read = d.read /\ toPeer'[s] = toPeer[s]
  <2>1. CASE toBridge'[s] = toBridge[s] /\ v.needAck = svc[s].needAck
    <3>1. Unseen(s)
      BY <1>1, <1>3, <1>5, <2>1 DEF Unseen, SvcStays, DevStays
    <3> QED
      BY <1>2, <3>1 DEF StreamStep
  <2>2. CASE Reads(s, "OKAY") /\ ~svc[s].ended /\ ~v.needAck
    <3>1. HearsOkay(s)
      BY <1>1, <1>3, <1>5, <2>2 DEF HearsOkay
    <3> QED
      BY <1>2, <3>1 DEF StreamStep
  <2> QED
    BY <2>1, <2>2
<1> QED
  BY <1>1, <1>4, <1>5

\* Services that end: those in S say so, unless they had ended.
LEMMA EndStep ==
    ASSUME IInv, MapInv, TalkInv, peer' = peer, authorized' = authorized,
           sockEnded => sockEnded', NEW t \in Svcs,
           NEW S \in SUBSET Svcs, NEW v \in [Svcs -> Service], EndServices(S, v),
           v[t].localId = svc[t].localId, v[t].opened = svc[t].opened,
           v[t].ended = svc[t].ended, v[t].hasTr = svc[t].hasTr, ~v[t].raising,
           v[t].needAck = svc[t].needAck,
           \/ v[t].chain = svc[t].chain
           \/ t \in S /\ svc[t].chain = "finally" /\ v[t].chain = "done",
           t \in S => svc[t].chain # "none",
           t \in S /\ svc[t].chain \in {"transport", "reply"} => svc[t].ended \/ sockEnded',
           \/ toBridge'[t] = toBridge[t]
           \/ Reads(t, "CLSE") /\ t \in S /\ ~svc[t].ended
    PROVE  OpenedInv(t)' /\ StreamStep(t)
<1>1. /\ svc'[t].localId = svc[t].localId /\ svc'[t].chain = v[t].chain
      /\ svc'[t].opened = svc[t].opened /\ svc'[t].needAck = svc[t].needAck
      /\ ~svc'[t].raising
      /\ svc'[t].ended <=> (svc[t].ended \/ t \in S)
      /\ svc'[t].hasTr <=> (svc[t].hasTr /\ (t \in S => svc[t].ended))
      /\ toPeer'[t] = IF t \in S /\ ~svc[t].ended /\ ~sockEnded
                      THEN Append(toPeer[t], Out("CLSE", CloseId(v[t]))) ELSE toPeer[t]
      /\ dev'[t].read = dev[t].read /\ dev'[t].accepted = dev[t].accepted
  <2>1. /\ svc'[t].localId = v[t].localId /\ svc'[t].chain = v[t].chain
        /\ svc'[t].opened = v[t].opened /\ svc'[t].needAck = v[t].needAck
        /\ svc'[t].raising = v[t].raising
        /\ svc'[t].ended <=> (v[t].ended \/ t \in S)
        /\ svc'[t].hasTr <=> (v[t].hasTr /\ (t \in S => v[t].ended))
        /\ toPeer'[t] = IF t \in S /\ ~v[t].ended /\ ~sockEnded
                        THEN Append(toPeer[t], Out("CLSE", CloseId(v[t]))) ELSE toPeer[t]
        /\ dev'[t].read = dev[t].read /\ dev'[t].accepted = dev[t].accepted
    BY TalkTypes, EndEffect
  <2> QED
    BY <2>1
<1>2. CloseId(v[t]) = CloseId(svc[t])
  BY DEF CloseId
<1>3. SvcKept(t) /\ PeerStays(t) /\ DevStays(t)
  BY <1>1 DEF SvcKept, PeerStays, DevStays
<1>4. OpenedInv(t) /\ LifeInv(t)
  BY DEF TalkInv, MapInv
<1>5. OpenedInv(t)'
  BY <1>1, <1>4 DEF OpenedInv
<1>6. CASE t \in S /\ ~svc[t].ended
  <2>1. ~sockEnded
    BY <1>4, <1>6 DEF LifeInv
  <2>2. Ends(t)
    BY <1>1, <1>2, <1>3, <1>6, <2>1 DEF Ends, Wrote
  <2> QED
    BY <1>5, <2>2 DEF StreamStep
<1>7. CASE ~(t \in S /\ ~svc[t].ended)
  <2>1. Unseen(t)
    BY <1>1, <1>3, <1>7 DEF Unseen, SvcStays
  <2> QED
    BY <1>5, <2>1 DEF StreamStep
<1> QED
  BY <1>6, <1>7

\* What a packet handler does, as each stream sees it.
LEMMA TalkPacket ==
    ASSUME Conforms, IInv, MapInv, TalkInv, NEW s \in Svcs, HandlePacket(s), NEW t \in Svcs
    PROVE  OpenedInv(t)' /\ StreamStep(t)
<1>0. /\ svc \in [Svcs -> Service] /\ dev \in [Svcs -> Transport]
      /\ toPeer \in [Svcs -> Seq(OutPacket)] /\ toBridge \in [Svcs -> Seq(InPacket)]
      /\ dev[s].read <= dev[s].sent
  BY TalkTypes
<1>a. /\ Consume(s) /\ toBridge[s] # <<>> /\ peer' = peer
      /\ sockEnded' = sockEnded /\ authorized' = authorized
  BY DEF HandlePacket, Discard, Unauthorized, OpenEmpty, OpenService, OpenCollides, Ignore,
         Premature, HandleOkay, HandleWrite, HandleClose, Forwards, Arrives, sockVars
<1>b. toBridge'[s] = Tail(toBridge[s]) /\ \A u \in Svcs \ {s} : toBridge'[u] = toBridge[u]
  BY <1>0, <1>a DEF Consume
<1>c. ~Arrives(s, "OPEN") =>
        /\ svc[s].opened /\ svc[s].chain # "none" /\ authorized
        /\ Target(s) \in {s, None} /\ (~sockEnded /\ Target(s) = None => svc[s].ended)
  BY <1>a, TargetIsOwn DEF Arrives
<1>d. ASSUME NEW c \in {"OKAY", "WRTE", "CLSE"}, Forwards(s, c)
      PROVE  ~Arrives(s, "OPEN") /\ Arrives(s, c) /\ ~sockEnded /\ authorized
  BY <1>d DEF Forwards, Arrives
<1>e. /\ svc[t].chain = "none" => ~svc[t].ended /\ ~svc[t].opened
      /\ ~svc[t].raising
      /\ OpenedInv(t)
  BY TalkTypes DEF TalkInv, OpenedInv
<1>f. s # None
  BY DEF Svcs, None
<1>1. ASSUME UNCHANGED <<svc, dev, toPeer>>, t = s => Arrives(s, "OPEN") \/ svc[s].ended
      PROVE  OpenedInv(t)' /\ StreamStep(t)
  <2>1. CASE t = s
    BY <2>1, <1>1, <1>a, <1>b, DropStep
  <2>2. CASE t # s
    BY <2>2, <1>1, <1>a, <1>b, UnseenStep
  <2> QED
    BY <2>1, <2>2
<1>2. CASE Discard(s)
  <2>1. Arrives(s, "OPEN") \/ svc[s].ended
    BY <1>2, <1>c DEF Discard, MapInv, LifeInv
  <2> QED
    BY <2>1, <1>1, <1>2 DEF Discard
<1>3. CASE Unauthorized(s)
  BY <1>1, <1>3, <1>c DEF Unauthorized
<1>4. CASE OpenEmpty(s)
  BY <1>1, <1>4 DEF OpenEmpty
<1>5. CASE OpenService(s)
  <2>1. /\ UNCHANGED <<dev, toPeer>> /\ Arrives(s, "OPEN") /\ authorized
        /\ svc' = [svc EXCEPT ![s].localId = NextId, ![s].chain = "transport",
                              ![s].cleanup = "waiting"]
    BY <1>5 DEF OpenService
  <2>2. CASE t # s
    <3>1. svc'[t] = svc[t]
      BY <2>1, <2>2, <1>0
    <3> QED
      BY <2>1, <2>2, <3>1, <1>a, <1>b, UnseenStep
  <2>3. CASE t = s
    <3>1. svc[s].chain = "none"
      <4>1. 1 \in DOMAIN toBridge[s] /\ toBridge[s][1].cmd = "OPEN"
        BY <2>1, <1>0 DEF Arrives
      <4> QED
        BY <4>1 DEF IInv, OpenInv
    <3>2. /\ svc'[s].chain = "transport" /\ svc'[s].opened = svc[s].opened
          /\ svc'[s].ended = svc[s].ended /\ svc'[s].needAck = svc[s].needAck
          /\ svc'[s].raising = svc[s].raising /\ svc'[s].hasTr = svc[s].hasTr
      BY <2>1, <1>0 DEF Service
    <3>3. OpenedInv(t)'
      BY <2>1, <2>3, <3>1, <3>2, <1>a, <1>e DEF OpenedInv
    <3>4. Drops(t)
      BY <2>1, <2>3, <3>1, <3>2, <1>a, <1>b, <1>e
         DEF Drops, SvcStays, SvcKept, DevStays, PeerStays
    <3> QED
      BY <3>3, <3>4 DEF StreamStep
  <2> QED
    BY <2>2, <2>3
<1>6. CASE OpenCollides(s)
  BY <1>6, <1>a, FreshId DEF OpenCollides, Conforms
<1>7. CASE Ignore(s)
  <2>1. PICK c \in {"OKAY", "WRTE", "CLSE"} : Forwards(s, c)
    BY <1>7 DEF Ignore
  <2>2. ~Live(Target(s)) /\ UNCHANGED <<svc, dev, toPeer>>
    BY <1>7 DEF Ignore
  <2>3. svc[s].ended
    BY <2>1, <2>2, <1>c, <1>d, <1>f DEF Live
  <2> QED
    BY <2>2, <2>3, <1>1
<1>8. CASE Premature(s)
  <2>1. PICK c \in {"OKAY", "WRTE", "CLSE"} : Forwards(s, c)
    BY <1>8 DEF Premature
  <2>2. Live(Target(s)) /\ ~svc[Target(s)].hasTr
    BY <1>8 DEF Premature
  <2>3. svc[s].opened /\ ~svc[s].ended /\ ~svc[s].hasTr
    BY <2>1, <2>2, <1>c, <1>d DEF Live
  <2> QED
    BY <2>3 DEF TalkInv, OpenedInv
<1>9. CASE HandleOkay(s)
  <2>1. Forwards(s, "OKAY") /\ Usable(Target(s))
    BY <1>9 DEF HandleOkay
  <2>2. Arrives(s, "OKAY") /\ Target(s) = s /\ svc[s].opened /\ ~svc[s].ended
    BY <2>1, <1>c, <1>d DEF Usable, Live
  <2>3. PICK v, d : v = [svc[s] EXCEPT !.needAck = FALSE] /\ d = dev[s]
    OBVIOUS
  <2>4. TryPush(s, v, d)
    BY <1>9, <2>2, <2>3 DEF HandleOkay
  <2>5. /\ v \in Service /\ v.localId = svc[s].localId /\ v.opened = svc[s].opened
        /\ v.ended = svc[s].ended /\ v.hasTr = svc[s].hasTr /\ v.raising = svc[s].raising
        /\ v.chain = svc[s].chain /\ ~v.needAck
        /\ d \in Transport /\ d.read = dev[s].read /\ d.accepted = dev[s].accepted
        /\ d.read <= d.sent
    BY <2>3, <1>0 DEF Service
  <2>6. CASE t = s
    <3>1. Reads(s, "OKAY")
      BY <2>2, <1>b DEF Reads
    <3> HIDE <2>3
    <3> QED
      BY <2>2, <2>4, <2>5, <2>6, <3>1, <1>a, PushedStep
  <2>7. CASE t # s
    <3>1. svc'[t] = svc[t] /\ dev'[t] = dev[t] /\ toPeer'[t] = toPeer[t]
      <4>1. TypeOK
        BY TalkTypes
      <4> QED
        BY <2>4, <2>5, <2>7, <4>1, PushEffect
    <3> QED
      BY <2>7, <3>1, <1>a, <1>b, UnseenStep
  <2> QED
    BY <2>6, <2>7
<1>10. CASE HandleWrite(s)
  <2>1. Forwards(s, "WRTE") /\ Usable(Target(s))
    BY <1>10 DEF HandleWrite
  <2>2. /\ Arrives(s, "WRTE") /\ Target(s) = s /\ svc[s].opened /\ ~svc[s].ended /\ ~sockEnded
    BY <2>1, <1>c, <1>d DEF Usable, Live
  <2>3. /\ dev' = [dev EXCEPT ![s] = [dev[s] EXCEPT !.accepted = @ + 1]] /\ svc' = svc
        /\ toPeer' = [toPeer EXCEPT ![s] = Append(@, Out("OKAY", svc[s].localId))]
    BY <1>10, <2>2 DEF HandleWrite, PassOn, Write
  <2>4. CASE t = s
    <3>1. dev'[s].read = dev[s].read /\ dev'[s].accepted = dev[s].accepted + 1
      BY <2>3, <1>0 DEF Transport
    <3>2. HearsWrite(t)
      BY <2>2, <2>3, <2>4, <3>1, <1>0, <1>a, <1>b
         DEF HearsWrite, Reads, SvcStays, SvcKept, PeerStays, Wrote
    <3>3. OpenedInv(t)'
      BY <2>3, <1>a, <1>e DEF OpenedInv
    <3> QED
      BY <3>2, <3>3 DEF StreamStep
  <2>5. CASE t # s
    <3>1. svc'[t] = svc[t] /\ dev'[t] = dev[t] /\ toPeer'[t] = toPeer[t]
      BY <2>3, <2>5, <1>0
    <3> QED
      BY <2>5, <3>1, <1>a, <1>b, UnseenStep
  <2> QED
    BY <2>4, <2>5
<1>11. CASE HandleClose(s)
  <2>1. Forwards(s, "CLSE") /\ Usable(Target(s))
    BY <1>11 DEF HandleClose
  <2>2. Arrives(s, "CLSE") /\ Target(s) = s /\ svc[s].opened /\ ~svc[s].ended
    BY <2>1, <1>c, <1>d DEF Usable, Live
  <2>3. PICK S, v : S = {s} /\ v = svc
    OBVIOUS
  <2>4. S \in SUBSET Svcs /\ EndServices(S, v) /\ v \in [Svcs -> Service]
    BY <1>11, <2>2, <2>3, <1>0 DEF HandleClose
  <2>5. /\ v[t].localId = svc[t].localId /\ v[t].opened = svc[t].opened
        /\ v[t].ended = svc[t].ended /\ v[t].hasTr = svc[t].hasTr /\ ~v[t].raising
        /\ v[t].needAck = svc[t].needAck /\ v[t].chain = svc[t].chain
    BY <2>3, <1>e
  <2>6. t \in S => svc[t].chain \notin {"none", "transport", "reply"}
    BY <2>2, <2>3, TalkTypes
  <2>7. \/ toBridge'[t] = toBridge[t]
        \/ Reads(t, "CLSE") /\ t \in S /\ ~svc[t].ended
    BY <2>2, <2>3, <1>b DEF Reads
  <2> HIDE <2>3
  <2> QED
    BY <2>4, <2>5, <2>6, <2>7, <1>a, EndStep
<1> QED
  BY <1>2, <1>3, <1>4, <1>5, <1>6, <1>7, <1>8, <1>9, <1>10, <1>11 DEF HandlePacket

\* What the deferred parts do, as each stream sees it.
LEMMA TalkResume ==
    ASSUME IInv, MapInv, TalkInv, NEW s \in Svcs, Resume(s), NEW t \in Svcs
    PROVE  OpenedInv(t)' /\ StreamStep(t)
<1>0. /\ svc \in [Svcs -> Service] /\ dev \in [Svcs -> Transport] /\ TypeOK
      /\ toPeer \in [Svcs -> Seq(OutPacket)] /\ dev[s].read <= dev[s].sent
  BY TalkTypes
<1>a. /\ toBridge' = toBridge /\ peer' = peer
      /\ sockEnded' = sockEnded /\ authorized' = authorized
  BY DEF Resume, HandleError, StartPush, TransportEnds, Finally, Cleanup, sockVars
<1>b. OpenedInv(t) /\ OpenedInv(s) /\ LifeInv(s)
  BY DEF TalkInv, MapInv
<1>1. CASE HandleError(s)
  BY <1>1, <1>b DEF HandleError, OpenedInv
<1>2. CASE StartPush(s)
  <2>1. CASE svc[s].hasTr
    <3>1. PICK v, d : v = [svc[s] EXCEPT !.chain = "pushing"] /\ d = dev[s]
      OBVIOUS
    <3>2. TryPush(s, v, d) /\ svc[s].chain = "opened"
      BY <1>2, <2>1, <3>1 DEF StartPush
    <3>3. /\ v \in Service /\ v.localId = svc[s].localId /\ v.opened = svc[s].opened
          /\ v.ended = svc[s].ended /\ v.hasTr = svc[s].hasTr /\ v.raising = svc[s].raising
          /\ v.chain = "pushing" /\ v.needAck = svc[s].needAck
          /\ d \in Transport /\ d.read = dev[s].read /\ d.accepted = dev[s].accepted
          /\ d.read <= d.sent
      BY <3>1, <1>0, ZenonT(30) DEF Service, Chains
    <3>4. svc[s].opened
      BY <3>2, <1>b DEF OpenedInv
    <3> HIDE <3>1
    <3>5. CASE t = s
      BY <3>2, <3>3, <3>4, <3>5, <1>a, PushedStep
    <3>6. CASE t # s
      <4>1. svc'[t] = svc[t] /\ dev'[t] = dev[t] /\ toPeer'[t] = toPeer[t]
        BY <3>2, <3>3, <3>6, <1>0, PushEffect
      <4> QED
        BY <4>1, <1>a, UnseenStep
    <3> QED
      BY <3>5, <3>6
  <2>2. CASE ~svc[s].hasTr
    <3>1. /\ svc[s].chain = "opened" /\ svc' = [svc EXCEPT ![s].chain = "finally"]
          /\ UNCHANGED <<dev, toPeer>>
      BY <1>2, <2>2 DEF StartPush
    <3>2. Unseen(t)
      BY <3>1, <1>0, <1>a DEF Unseen, SvcStays, SvcKept, DevStays, PeerStays, Service
    <3>3. OpenedInv(t)'
      BY <3>1, <1>0, <1>a, <1>b DEF OpenedInv, Service
    <3> QED
      BY <3>2, <3>3 DEF StreamStep
  <2> QED
    BY <2>1, <2>2
<1>3. CASE TransportEnds(s)
  <2>1. /\ svc[s].chain = "pushing" /\ svc' = [svc EXCEPT ![s].chain = "finally"]
        /\ UNCHANGED <<dev, toPeer>>
    BY <1>3 DEF TransportEnds
  <2>2. Unseen(t)
    BY <2>1, <1>0, <1>a DEF Unseen, SvcStays, SvcKept, DevStays, PeerStays, Service
  <2>3. OpenedInv(t)'
    BY <2>1, <1>0, <1>a, <1>b DEF OpenedInv, Service
  <2> QED
    BY <2>2, <2>3 DEF StreamStep
<1>4. CASE Finally(s)
  <2>1. PICK v, S : v = [svc EXCEPT ![s].chain = "done"] /\ S = {s}
    OBVIOUS
  <2>2. S \in SUBSET Svcs /\ EndServices(S, v) /\ svc[s].chain = "finally"
    BY <1>4, <2>1 DEF Finally
  <2>3. /\ v \in [Svcs -> Service] /\ v[t].localId = svc[t].localId
        /\ v[t].opened = svc[t].opened /\ v[t].ended = svc[t].ended
        /\ v[t].hasTr = svc[t].hasTr /\ v[t].needAck = svc[t].needAck
        /\ v[t].raising = svc[t].raising
        /\ v[t].chain = IF t = s THEN "done" ELSE svc[t].chain
    <3>1. v = [svc EXCEPT ![s] = [svc[s] EXCEPT !.chain = "done"]]
      BY <2>1, <1>0
    <3>2. [svc[s] EXCEPT !.chain = "done"] \in Service
      BY <1>0, ZenonT(30) DEF Service, Chains
    <3> QED
      BY <3>1, <3>2, <1>0 DEF Service
  <2>4. /\ t \in S => svc[t].chain = "finally" /\ v[t].chain = "done"
        /\ t \notin S => v[t].chain = svc[t].chain
        /\ ~v[t].raising
    BY <2>1, <2>2, <2>3, <1>b DEF OpenedInv
  <2> HIDE <2>1
  <2> QED
    BY <2>2, <2>3, <2>4, <1>a, EndStep
<1>5. CASE Cleanup(s)
  <2>1. PICK v, S : v = [svc EXCEPT ![s].cleanup = "done"] /\ S = {s}
    OBVIOUS
  <2>2. S \in SUBSET Svcs /\ EndServices(S, v) /\ svc[s].ended /\ svc[s].chain # "none"
    BY <1>5, <2>1, <1>b DEF Cleanup, LifeInv
  <2>3. /\ v \in [Svcs -> Service] /\ v[t].localId = svc[t].localId
        /\ v[t].opened = svc[t].opened /\ v[t].ended = svc[t].ended
        /\ v[t].hasTr = svc[t].hasTr /\ v[t].needAck = svc[t].needAck
        /\ v[t].raising = svc[t].raising /\ v[t].chain = svc[t].chain
    <3>1. v = [svc EXCEPT ![s] = [svc[s] EXCEPT !.cleanup = "done"]]
      BY <2>1, <1>0
    <3>2. [svc[s] EXCEPT !.cleanup = "done"] \in Service
      BY <1>0 DEF Service
    <3> QED
      BY <3>1, <3>2, <1>0 DEF Service
  <2>4. /\ t \in S => svc[t].ended /\ svc[t].chain # "none"
        /\ ~v[t].raising
    BY <2>1, <2>2, <2>3, <1>b DEF OpenedInv
  <2> HIDE <2>1
  <2> QED
    BY <2>2, <2>3, <2>4, <1>a, EndStep
<1> QED
  BY <1>1, <1>2, <1>3, <1>4, <1>5 DEF Resume

\* What the answers of the ADB server do, as each stream sees it.
LEMMA TalkServer ==
    ASSUME IInv, MapInv, TalkInv, NEW s \in Svcs, ServerAnswers(s), NEW t \in Svcs
    PROVE  OpenedInv(t)' /\ StreamStep(t)
<1>0. /\ svc \in [Svcs -> Service] /\ dev \in [Svcs -> Transport]
      /\ toPeer \in [Svcs -> Seq(OutPacket)]
      /\ svc[s].chain \in {"transport", "reply"} => ~svc[s].opened
  BY TalkTypes
<1>a. /\ toBridge' = toBridge /\ peer' = peer
      /\ sockEnded' = sockEnded /\ authorized' = authorized
  BY DEF ServerAnswers, TransportReady, TransportFailed, ReplyOkay, ReplyFails, sockVars
<1>b. OpenedInv(t) /\ OpenedInv(s) /\ LifeInv(s)
  BY DEF TalkInv, MapInv
<1>1. CASE TransportReady(s)
  <2>1. /\ svc[s].chain = "transport" /\ toPeer' = toPeer
        /\ svc' = [svc EXCEPT ![s] = [svc[s] EXCEPT !.hasTr = TRUE,
                      !.chain = IF svc[s].ended THEN "finally" ELSE "reply"]]
        /\ dev' = [dev EXCEPT ![s] = [dev[s] EXCEPT !.conn = "open"]]
    BY <1>1 DEF TransportReady, AfterTransport
  <2>2. Unseen(t)
    BY <2>1, <1>0, <1>a DEF Unseen, SvcStays, SvcKept, DevStays, PeerStays, Service, Transport
  <2>3. OpenedInv(t)'
    BY <2>1, <1>0, <1>a, <1>b DEF OpenedInv, Service
  <2> QED
    BY <2>2, <2>3 DEF StreamStep
<1>2. CASE TransportFailed(s) \/ ReplyFails(s)
  <2>1. /\ svc[s].chain \in {"transport", "reply"} /\ toPeer' = toPeer
        /\ svc' = [svc EXCEPT ![s].chain = "finally"]
        /\ dev'[t].read = dev[t].read /\ dev'[t].accepted = dev[t].accepted
    <3>1. /\ svc[s].chain \in {"transport", "reply"} /\ toPeer' = toPeer
          /\ svc' = [svc EXCEPT ![s].chain = "finally"]
          /\ \E c : dev' = [dev EXCEPT ![s] = [dev[s] EXCEPT !.conn = c]] \/ dev' = dev
      BY <1>2 DEF TransportFailed, ReplyFails
    <3>2. dev'[t].read = dev[t].read /\ dev'[t].accepted = dev[t].accepted
      <4>1. CASE dev' = dev
        BY <4>1
      <4>2. CASE \E c : dev' = [dev EXCEPT ![s] = [dev[s] EXCEPT !.conn = c]]
        <5>1. PICK c : dev' = [dev EXCEPT ![s] = [dev[s] EXCEPT !.conn = c]]
          BY <4>2
        <5> QED
          BY <5>1, <1>0 DEF Transport
      <4> QED
        BY <3>1, <4>1, <4>2
    <3> QED
      BY <3>1, <3>2
  <2>2. Unseen(t)
    BY <2>1, <1>0, <1>a DEF Unseen, SvcStays, SvcKept, DevStays, PeerStays, Service
  <2>3. OpenedInv(t)'
    BY <2>1, <1>0, <1>a, <1>b DEF OpenedInv, Service
  <2> QED
    BY <2>2, <2>3 DEF StreamStep
<1>3. CASE ReplyOkay(s)
  <2>1. /\ svc[s].chain = "reply" /\ dev' = dev
        /\ svc' = [svc EXCEPT ![s] = [svc[s] EXCEPT !.opened = TRUE, !.chain = "opened"]]
        /\ toPeer' = IF sockEnded THEN toPeer
                     ELSE [toPeer EXCEPT ![s] = Append(@, Out("OKAY", svc[s].localId))]
    BY <1>3 DEF ReplyOkay, Write
  <2>2. OpenedInv(t)'
    BY <2>1, <1>0, <1>a, <1>b DEF OpenedInv, Service
  <2>3. CASE t = s
    <3>1. /\ svc'[s].opened /\ svc'[s].localId = svc[s].localId
          /\ svc'[s].ended = svc[s].ended /\ svc'[s].needAck = svc[s].needAck
      BY <2>1, <1>0 DEF Service
    <3>2. svc[s].ended <=> sockEnded
      BY <2>1, <1>b DEF OpenedInv, LifeInv
    <3>3. Replies(t)
      BY <2>1, <2>3, <3>1, <3>2, <1>0, <1>a DEF Replies, DevStays, PeerStays, Wrote
    <3> QED
      BY <2>2, <3>3 DEF StreamStep
  <2>4. CASE t # s
    <3>1. Unseen(t)
      BY <2>1, <2>4, <1>0, <1>a DEF Unseen, SvcStays, SvcKept, DevStays, PeerStays
    <3> QED
      BY <2>2, <3>1 DEF StreamStep
  <2> QED
    BY <2>3, <2>4
<1> QED
  BY <1>1, <1>2, <1>3 DEF ServerAnswers

\* What the devices do, as each stream sees it.
LEMMA TalkDevice ==
    ASSUME IInv, MapInv, TalkInv, NEW s \in Svcs, DeviceSide(s), NEW t \in Svcs
    PROVE  OpenedInv(t)' /\ StreamStep(t)
<1>0. /\ svc \in [Svcs -> Service] /\ dev \in [Svcs -> Transport] /\ TypeOK
      /\ toPeer \in [Svcs -> Seq(OutPacket)] /\ dev[s].read <= dev[s].sent
  BY TalkTypes
<1>a. /\ toBridge' = toBridge /\ peer' = peer
      /\ sockEnded' = sockEnded /\ authorized' = authorized
  BY DEF DeviceSide, DeviceSends, DeviceCloses, DeviceEmits, TransportErrors, sockVars
<1>b. OpenedInv(t) /\ OpenedInv(s)
  BY DEF TalkInv
<1>1. ASSUME NEW d \in Transport, d.read <= d.sent, DeviceEmits(s, d),
             d.read = dev[s].read, d.accepted = dev[s].accepted
      PROVE  OpenedInv(t)' /\ StreamStep(t)
  <2>1. CASE svc[s].chain = "pushing"
    <3>1. TryPush(s, svc[s], d) /\ svc[s].opened /\ svc[s] \in Service
      BY <1>1, <2>1, <1>0, <1>b DEF DeviceEmits, OpenedInv
    <3>2. CASE t = s
      BY <3>1, <3>2, <1>1, <1>a, PushedStep
    <3>3. CASE t # s
      <4>1. svc'[t] = svc[t] /\ dev'[t] = dev[t] /\ toPeer'[t] = toPeer[t]
        BY <3>1, <3>3, <1>0, <1>1, PushEffect
      <4> QED
        BY <4>1, <1>a, UnseenStep
    <3> QED
      BY <3>2, <3>3
  <2>2. CASE svc[s].chain # "pushing"
    <3>1. dev' = [dev EXCEPT ![s] = d] /\ UNCHANGED <<svc, toPeer>>
      BY <1>1, <2>2 DEF DeviceEmits
    <3>2. dev'[t].read = dev[t].read /\ dev'[t].accepted = dev[t].accepted
      BY <3>1, <1>0, <1>1
    <3> QED
      BY <3>1, <3>2, <1>a, UnseenStep
  <2> QED
    BY <2>1, <2>2
<1>2. CASE DeviceSends(s)
  <2>1. PICK n \in 1 .. (MaxDev - dev[s].sent) : DeviceEmits(s, [dev[s] EXCEPT !.sent = @ + n])
    BY <1>2 DEF DeviceSends
  <2>2. PICK d : d = [dev[s] EXCEPT !.sent = @ + n]
    OBVIOUS
  <2>3. d \in Transport /\ d.read <= d.sent
    <3>1. dev[s] \in Transport /\ dev[s].read <= dev[s].sent
      BY <1>0
    <3>2. n \in Nat /\ dev[s].sent + n \in 0 .. MaxDev
      BY ONLY <2>1, <3>1, BridgeAssumption DEF Transport, BridgeAssumption
    <3>3. d.read = dev[s].read /\ d.sent = dev[s].sent + n /\ d \in Transport
      BY ONLY <2>2, <3>1, <3>2 DEF Transport
    <3>4. dev[s].read \in Int /\ dev[s].sent \in Int
      BY ONLY <3>1 DEF Transport
    <3> QED
      BY ONLY <3>1, <3>2, <3>3, <3>4
  <2>4. d.read = dev[s].read /\ d.accepted = dev[s].accepted
    BY <2>2, <1>0 DEF Transport
  <2> QED
    BY <2>1, <2>2, <2>3, <2>4, <1>1
<1>3. CASE DeviceCloses(s)
  <2>1. PICK d : d = [dev[s] EXCEPT !.eof = TRUE]
    OBVIOUS
  <2>2. d \in Transport /\ d.read <= d.sent /\ d.read = dev[s].read /\ d.accepted = dev[s].accepted
    BY <2>1, <1>0 DEF Transport
  <2> QED
    BY <1>3, <2>1, <2>2, <1>1 DEF DeviceCloses
<1>4. CASE TransportErrors(s)
  <2>1. /\ toPeer' = toPeer
        /\ \/ svc[s].chain = "pushing" /\ svc' = [svc EXCEPT ![s].chain = "finally"]
           \/ svc[s].chain = "opened" /\ svc' = svc
        /\ dev' = [dev EXCEPT ![s] = [dev[s] EXCEPT !.conn = "lost"]]
    BY <1>4 DEF TransportErrors
  <2>2. Unseen(t)
    <3>1. CASE svc' = svc
      BY <2>1, <3>1, <1>0, <1>a
         DEF Unseen, SvcStays, SvcKept, DevStays, PeerStays, Service, Transport
    <3>2. CASE svc' = [svc EXCEPT ![s].chain = "finally"]
      BY <2>1, <3>2, <1>0, <1>a
         DEF Unseen, SvcStays, SvcKept, DevStays, PeerStays, Service, Transport
    <3> QED
      BY <2>1, <3>1, <3>2
  <2>3. OpenedInv(t)'
    <3>1. CASE svc' = svc
      BY <2>1, <3>1, <1>0, <1>a, <1>b, SMTT(30) DEF OpenedInv, Service
    <3>2. CASE svc' = [svc EXCEPT ![s].chain = "finally"]
      BY <2>1, <3>2, <1>0, <1>a, <1>b, SMTT(30) DEF OpenedInv, Service
    <3> QED
      BY <2>1, <3>1, <3>2
  <2> QED
    BY <2>2, <2>3 DEF StreamStep
<1> QED
  BY <1>2, <1>3, <1>4 DEF DeviceSide

\* What the remote does, as each stream sees it.
LEMMA TalkPeer ==
    ASSUME Conforms, IInv, TalkInv, NEW s \in Svcs, PeerSide(s), NEW t \in Svcs
    PROVE  OpenedInv(t)' /\ StreamStep(t)
<1>0. /\ toPeer \in [Svcs -> Seq(OutPacket)] /\ toBridge \in [Svcs -> Seq(InPacket)]
      /\ peer \in [Svcs -> Peer]
  BY TalkTypes
<1>1. ~PeerStrays(s)
  <2>1. strays \in Nat
    BY TalkTypes, BridgeAssumption DEF TypeOK, BridgeAssumption
  <2>2. PeerStrays(s) => strays < MaxStray
    BY DEF PeerStrays
  <2>3. MaxStray = 0
    BY DEF Conforms
  <2> QED
    BY ONLY <2>1, <2>2, <2>3
<1>2. UNCHANGED <<sockEnded, authorized, svc, dev>>
  BY DEF PeerSide, PeerOpens, PeerReceives, PeerAcks, PeerWrites, PeerCloses, PeerStrays, sockVars
<1>3. CASE t = s
  <2>1. OpenedInv(t)'
    BY <1>2 DEF TalkInv, OpenedInv
  <2>2. RemoteSteps(t)
    BY <1>1, <1>2, <1>3 DEF PeerSide, RemoteSteps, SvcStays, SvcKept, DevStays
  <2> QED
    BY <2>1, <2>2 DEF StreamStep
<1>4. CASE t # s
  <2>1. toPeer'[t] = toPeer[t] /\ toBridge'[t] = toBridge[t] /\ peer'[t] = peer[t]
    BY <1>0, <1>1, <1>4
       DEF PeerSide, PeerOpens, PeerReceives, PeerAcks, PeerWrites, PeerCloses, Send
  <2> QED
    BY <2>1, <1>2, UnseenStep
<1> QED
  BY <1>3, <1>4

\* What Socket does on its own, as each stream sees it.
LEMMA TalkSocket ==
    ASSUME IInv, MapInv, TalkInv, Accept \/ SocketFails \/ SocketEnds, NEW t \in Svcs
    PROVE  OpenedInv(t)' /\ StreamStep(t)
<1>a. toBridge' = toBridge /\ peer' = peer
  BY DEF Accept, SocketFails, SocketEnds
<1>1. CASE UNCHANGED <<sockEnded, svc, dev, toPeer>> /\ (authorized => authorized')
  BY <1>1, <1>a, UnseenStep
<1>2. CASE ~(UNCHANGED <<sockEnded, svc, dev, toPeer>> /\ (authorized => authorized'))
  <2>1. ~sockEnded /\ EndServices(InMap, svc) /\ sockEnded' = TRUE /\ authorized' = authorized
    BY <1>2 DEF Accept, SocketFails, SocketEnds, EndSocket, EndAll
  <2>2. svc \in [Svcs -> Service] /\ ~svc[t].raising
    BY TalkTypes DEF TalkInv, OpenedInv
  <2>3. PICK S, v : S = InMap /\ v = svc
    OBVIOUS
  <2>4. S \in SUBSET Svcs
    BY <2>3 DEF IInv, TypeOK, InMap
  <2>5. t \in S => svc[t].chain # "none"
    <3>1. t \in InMap => \E i \in InUse : remotes[i] = t
      BY DEF InMap, InUse
    <3>2. t \in InMap => svc[t].localId \in Ids
      BY <3>1 DEF MapInv, MapRight, InUse
    <3> QED
      BY <2>3, <3>2 DEF MapInv, LifeInv, Ids, None, IdMin
  <2>6. /\ EndServices(S, v) /\ v \in [Svcs -> Service] /\ ~v[t].raising
        /\ v[t].localId = svc[t].localId /\ v[t].opened = svc[t].opened
        /\ v[t].ended = svc[t].ended /\ v[t].hasTr = svc[t].hasTr
        /\ v[t].needAck = svc[t].needAck /\ v[t].chain = svc[t].chain
    BY <2>1, <2>2, <2>3
  <2> HIDE <2>3
  <2> QED
    BY <2>1, <2>4, <2>5, <2>6, <1>a, EndStep
<1> QED
  BY <1>1, <1>2

\* Every step of the bridge is, to each stream, one of the steps above.
LEMMA TalkSteps ==
    ASSUME Conforms, IInv, MapInv, TalkInv, [Next]_vars, NEW t \in Svcs
    PROVE  OpenedInv(t)' /\ StreamStep(t)
<1>1. CASE UNCHANGED vars
  BY <1>1, UnseenStep DEF vars
<1>2. CASE Accept \/ SocketFails \/ SocketEnds
  BY <1>2, TalkSocket
<1>3. ASSUME NEW s \in Svcs, HandlePacket(s) PROVE OpenedInv(t)' /\ StreamStep(t)
  BY <1>3, TalkPacket
<1>4. ASSUME NEW s \in Svcs, Resume(s) PROVE OpenedInv(t)' /\ StreamStep(t)
  BY <1>4, TalkResume
<1>5. ASSUME NEW s \in Svcs, ServerAnswers(s) PROVE OpenedInv(t)' /\ StreamStep(t)
  BY <1>5, TalkServer
<1>6. ASSUME NEW s \in Svcs, DeviceSide(s) PROVE OpenedInv(t)' /\ StreamStep(t)
  BY <1>6, TalkDevice
<1>7. ASSUME NEW s \in Svcs, PeerSide(s) PROVE OpenedInv(t)' /\ StreamStep(t)
  BY <1>7, TalkPeer
<1> QED
  BY <1>1, <1>2, <1>3, <1>4, <1>5, <1>6, <1>7 DEF Next

\* The elements of a queue that grows.
LEMMA AppendElems ==
    ASSUME NEW S, NEW q \in Seq(S), NEW p \in S
    PROVE  /\ Append(q, p) \in Seq(S) /\ Len(Append(q, p)) = Len(q) + 1 /\ Len(q) \in Nat
           /\ DOMAIN q = 1 .. Len(q) /\ DOMAIN Append(q, p) = 1 .. Len(q) + 1
           /\ \A i \in DOMAIN q : Append(q, p)[i] = q[i]
           /\ Append(q, p)[Len(q) + 1] = p /\ Len(q) + 1 \notin DOMAIN q
           /\ DOMAIN Append(q, p) = DOMAIN q \cup {Len(q) + 1}
OBVIOUS

\* The elements of a queue that is read.
LEMMA TailElems ==
    ASSUME NEW S, NEW q \in Seq(S), q # <<>>
    PROVE  /\ Tail(q) \in Seq(S) /\ Len(Tail(q)) = Len(q) - 1 /\ Len(q) \in Nat \ {0}
           /\ DOMAIN q = 1 .. Len(q) /\ DOMAIN Tail(q) = 1 .. Len(q) - 1
           /\ \A i \in DOMAIN Tail(q) : i + 1 \in DOMAIN q /\ i + 1 > 1 /\ Tail(q)[i] = q[i + 1]
           /\ 1 \in DOMAIN q /\ Head(q) = q[1]
           /\ \A i \in DOMAIN q : i # 1 => i - 1 \in DOMAIN Tail(q) /\ q[i] = Tail(q)[i - 1]
OBVIOUS

\* The packets that are written and sent have their types.
LEMMA PacketTypes ==
    ASSUME IInv, NEW s \in Svcs
    PROVE  /\ Out("OKAY", svc[s].localId) \in OutPacket /\ Out("CLSE", CloseId(svc[s])) \in OutPacket
           /\ PushStep(s) /\ IInv' =>
                Data(svc[s].localId, dev[s].read + 1, dev'[s].read) \in OutPacket
           /\ \A e \in BOOLEAN : In("OPEN", None, e) \in InPacket
           /\ \A c \in {"OKAY", "WRTE", "CLSE"} : In(c, peer[s].id, FALSE) \in InPacket
<1>1. svc[s] \in Service /\ dev[s] \in Transport /\ peer[s] \in Peer
  BY TalkTypes
<1>2. CloseId(svc[s]) \in Ids \cup {None} /\ svc[s].localId \in Ids \cup {None}
        /\ peer[s].id \in Ids \cup {None}
  BY <1>1 DEF CloseId, Service, Peer
<1>3. 0 \in 0 .. MaxDev + 1 /\ 0 \in 0 .. MaxDev
  BY BridgeAssumption DEF BridgeAssumption
<1>4. PushStep(s) /\ IInv' => dev[s].read + 1 \in 0 .. MaxDev + 1 /\ dev'[s].read \in 0 .. MaxDev
  <2>1. IInv' => dev'[s].read \in 0 .. MaxDev
    BY DEF IInv, TypeOK, Transport
  <2>2. dev[s].read + 1 \in 0 .. MaxDev + 1
    BY ONLY <1>1, BridgeAssumption DEF Transport, BridgeAssumption
  <2> QED
    BY <2>1, <2>2
<1> QED
  BY <1>2, <1>3, <1>4 DEF Out, Data, In, OutPacket, InPacket

\* What the remote reads.
LEMMA Received ==
    ASSUME IInv, NEW t \in Svcs, PeerReceives(t)
    PROVE  LET p == Head(toPeer[t])
               v == peer[t]
               w == peer'[t]
           IN /\ toPeer[t] # <<>> /\ toPeer'[t] = Tail(toPeer[t]) /\ toBridge'[t] = toBridge[t]
              /\ p \in OutPacket /\ w.written = v.written
              /\ w.shut <=> v.shut \/ p.cmd = "CLSE"
              /\ p.cmd = "CLSE" =>
                   w.st = "closed" /\ w.id = v.id /\ w.got = v.got
                     /\ (w.owes <=> v.owes) /\ (w.waiting <=> v.waiting)
              /\ p.cmd = "WRTE" =>
                   /\ w.st = v.st /\ w.id = v.id /\ (w.waiting <=> v.waiting)
                   /\ v.st # "closed" => w.got = p.hi /\ w.owes
                   /\ v.st = "closed" => w.got = v.got /\ (w.owes <=> v.owes)
              /\ p.cmd = "OKAY" =>
                   /\ w.got = v.got /\ (w.owes <=> v.owes)
                   /\ v.st = "opening" => w.st = "open" /\ w.id = p.id
                                            /\ (w.waiting <=> v.waiting)
                   /\ v.st # "opening" => w.st = v.st /\ w.id = v.id
                   /\ v.st = "open" => ~w.waiting
                   /\ v.st # "open" => (w.waiting <=> v.waiting)
<1> DEFINE p == Head(toPeer[t])
<1>0. peer \in [Svcs -> Peer] /\ toPeer \in [Svcs -> Seq(OutPacket)]
  BY TalkTypes
<1>1. /\ toPeer[t] # <<>> /\ toPeer'[t] = Tail(toPeer[t]) /\ toBridge'[t] = toBridge[t]
      /\ p \in OutPacket /\ peer[t] \in Peer
  BY <1>0 DEF PeerReceives
<1>2. peer'[t] =
            CASE p.cmd = "CLSE" -> [peer[t] EXCEPT !.st = "closed", !.shut = TRUE]
              [] p.cmd = "WRTE" /\ peer[t].st # "closed" ->
                   [peer[t] EXCEPT !.got = p.hi, !.owes = TRUE]
              [] p.cmd = "OKAY" /\ peer[t].st = "opening" ->
                   [peer[t] EXCEPT !.st = "open", !.id = p.id]
              [] p.cmd = "OKAY" /\ peer[t].st = "open" -> [peer[t] EXCEPT !.waiting = FALSE]
              [] OTHER -> peer[t]
  BY <1>0 DEF PeerReceives
<1>3. p.cmd \in {"OKAY", "WRTE", "CLSE"}
  BY <1>1 DEF OutPacket
<1> HIDE DEF p
<1>4. CASE p.cmd = "CLSE"
  <2>1. peer'[t] = [peer[t] EXCEPT !.st = "closed", !.shut = TRUE]
    BY <1>2, <1>4
  <2> QED
    BY <1>1, <1>4, <2>1 DEF Peer, p
<1>5. CASE p.cmd = "WRTE"
  <2>1. peer'[t] = IF peer[t].st # "closed" THEN [peer[t] EXCEPT !.got = p.hi, !.owes = TRUE]
                   ELSE peer[t]
    BY <1>2, <1>5
  <2>2. CASE peer[t].st # "closed"
    BY <1>1, <1>5, <2>1, <2>2 DEF Peer, p
  <2>3. CASE peer[t].st = "closed"
    BY <1>1, <1>5, <2>1, <2>3 DEF p
  <2> QED
    BY <2>2, <2>3
<1>6. CASE p.cmd = "OKAY"
  <2>1. CASE peer[t].st = "opening"
    <3>1. peer'[t] = [peer[t] EXCEPT !.st = "open", !.id = p.id]
      BY <1>2, <1>6, <2>1
    <3> QED
      BY <1>1, <1>6, <2>1, <3>1 DEF Peer, p
  <2>2. CASE peer[t].st = "open"
    <3>1. peer'[t] = [peer[t] EXCEPT !.waiting = FALSE]
      BY <1>2, <1>6, <2>2
    <3> QED
      BY <1>1, <1>6, <2>2, <3>1 DEF Peer, p
  <2>3. CASE peer[t].st \notin {"opening", "open"}
    <3>1. peer'[t] = peer[t]
      BY <1>2, <1>6, <2>3
    <3> QED
      BY <1>1, <1>6, <2>3, <3>1 DEF p
  <2> QED
    BY <2>1, <2>2, <2>3
<1> QED
  BY <1>3, <1>4, <1>5, <1>6

\* What the remote sends.
LEMMA Sent ==
    ASSUME IInv, NEW t \in Svcs,
           PeerOpens(t) \/ PeerAcks(t) \/ PeerWrites(t) \/ PeerCloses(t)
    PROVE  LET v == peer[t]
               w == peer'[t]
           IN /\ toPeer'[t] = toPeer[t] /\ w.got = v.got /\ w.shut = v.shut
              /\ \/ /\ v.st = "idle" /\ w.st = "opening" /\ (w.owes <=> v.owes)
                    /\ w.written = v.written /\ (w.waiting <=> v.waiting)
                    /\ \E e \in BOOLEAN : toBridge'[t] = Append(toBridge[t], In("OPEN", None, e))
                 \/ /\ v.st = "open" /\ w.id = v.id
                    /\ \/ /\ w.st = "open" /\ v.owes /\ ~w.owes
                          /\ w.written = v.written /\ (w.waiting <=> v.waiting)
                          /\ toBridge'[t] = Append(toBridge[t], In("OKAY", v.id, FALSE))
                       \/ /\ w.st = "open" /\ (w.owes <=> v.owes)
                          /\ w.written = v.written + 1 /\ ~v.waiting /\ w.waiting
                          /\ toBridge'[t] = Append(toBridge[t], In("WRTE", v.id, FALSE))
                       \/ /\ w.st = "closed" /\ (w.owes <=> v.owes)
                          /\ w.written = v.written /\ (w.waiting <=> v.waiting)
                          /\ toBridge'[t] = Append(toBridge[t], In("CLSE", v.id, FALSE))
<1>0. peer \in [Svcs -> Peer] /\ toBridge \in [Svcs -> Seq(InPacket)]
  BY TalkTypes
<1>1. CASE PeerOpens(t)
  <2>1. /\ peer[t].st = "idle" /\ toPeer' = toPeer
        /\ peer'[t] = [peer[t] EXCEPT !.st = "opening"]
        /\ \E e \in BOOLEAN : toBridge'[t] = Append(toBridge[t], In("OPEN", None, e))
    BY <1>0, <1>1 DEF PeerOpens, Send
  <2> QED
    BY <1>0, <2>1 DEF Peer
<1>2. CASE PeerAcks(t)
  <2>1. /\ peer[t].st = "open" /\ peer[t].owes /\ toPeer' = toPeer
        /\ peer'[t] = [peer[t] EXCEPT !.owes = FALSE]
        /\ toBridge'[t] = Append(toBridge[t], In("OKAY", peer[t].id, FALSE))
    BY <1>0, <1>2 DEF PeerAcks, Send
  <2> QED
    BY <1>0, <2>1 DEF Peer
<1>3. CASE PeerWrites(t)
  <2>1. /\ peer[t].st = "open" /\ ~peer[t].waiting /\ toPeer' = toPeer
        /\ peer'[t] = [peer[t] EXCEPT !.waiting = TRUE, !.written = peer[t].written + 1]
        /\ toBridge'[t] = Append(toBridge[t], In("WRTE", peer[t].id, FALSE))
    <3>1. /\ peer[t].st = "open" /\ ~peer[t].waiting /\ toPeer' = toPeer
          /\ peer' = [peer EXCEPT ![t] =
                       [peer[t] EXCEPT !.waiting = TRUE, !.written = peer[t].written + 1]]
          /\ Send(t, In("WRTE", peer[t].id, FALSE))
      BY <1>0, <1>3 DEF PeerWrites, Peer
    <3> QED
      BY <1>0, <3>1 DEF Send
  <2> QED
    BY <1>0, <2>1 DEF Peer
<1>4. CASE PeerCloses(t)
  <2>1. /\ peer[t].st = "open" /\ toPeer' = toPeer
        /\ peer'[t] = [peer[t] EXCEPT !.st = "closed"]
        /\ toBridge'[t] = Append(toBridge[t], In("CLSE", peer[t].id, FALSE))
    BY <1>0, <1>4 DEF PeerCloses, Send
  <2> QED
    BY <1>0, <2>1 DEF Peer
<1> QED
  BY <1>1, <1>2, <1>3, <1>4

\* CloseLastInv and a step of the stream.
LEMMA CloseLastKept ==
    ASSUME IInv, IInv', TalkInv, NEW t \in Svcs, StreamStep(t)
    PROVE  CloseLastInv(t)'
<1>0. toPeer[t] \in Seq(OutPacket) /\ CloseLastInv(t)
  BY TalkTypes DEF TalkInv
<1>h. PICK q, r : q = toPeer[t] /\ r = toPeer'[t]
  OBVIOUS
<1>q. /\ q \in Seq(OutPacket) /\ Len(q) \in Nat
      /\ peer[t].shut => q = <<>>
      /\ \A i \in DOMAIN q : q[i].cmd = "CLSE" => i = Len(q)
      /\ svc[t].ended <=> peer[t].shut \/ InFlight(q, "CLSE")
  BY <1>0, <1>h DEF CloseLastInv
<1>g. ASSUME /\ peer'[t].shut => r = <<>>
             /\ \A i \in DOMAIN r : r[i].cmd = "CLSE" => i = Len(r)
             /\ svc'[t].ended <=> peer'[t].shut \/ InFlight(r, "CLSE")
      PROVE  CloseLastInv(t)'
  BY <1>g, <1>h DEF CloseLastInv, InFlight
<1> HIDE <1>h
<1>1. ASSUME r = q, peer'[t].shut <=> peer[t].shut, svc'[t].ended <=> svc[t].ended
      PROVE  CloseLastInv(t)'
  BY <1>1, <1>q, <1>g
<1>2. ASSUME NEW p \in OutPacket, r = Append(q, p), p.cmd # "CLSE", ~svc[t].ended, ~svc'[t].ended,
             peer'[t] = peer[t]
      PROVE  CloseLastInv(t)'
  <2>1. ~peer[t].shut /\ \A i \in DOMAIN q : q[i].cmd # "CLSE"
    BY <1>2, <1>q DEF InFlight
  <2>2. \A i \in DOMAIN r : r[i].cmd # "CLSE"
    BY ONLY <1>q, <1>2, <2>1, AppendElems
  <2> QED
    BY <1>2, <1>g, <2>1, <2>2 DEF InFlight
<1>3. ASSUME NEW p \in OutPacket, r = Append(q, p), p.cmd = "CLSE", ~svc[t].ended, svc'[t].ended,
             peer'[t] = peer[t]
      PROVE  CloseLastInv(t)'
  <2>1. ~peer[t].shut /\ \A i \in DOMAIN q : q[i].cmd # "CLSE"
    BY <1>3, <1>q DEF InFlight
  <2>2. /\ \A i \in DOMAIN r : r[i].cmd = "CLSE" => i = Len(r)
        /\ Len(r) \in DOMAIN r /\ r[Len(r)] = p
    BY ONLY <1>q, <1>3, <2>1, AppendElems
  <2> QED
    BY <1>3, <1>g, <2>1, <2>2 DEF InFlight
<1>4. CASE Unseen(t) \/ Drops(t)
  BY <1>4, <1>1, <1>h DEF Unseen, Drops, SvcStays, PeerStays
<1>5. ASSUME PushStep(t), ~svc[t].ended, ~svc'[t].ended, peer'[t] = peer[t]
      PROVE  CloseLastInv(t)'
  <2>1. PICK p : p = Data(svc[t].localId, dev[t].read + 1, dev'[t].read)
    OBVIOUS
  <2>2. p \in OutPacket /\ p.cmd # "CLSE" /\ r = Append(q, p)
    BY <1>5, <1>h, <2>1, PacketTypes DEF PushStep, Wrote, Data
  <2> QED
    BY <2>2, <1>2, <1>5
<1>6. CASE Pushing(t)
  BY <1>5, <1>6 DEF Pushing, PeerStays
<1>7. CASE HearsOkay(t)
  <2>1. CASE toPeer'[t] = toPeer[t]
    BY <1>1, <1>7, <1>h, <2>1 DEF HearsOkay, PeerStays
  <2>2. CASE PushStep(t)
    BY <1>5, <1>7, <2>2 DEF HearsOkay, PeerStays
  <2> QED
    BY <1>7, <2>1, <2>2 DEF HearsOkay
<1>8. CASE Wrote(t, Out("OKAY", svc[t].localId)) /\ ~svc[t].ended /\ ~svc'[t].ended
             /\ peer'[t] = peer[t]
  <2>1. PICK p : p = Out("OKAY", svc[t].localId)
    OBVIOUS
  <2>2. p \in OutPacket /\ p.cmd # "CLSE" /\ r = Append(q, p)
    BY <1>8, <1>h, <2>1, PacketTypes DEF Wrote, Out
  <2> QED
    BY <2>2, <1>2, <1>8
<1>9. CASE HearsWrite(t)
  BY <1>8, <1>9 DEF HearsWrite, SvcStays, PeerStays
<1>10. CASE Replies(t)
  BY <1>1, <1>8, <1>10, <1>h DEF Replies, PeerStays
<1>11. CASE Ends(t)
  <2>1. PICK p : p = Out("CLSE", CloseId(svc[t]))
    OBVIOUS
  <2>2. p \in OutPacket /\ p.cmd = "CLSE" /\ r = Append(q, p)
    BY <1>11, <1>h, <2>1, PacketTypes DEF Ends, Wrote, Out
  <2> QED
    BY <2>2, <1>3, <1>11 DEF Ends, PeerStays
<1>12. CASE RemoteSteps(t)
  <2>0. svc'[t].ended <=> svc[t].ended
    BY <1>12 DEF RemoteSteps, SvcStays
  <2>1. CASE PeerReceives(t)
    <3>1. /\ q # <<>> /\ r = Tail(q)
          /\ peer'[t].shut <=> peer[t].shut \/ Head(q).cmd = "CLSE"
      BY <2>1, <1>h, Received
    <3>2. ~peer[t].shut
      BY <3>1, <1>q
    <3>3. /\ r \in Seq(OutPacket) /\ Len(r) = Len(q) - 1
          /\ \A i \in DOMAIN r : i + 1 \in DOMAIN q /\ i + 1 > 1 /\ r[i] = q[i + 1] /\ i \in Nat
          /\ 1 \in DOMAIN q /\ Head(q) = q[1]
          /\ \A i \in DOMAIN q : i # 1 => i - 1 \in DOMAIN r /\ q[i] = r[i - 1]
      BY ONLY <1>q, <3>1, TailElems
    <3>4. \A i \in DOMAIN r : r[i].cmd = "CLSE" => i = Len(r)
      <4> SUFFICES ASSUME NEW i \in DOMAIN r, r[i].cmd = "CLSE" PROVE i = Len(r)
        OBVIOUS
      <4>1. i + 1 = Len(q) /\ i \in Nat /\ Len(q) \in Nat
        BY <1>q, <3>3
      <4> QED
        BY <4>1, <3>3
    <3>5. peer'[t].shut => r = <<>>
      <4> SUFFICES ASSUME Head(q).cmd = "CLSE" PROVE r = <<>>
        BY <3>1, <3>2
      <4>1. Len(q) = 1
        BY <1>q, <3>3
      <4>2. Len(r) = 0
        BY <3>3, <4>1
      <4> QED
        BY ONLY <3>3, <4>2
    <3>6. svc'[t].ended <=> peer'[t].shut \/ InFlight(r, "CLSE")
      <4>1. InFlight(q, "CLSE") <=> Head(q).cmd = "CLSE" \/ InFlight(r, "CLSE")
        BY ONLY <3>3 DEF InFlight
      <4> QED
        BY <2>0, <3>1, <3>2, <4>1, <1>q
    <3> QED
      BY <3>4, <3>5, <3>6, <1>g
  <2>2. CASE ~PeerReceives(t)
    <3>1. toPeer'[t] = toPeer[t] /\ peer'[t].shut = peer[t].shut
      BY <1>12, <2>2, Sent DEF RemoteSteps
    <3> QED
      BY <2>0, <3>1, <1>1, <1>h
  <2> QED
    BY <2>1, <2>2
<1> QED
  BY <1>4, <1>6, <1>7, <1>9, <1>10, <1>11, <1>12 DEF StreamStep

\* KnownInv and a step of the stream.
LEMMA KnownKept ==
    ASSUME IInv, IInv', TalkInv, NEW t \in Svcs, StreamStep(t)
    PROVE  KnownInv(t)'
<1>0. /\ toPeer[t] \in Seq(OutPacket) /\ toBridge[t] \in Seq(InPacket) /\ KnownInv(t)
      /\ svc[t].localId \in Ids \cup {None}
  BY TalkTypes DEF TalkInv, Service
<1>1. /\ svc[t].opened => svc'[t].opened
      /\ svc[t].opened \/ svc'[t].opened => svc'[t].localId = svc[t].localId
  BY DEF StreamStep, Unseen, Drops, Pushing, HearsOkay, HearsWrite, Ends, Replies, RemoteSteps,
         SvcStays, SvcKept
<1>2. ASSUME \A i \in DOMAIN toPeer'[t] :
                \/ \E j \in DOMAIN toPeer[t] : toPeer'[t][i] = toPeer[t][j]
                \/ toPeer'[t][i].cmd = "CLSE"
                \/ /\ toPeer'[t][i].cmd \in {"OKAY", "WRTE"} /\ svc'[t].opened
                   /\ toPeer'[t][i].cmd = "OKAY" => toPeer'[t][i].id = svc[t].localId,
             \A i \in DOMAIN toBridge'[t] :
                \/ \E j \in DOMAIN toBridge[t] : toBridge'[t][i] = toBridge[t][j]
                \/ toBridge'[t][i].cmd = "OPEN"
                \/ svc[t].opened /\ toBridge'[t][i].id = svc[t].localId,
             peer'[t].st = "open" =>
                \/ peer[t].st = "open" /\ peer'[t].id = peer[t].id
                \/ svc[t].opened /\ peer'[t].id = svc[t].localId
      PROVE  KnownInv(t)'
  <2>1. peer'[t].st = "open" => svc'[t].opened /\ peer'[t].id = svc'[t].localId
    BY <1>0, <1>1, <1>2 DEF KnownInv
  <2>2. ASSUME NEW i \in DOMAIN toPeer'[t]
        PROVE  /\ toPeer'[t][i].cmd \in {"OKAY", "WRTE"} => svc'[t].opened
               /\ toPeer'[t][i].cmd = "OKAY" => toPeer'[t][i].id = svc'[t].localId
    BY <1>0, <1>1, <1>2 DEF KnownInv
  <2>3. ASSUME NEW i \in DOMAIN toBridge'[t], toBridge'[t][i].cmd # "OPEN"
        PROVE  svc'[t].opened /\ toBridge'[t][i].id = svc'[t].localId
    BY <1>0, <1>1, <1>2, <2>3 DEF KnownInv
  <2> QED
    BY <2>1, <2>2, <2>3 DEF KnownInv
\* The parts of a step.
<1>a. ASSUME NEW p \in OutPacket, Wrote(t, p)
      PROVE  \A i \in DOMAIN toPeer'[t] : \/ \E j \in DOMAIN toPeer[t] : toPeer'[t][i] = toPeer[t][j]
                                          \/ toPeer'[t][i] = p
  <2>1. PICK q : q = toPeer[t]
    OBVIOUS
  <2>2. q \in Seq(OutPacket) /\ toPeer'[t] = Append(q, p)
    BY <2>1, <1>a, <1>0 DEF Wrote
  <2>3. \A i \in DOMAIN Append(q, p) : \/ \E j \in DOMAIN q : Append(q, p)[i] = q[j]
                                       \/ Append(q, p)[i] = p
    BY ONLY <1>a, <2>2, AppendElems
  <2> QED
    BY <2>1, <2>2, <2>3
<1>b. ASSUME NEW p \in InPacket, toBridge'[t] = Append(toBridge[t], p)
      PROVE  \A i \in DOMAIN toBridge'[t] :
                \/ \E j \in DOMAIN toBridge[t] : toBridge'[t][i] = toBridge[t][j]
                \/ toBridge'[t][i] = p
  <2>1. PICK q : q = toBridge[t]
    OBVIOUS
  <2>2. q \in Seq(InPacket) /\ toBridge'[t] = Append(q, p)
    BY <2>1, <1>b, <1>0
  <2>3. \A i \in DOMAIN Append(q, p) : \/ \E j \in DOMAIN q : Append(q, p)[i] = q[j]
                                       \/ Append(q, p)[i] = p
    BY ONLY <1>b, <2>2, AppendElems
  <2> QED
    BY <2>1, <2>2, <2>3
<1>c. ASSUME \/ toBridge'[t] = toBridge[t]
             \/ toBridge[t] # <<>> /\ toBridge'[t] = Tail(toBridge[t])
      PROVE  \A i \in DOMAIN toBridge'[t] :
                \E j \in DOMAIN toBridge[t] : toBridge'[t][i] = toBridge[t][j]
  <2>1. CASE toBridge[t] # <<>> /\ toBridge'[t] = Tail(toBridge[t])
    <3>1. PICK q : q = toBridge[t]
      OBVIOUS
    <3>2. q \in Seq(InPacket) /\ toBridge'[t] = Tail(q) /\ q # <<>>
      BY <3>1, <2>1, <1>0
    <3>3. \A i \in DOMAIN Tail(q) : \E j \in DOMAIN q : Tail(q)[i] = q[j]
      BY ONLY <3>2, TailElems
    <3> QED
      BY <3>1, <3>2, <3>3
  <2>2. CASE toBridge'[t] = toBridge[t]
    BY <2>2
  <2> QED
    BY <1>c, <2>1, <2>2
<1>3. CASE Unseen(t) \/ Drops(t)
  <2>1. /\ toPeer'[t] = toPeer[t] /\ peer'[t] = peer[t]
        /\ \/ toBridge'[t] = toBridge[t]
           \/ toBridge[t] # <<>> /\ toBridge'[t] = Tail(toBridge[t])
    BY <1>3 DEF Unseen, Drops, PeerStays
  <2> QED
    BY <2>1, <1>2, <1>c
<1>4. CASE Pushing(t) \/ HearsOkay(t)
  <2>1. /\ peer'[t] = peer[t]
        /\ \/ toBridge'[t] = toBridge[t]
           \/ toBridge[t] # <<>> /\ toBridge'[t] = Tail(toBridge[t])
        /\ toPeer'[t] = toPeer[t] \/ PushStep(t)
    BY <1>4 DEF Pushing, HearsOkay, Reads, Arrives, PeerStays
  <2>2. svc'[t].opened
    <3>1. CASE Pushing(t)
      BY <3>1 DEF Pushing, SvcKept
    <3>2. CASE HearsOkay(t)
      <4>1. toBridge[t] # <<>> /\ Head(toBridge[t]).cmd = "OKAY"
        BY <3>2 DEF HearsOkay, Reads, Arrives
      <4>2. 1 \in DOMAIN toBridge[t] /\ toBridge[t][1] = Head(toBridge[t])
        BY <4>1, <1>0
      <4> QED
        BY <1>0, <1>1, <4>1, <4>2 DEF KnownInv
    <3> QED
      BY <1>4, <3>1, <3>2
  <2>3. CASE toPeer'[t] = toPeer[t]
    BY <2>1, <2>3, <1>2, <1>c
  <2>4. CASE PushStep(t)
    <3>1. PICK p : p = Data(svc[t].localId, dev[t].read + 1, dev'[t].read)
      OBVIOUS
    <3>2. p \in OutPacket /\ p.cmd = "WRTE" /\ Wrote(t, p)
      BY <2>4, <3>1, PacketTypes DEF PushStep, Data
    <3>3. \A i \in DOMAIN toPeer'[t] : \/ \E j \in DOMAIN toPeer[t] : toPeer'[t][i] = toPeer[t][j]
                                       \/ toPeer'[t][i].cmd = "WRTE"
      BY <3>2, <1>a
    <3> QED
      BY <2>1, <2>2, <3>3, <1>2, <1>c
  <2> QED
    BY <2>1, <2>3, <2>4
<1>5. CASE HearsWrite(t) \/ Replies(t)
  <2>1. /\ peer'[t] = peer[t]
        /\ \/ toBridge'[t] = toBridge[t]
           \/ toBridge[t] # <<>> /\ toBridge'[t] = Tail(toBridge[t])
        /\ toPeer'[t] = toPeer[t] \/ Wrote(t, Out("OKAY", svc[t].localId))
    BY <1>5 DEF HearsWrite, Replies, Reads, Arrives, PeerStays
  <2>2. svc'[t].opened
    <3>1. CASE Replies(t)
      BY <3>1 DEF Replies
    <3>2. CASE HearsWrite(t)
      <4>1. toBridge[t] # <<>> /\ Head(toBridge[t]).cmd = "WRTE"
        BY <3>2 DEF HearsWrite, Reads, Arrives
      <4>2. 1 \in DOMAIN toBridge[t] /\ toBridge[t][1] = Head(toBridge[t])
        BY <4>1, <1>0
      <4> QED
        BY <1>0, <1>1, <4>1, <4>2 DEF KnownInv
    <3> QED
      BY <1>5, <3>1, <3>2
  <2>3. CASE toPeer'[t] = toPeer[t]
    BY <2>1, <2>3, <1>2, <1>c
  <2>4. CASE Wrote(t, Out("OKAY", svc[t].localId))
    <3>1. PICK p : p = Out("OKAY", svc[t].localId)
      OBVIOUS
    <3>2. p \in OutPacket /\ p.cmd = "OKAY" /\ p.id = svc[t].localId /\ Wrote(t, p)
      BY <2>4, <3>1, PacketTypes DEF Out
    <3>3. \A i \in DOMAIN toPeer'[t] : \/ \E j \in DOMAIN toPeer[t] : toPeer'[t][i] = toPeer[t][j]
                                       \/ toPeer'[t][i] = p
      BY <3>2, <1>a
    <3> HIDE <3>1
    <3> QED
      BY <2>1, <2>2, <3>2, <3>3, <1>2, <1>c
  <2> QED
    BY <2>1, <2>3, <2>4
<1>6. CASE Ends(t)
  <2>1. /\ peer'[t] = peer[t]
        /\ \/ toBridge'[t] = toBridge[t]
           \/ toBridge[t] # <<>> /\ toBridge'[t] = Tail(toBridge[t])
    BY <1>6 DEF Ends, Reads, Arrives, PeerStays
  <2>2. PICK p : p = Out("CLSE", CloseId(svc[t]))
    OBVIOUS
  <2>3. p \in OutPacket /\ p.cmd = "CLSE" /\ Wrote(t, p)
    BY <1>6, <2>2, PacketTypes DEF Ends, Out
  <2>4. \A i \in DOMAIN toPeer'[t] : \/ \E j \in DOMAIN toPeer[t] : toPeer'[t][i] = toPeer[t][j]
                                     \/ toPeer'[t][i].cmd = "CLSE"
    BY <2>3, <1>a
  <2> QED
    BY <2>1, <2>4, <1>2, <1>c
<1>7. CASE RemoteSteps(t) /\ PeerReceives(t)
  <2>1. PICK q, p : q = toPeer[t] /\ p = Head(q)
    OBVIOUS
  <2>2. /\ q # <<>> /\ toPeer'[t] = Tail(q) /\ toBridge'[t] = toBridge[t]
        /\ p \in OutPacket
        /\ p.cmd = "CLSE" => peer'[t].st = "closed"
        /\ p.cmd = "WRTE" => peer'[t].st = peer[t].st /\ peer'[t].id = peer[t].id
        /\ p.cmd = "OKAY" =>
             /\ peer[t].st = "opening" => peer'[t].id = p.id
             /\ peer[t].st # "opening" => peer'[t].st = peer[t].st /\ peer'[t].id = peer[t].id
    BY <1>7, <2>1, Received
  <2>3. /\ \A i \in DOMAIN Tail(q) : \E j \in DOMAIN q : Tail(q)[i] = q[j]
        /\ 1 \in DOMAIN q /\ q[1] = Head(q)
    <3>1. q \in Seq(OutPacket)
      BY <2>1, <1>0
    <3> QED
      BY ONLY <2>2, <3>1, TailElems
  <2>4. p.cmd = "OKAY" => svc[t].opened /\ p.id = svc[t].localId
    BY <2>1, <2>3, <1>0 DEF KnownInv
  <2>5. p.cmd \in {"OKAY", "WRTE", "CLSE"}
    BY <2>2 DEF OutPacket
  <2>6. peer'[t].st = "open" =>
                \/ peer[t].st = "open" /\ peer'[t].id = peer[t].id
                \/ svc[t].opened /\ peer'[t].id = svc[t].localId
    BY <2>2, <2>4, <2>5
  <2>7. \A i \in DOMAIN toPeer'[t] : \E j \in DOMAIN toPeer[t] : toPeer'[t][i] = toPeer[t][j]
    BY <2>1, <2>2, <2>3
  <2> QED
    BY <2>2, <2>6, <2>7, <1>2, <1>c
<1>8. CASE RemoteSteps(t) /\ ~PeerReceives(t)
  <2>1. PeerOpens(t) \/ PeerAcks(t) \/ PeerWrites(t) \/ PeerCloses(t)
    BY <1>8 DEF RemoteSteps
  <2>2. /\ toPeer'[t] = toPeer[t]
        /\ peer'[t].st = "open" => peer[t].st = "open" /\ peer'[t].id = peer[t].id
    BY <2>1, Sent
  <2>3. \/ \E e \in BOOLEAN : toBridge'[t] = Append(toBridge[t], In("OPEN", None, e))
        \/ /\ peer[t].st = "open"
           /\ \E c \in {"OKAY", "WRTE", "CLSE"} :
                  toBridge'[t] = Append(toBridge[t], In(c, peer[t].id, FALSE))
    BY <2>1, Sent
  <2>4. PICK p \in InPacket :
            /\ toBridge'[t] = Append(toBridge[t], p)
            /\ p.cmd = "OPEN" \/ (peer[t].st = "open" /\ p.id = peer[t].id)
    BY <2>3, PacketTypes DEF In
  <2>5. p.cmd = "OPEN" \/ (svc[t].opened /\ p.id = svc[t].localId)
    BY <2>4, <1>0 DEF KnownInv
  <2>6. \A i \in DOMAIN toBridge'[t] :
                \/ \E j \in DOMAIN toBridge[t] : toBridge'[t][i] = toBridge[t][j]
                \/ toBridge'[t][i] = p
    BY <2>4, <1>b
  <2> QED
    BY <2>2, <2>5, <2>6, <1>2
<1> QED
  BY <1>3, <1>4, <1>5, <1>6, <1>7, <1>8 DEF StreamStep

\* On a new connection nothing was said.
LEMMA InitTalk == Init => TalkInv
BY DEF Init, TalkInv, CloseLastInv, KnownInv, OpenedInv, InFlight

\* TalkInv is inductive under IInv and MapInv.
LEMMA TalkNext == Conforms /\ IInv /\ IInv' /\ MapInv /\ TalkInv /\ [Next]_vars => TalkInv'
<1> SUFFICES ASSUME Conforms, IInv, IInv', MapInv, TalkInv, [Next]_vars, NEW t \in Svcs
             PROVE  CloseLastInv(t)' /\ KnownInv(t)' /\ OpenedInv(t)'
  BY DEF TalkInv
<1>1. OpenedInv(t)' /\ StreamStep(t)
  BY TalkSteps
<1> QED
  BY <1>1, CloseLastKept, KnownKept

\* With a remote that keeps to the protocol TalkInv always holds.
LEMMA TalkInvariance == ASSUME Conforms PROVE Spec => []TalkInv
<1>1. IInv /\ IInv' /\ MapInv /\ TalkInv /\ [Next]_vars => TalkInv'
  BY TalkNext
<1>2. Spec => []MapInv
  BY MapInvariance DEF Conforms
<1> QED
  BY <1>1, <1>2, InitTalk, Invariance, PTL DEF Spec

\* Service.end and Socket.write: with a remote that keeps to the protocol, the
\* A_CLSE of a service is written when it ends, and nothing follows it.
THEOREM ClosedLast == ASSUME Conforms PROVE Spec => []CloseIsLast
<1>1. TalkInv => CloseIsLast
  BY DEF TalkInv, CloseLastInv, CloseIsLast
<1> QED
  BY <1>1, TalkInvariance, PTL

(***************************************************************************)
(* Packets counted.                                                        *)
(***************************************************************************)
Num(q, cmd) == Cardinality({i \in DOMAIN q : q[i].cmd = cmd})

\* A count is a number, zero if there is no such packet.
LEMMA NumType ==
    ASSUME NEW S, NEW q \in Seq(S), NEW c
    PROVE  /\ IsFiniteSet({i \in DOMAIN q : q[i].cmd = c}) /\ Num(q, c) \in Nat
           /\ Num(q, c) = 0 <=> \A i \in DOMAIN q : q[i].cmd # c
<1> DEFINE A == {i \in DOMAIN q : q[i].cmd = c}
<1>1. IsFiniteSet(1 .. Len(q)) /\ A \in SUBSET (1 .. Len(q))
  BY FS_Interval
<1>2. IsFiniteSet(A)
  BY <1>1, FS_Subset
<1>3. Cardinality(A) \in Nat /\ (Cardinality(A) = 0 <=> A = {})
  BY <1>2, FS_CardinalityType, FS_EmptySet
<1>4. A = {} <=> \A i \in DOMAIN q : q[i].cmd # c
  OBVIOUS
<1> QED
  BY <1>2, <1>3, <1>4 DEF Num

\* One more packet.
LEMMA NumAppend ==
    ASSUME NEW S, NEW q \in Seq(S), NEW p \in S, NEW c
    PROVE  Num(Append(q, p), c) = IF p.cmd = c THEN Num(q, c) + 1 ELSE Num(q, c)
<1> DEFINE A == {i \in DOMAIN q : q[i].cmd = c}
           n == Len(q) + 1
           B == {i \in DOMAIN Append(q, p) : Append(q, p)[i].cmd = c}
<1>1. IsFiniteSet(A)
  BY NumType
<1>2. n \notin A
  BY AppendElems
<1>3. B = IF p.cmd = c THEN A \cup {n} ELSE A
  BY AppendElems
<1>4. Cardinality(A \cup {n}) = Cardinality(A) + 1
  BY <1>1, <1>2, FS_AddElement
<1> QED
  BY <1>3, <1>4 DEF Num

\* One packet less.
LEMMA NumTail ==
    ASSUME NEW S, NEW q \in Seq(S), q # <<>>, NEW c
    PROVE  Num(q, c) = IF Head(q).cmd = c THEN Num(Tail(q), c) + 1 ELSE Num(Tail(q), c)
<1> DEFINE A == {i \in DOMAIN Tail(q) : Tail(q)[i].cmd = c}
           B == {i \in DOMAIN q : q[i].cmd = c}
           C == {i \in B : i # 1}
           f == [i \in A |-> i + 1]
<1>1. /\ Tail(q) \in Seq(S) /\ DOMAIN q = 1 .. Len(q) /\ DOMAIN Tail(q) = 1 .. Len(q) - 1
      /\ \A i \in DOMAIN Tail(q) : i + 1 \in DOMAIN q /\ i + 1 > 1 /\ Tail(q)[i] = q[i + 1]
      /\ 1 \in DOMAIN q /\ Head(q) = q[1]
      /\ \A i \in DOMAIN q : i # 1 => i - 1 \in DOMAIN Tail(q) /\ q[i] = Tail(q)[i - 1]
      /\ Len(q) \in Nat
  BY TailElems
<1>2. IsFiniteSet(A) /\ IsFiniteSet(B)
  <2>1. IsFiniteSet(B)
    BY NumType
  <2>2. IsFiniteSet(A)
    <3>1. PICK r : r = Tail(q)
      OBVIOUS
    <3>2. r \in Seq(S)
      BY <1>1, <3>1
    <3>3. IsFiniteSet({i \in DOMAIN r : r[i].cmd = c})
      BY ONLY <3>2, NumType
    <3> QED
      BY <3>1, <3>3
  <2> QED
    BY <2>1, <2>2
<1>3. f \in Bijection(A, C)
  <2>1. f \in [A -> C]
    BY <1>1
  <2>2. \A x, y \in A : f[x] = f[y] => x = y
    BY <1>1
  <2>3. \A j \in C : \E i \in A : f[i] = j
    <3> SUFFICES ASSUME NEW j \in C PROVE \E i \in A : f[i] = j
      OBVIOUS
    <3>1. j - 1 \in A /\ j \in Int
      BY <1>1
    <3> WITNESS j - 1 \in A
    <3> QED
      BY <3>1
  <2> QED
    BY <2>1, <2>2, <2>3 DEF Bijection, Injection, Surjection, IsInjective
<1>4. Cardinality(C) = Cardinality(A) /\ IsFiniteSet(C)
  <2>1. ExistsBijection(A, C)
    BY <1>3 DEF ExistsBijection
  <2> HIDE DEF A, C
  <2> QED
    BY <1>2, <2>1, FS_Bijection
<1>5. B = IF Head(q).cmd = c THEN C \cup {1} ELSE C
  BY <1>1
<1>6. Cardinality(C \cup {1}) = Cardinality(C) + 1
  <2>1. 1 \notin C
    OBVIOUS
  <2> QED
    BY <1>4, <2>1, FS_AddElement
<1> QED
  BY <1>4, <1>5, <1>6 DEF Num

(***************************************************************************)
(* Flow control.                                                           *)
(***************************************************************************)
\* What stands for the one A_WRTE to the remote that is not acknowledged.
Tokens(s) ==
    Num(toPeer[s], "WRTE") + Num(toBridge[s], "OKAY") + (IF peer[s].owes THEN 1 ELSE 0)

\* An A_WRTE in flight carries the bytes after those received, up to the last
\* one read.
DataNext(q, got, read) ==
    \A i \in DOMAIN q : q[i].cmd = "WRTE" =>
        q[i].lo = got + 1 /\ q[i].hi = read /\ read \in got + 1 .. got + MaxPayload

\* To the remote: one token at most, none while the service may push; unless
\* the A_WRTE is in flight or came too late, the remote has all that was read.
ToRemote(s) ==
    /\ Tokens(s) <= 1
    /\ ~svc[s].ended /\ ~svc[s].needAck => Tokens(s) = 0
    /\ DataNext(toPeer[s], peer[s].got, dev[s].read)
    /\ (\/ peer[s].st # "closed" /\ Num(toPeer[s], "WRTE") = 0
        \/ peer[s].owes \/ Num(toBridge[s], "OKAY") # 0
        \/ ~svc[s].ended /\ ~svc[s].needAck)
       => peer[s].got = dev[s].read
    /\ peer[s].owes => peer[s].st \notin {"idle", "opening"}

\* From the remote: its write is in flight, or was accepted and the A_OKAY is
\* in flight, or the remote knows.  The first A_OKAY opens the stream.
FromRemote(s) ==
    /\ dev[s].accepted + Num(toBridge[s], "WRTE") <= peer[s].written
    /\ peer[s].st \in {"idle", "opening"} =>
         peer[s].written = 0 /\ ~peer[s].waiting /\ Num(toPeer[s], "OKAY") <= 1
    /\ peer[s].st = "open" =>
         /\ Num(toPeer[s], "OKAY") + Num(toBridge[s], "WRTE") <= 1
         /\ Num(toBridge[s], "WRTE") = 1 => dev[s].accepted + 1 = peer[s].written
         /\ Num(toPeer[s], "OKAY") = 1 => dev[s].accepted = peer[s].written
         /\ ~peer[s].waiting => /\ Num(toPeer[s], "OKAY") + Num(toBridge[s], "WRTE") = 0
                                /\ dev[s].accepted = peer[s].written
    /\ peer[s].st = "opening" /\ svc[s].opened
         /\ (~svc[s].ended \/ Num(toPeer[s], "WRTE") # 0)
         => toPeer[s] # <<>> /\ Head(toPeer[s]).cmd = "OKAY"

FlowInv == \A s \in Svcs : ToRemote(s) /\ FromRemote(s)

\* On a new connection nothing is in flight.
LEMMA InitFlow == Init => FlowInv
<1> SUFFICES ASSUME Init, NEW s \in Svcs PROVE ToRemote(s) /\ FromRemote(s)
  BY DEF FlowInv
<1>1. toPeer[s] = <<>> /\ toBridge[s] = <<>>
  BY DEF Init
<1>2. \A c : Num(<<>>, c) = 0
  BY FS_EmptySet DEF Num
<1>3. /\ \A c : Num(toPeer[s], c) = 0 /\ Num(toBridge[s], c) = 0
      /\ ~peer[s].owes /\ peer[s].got = 0 /\ peer[s].st = "idle" /\ peer[s].written = 0
      /\ ~peer[s].waiting /\ dev[s].read = 0 /\ dev[s].accepted = 0
      /\ DataNext(toPeer[s], 0, 0)
  BY <1>1, <1>2 DEF Init, DataNext
<1>4. Tokens(s) = 0
  BY <1>3 DEF Tokens
<1> QED
  BY <1>3, <1>4 DEF ToRemote, FromRemote

\* Queues that grow and shrink.
LEMMA QueueWrote ==
    ASSUME NEW q \in Seq(OutPacket), NEW p \in OutPacket
    PROVE  /\ \A c : Num(Append(q, p), c) = IF p.cmd = c THEN Num(q, c) + 1 ELSE Num(q, c)
           /\ Append(q, p) # <<>> /\ (q # <<>> => Head(Append(q, p)) = Head(q))
           /\ q = <<>> => Head(Append(q, p)) = p
           /\ \A g, r : p.cmd # "WRTE" /\ DataNext(q, g, r) => DataNext(Append(q, p), g, r)
           /\ \A g, r : /\ \A i \in DOMAIN q : q[i].cmd # "WRTE"
                        /\ p.lo = g + 1 /\ p.hi = r /\ r \in g + 1 .. g + MaxPayload
                        => DataNext(Append(q, p), g, r)
<1>1. \A c : Num(Append(q, p), c) = IF p.cmd = c THEN Num(q, c) + 1 ELSE Num(q, c)
  BY NumAppend
<1>2. Append(q, p) # <<>> /\ (q # <<>> => Head(Append(q, p)) = Head(q))
        /\ (q = <<>> => Head(Append(q, p)) = p)
  OBVIOUS
<1>3. \A g, r : p.cmd # "WRTE" /\ DataNext(q, g, r) => DataNext(Append(q, p), g, r)
  BY AppendElems DEF DataNext
<1>4. ASSUME NEW g, NEW r, \A i \in DOMAIN q : q[i].cmd # "WRTE",
             p.lo = g + 1, p.hi = r, r \in g + 1 .. g + MaxPayload
      PROVE  DataNext(Append(q, p), g, r)
  BY <1>4, AppendElems DEF DataNext
<1> QED
  BY <1>1, <1>2, <1>3, <1>4

\* The packet that is read is no longer counted.
LEMMA QueueRead ==
    ASSUME NEW q \in Seq(OutPacket), q # <<>>
    PROVE  /\ \A c : Num(q, c) = IF Head(q).cmd = c THEN Num(Tail(q), c) + 1 ELSE Num(Tail(q), c)
           /\ \A g, r : DataNext(q, g, r) => DataNext(Tail(q), g, r)
           /\ \A g, r : DataNext(q, g, r) /\ Head(q).cmd = "WRTE" =>
                 Head(q).lo = g + 1 /\ Head(q).hi = r /\ r \in g + 1 .. g + MaxPayload
           /\ \A g, r : (\A i \in DOMAIN Tail(q) : Tail(q)[i].cmd # "WRTE") => DataNext(Tail(q), g, r)
<1>1. \A c : Num(q, c) = IF Head(q).cmd = c THEN Num(Tail(q), c) + 1 ELSE Num(Tail(q), c)
  BY NumTail
<1>2. \A g, r : DataNext(q, g, r) => DataNext(Tail(q), g, r)
  BY TailElems DEF DataNext
<1>3. \A g, r : DataNext(q, g, r) /\ Head(q).cmd = "WRTE" =>
                 Head(q).lo = g + 1 /\ Head(q).hi = r /\ r \in g + 1 .. g + MaxPayload
  BY TailElems DEF DataNext
<1>4. \A g, r : (\A i \in DOMAIN Tail(q) : Tail(q)[i].cmd # "WRTE") => DataNext(Tail(q), g, r)
  BY DEF DataNext
<1> QED
  BY <1>1, <1>2, <1>3, <1>4

\* The numbers of the packets of a stream, and their types.
LEMMA FlowTypes ==
    ASSUME IInv, NEW t \in Svcs
    PROVE  /\ toPeer[t] \in Seq(OutPacket) /\ toBridge[t] \in Seq(InPacket)
           /\ \A c : Num(toPeer[t], c) \in Nat /\ Num(toBridge[t], c) \in Nat
           /\ dev[t].accepted \in Nat /\ dev[t].read \in Nat /\ dev[t].sent \in Nat
           /\ peer[t].written \in Nat /\ peer[t].got \in Nat
           /\ peer[t].st \in {"idle", "opening", "open", "closed"}
           /\ peer[t].owes \in BOOLEAN /\ peer[t].waiting \in BOOLEAN
           /\ peer[t].st = "idle" => ~svc[t].opened
           /\ \A c : Num(toPeer[t], c) = 0 <=> \A i \in DOMAIN toPeer[t] : toPeer[t][i].cmd # c
           /\ \A c : Num(toBridge[t], c) = 0 <=> \A i \in DOMAIN toBridge[t] : toBridge[t][i].cmd # c
<1>1. toPeer[t] \in Seq(OutPacket) /\ toBridge[t] \in Seq(InPacket)
        /\ dev[t] \in Transport /\ peer[t] \in Peer
  BY TalkTypes
<1>2. \A c : Num(toPeer[t], c) \in Nat /\ Num(toBridge[t], c) \in Nat
  BY <1>1, NumType
<1>3. \A c : Num(toPeer[t], c) = 0 <=> \A i \in DOMAIN toPeer[t] : toPeer[t][i].cmd # c
  BY <1>1, NumType
<1>4. \A c : Num(toBridge[t], c) = 0 <=> \A i \in DOMAIN toBridge[t] : toBridge[t][i].cmd # c
  BY <1>1, NumType
<1>5. peer[t].st = "idle" => ~svc[t].opened
  BY TalkTypes DEF IInv, OpenInv
<1>6. dev[t].accepted \in Nat /\ dev[t].read \in Nat /\ dev[t].sent \in Nat
  BY <1>1 DEF Transport
<1>7. /\ peer[t].written \in Nat /\ peer[t].got \in Nat
      /\ peer[t].st \in {"idle", "opening", "open", "closed"}
      /\ peer[t].owes \in BOOLEAN /\ peer[t].waiting \in BOOLEAN
  BY <1>1 DEF Peer
<1> QED
  BY <1>1, <1>2, <1>3, <1>4, <1>5, <1>6, <1>7

\* The counts after a packet from the remote is read.
LEMMA CountsRead ==
    ASSUME IInv, NEW t \in Svcs, toBridge[t] # <<>>, toBridge'[t] = Tail(toBridge[t])
    PROVE  /\ \A c : Num(toBridge[t], c) = IF Head(toBridge[t]).cmd = c
                                           THEN Num(toBridge'[t], c) + 1 ELSE Num(toBridge'[t], c)
           /\ \A c : Num(toBridge'[t], c) \in Nat
<1>1. PICK q : q = toBridge[t]
  OBVIOUS
<1>2. q \in Seq(InPacket) /\ q # <<>>
  BY <1>1, TalkTypes
<1>3. Tail(q) \in Seq(InPacket)
  BY ONLY <1>2
<1>4. \A c : Num(q, c) = IF Head(q).cmd = c THEN Num(Tail(q), c) + 1 ELSE Num(Tail(q), c)
  BY ONLY <1>2, NumTail
<1>5. \A c : Num(Tail(q), c) \in Nat
  BY ONLY <1>3, NumType
<1> QED
  BY <1>1, <1>4, <1>5

\* A packet the remote sends.
LEMMA CountsSent ==
    ASSUME IInv, NEW t \in Svcs, NEW p \in InPacket, toBridge'[t] = Append(toBridge[t], p)
    PROVE  \A c : Num(toBridge'[t], c) = IF p.cmd = c THEN Num(toBridge[t], c) + 1
                                         ELSE Num(toBridge[t], c)
<1>1. PICK q : q = toBridge[t]
  OBVIOUS
<1>2. q \in Seq(InPacket)
  BY <1>1, TalkTypes
<1>3. \A c : Num(Append(q, p), c) = IF p.cmd = c THEN Num(q, c) + 1 ELSE Num(q, c)
  BY ONLY <1>2, p \in InPacket, NumAppend
<1> QED
  BY <1>1, <1>3

\* A packet to the remote that is not an A_WRTE.
LEMMA CountsWrote ==
    ASSUME IInv, NEW t \in Svcs, NEW p \in OutPacket, Wrote(t, p)
    PROVE  /\ \A c : Num(toPeer'[t], c) = IF p.cmd = c THEN Num(toPeer[t], c) + 1
                                          ELSE Num(toPeer[t], c)
           /\ toPeer'[t] # <<>> /\ (toPeer[t] # <<>> => Head(toPeer'[t]) = Head(toPeer[t]))
           /\ toPeer[t] = <<>> => Head(toPeer'[t]) = p
           /\ \A g, r : p.cmd # "WRTE" /\ DataNext(toPeer[t], g, r) => DataNext(toPeer'[t], g, r)
           /\ \A g, r : /\ \A i \in DOMAIN toPeer[t] : toPeer[t][i].cmd # "WRTE"
                        /\ p.lo = g + 1 /\ p.hi = r /\ r \in g + 1 .. g + MaxPayload
                        => DataNext(toPeer'[t], g, r)
<1>1. PICK q : q = toPeer[t]
  OBVIOUS
<1>2. q \in Seq(OutPacket) /\ toPeer'[t] = Append(q, p)
  BY <1>1, TalkTypes DEF Wrote
<1> QED
  BY <1>1, <1>2, QueueWrote

\* Nothing of the stream moves but what the remote sent and is read.
LEMMA FlowQuiet ==
    ASSUME IInv, FlowInv, NEW t \in Svcs, SvcStays(t), DevStays(t), PeerStays(t),
           toPeer'[t] = toPeer[t], toBridge'[t] = toBridge[t]
    PROVE  ToRemote(t)' /\ FromRemote(t)'
BY DEF FlowInv, ToRemote, FromRemote, Tokens, SvcStays, SvcKept, DevStays, PeerStays

\* A packet that is dropped was an A_OPEN, or the service has ended.
LEMMA FlowDrops ==
    ASSUME IInv, TalkInv, FlowInv, NEW t \in Svcs, Drops(t)
    PROVE  ToRemote(t)' /\ FromRemote(t)'
<1>0. /\ toBridge[t] # <<>> /\ toBridge'[t] = Tail(toBridge[t]) /\ toPeer'[t] = toPeer[t]
      /\ svc'[t].opened <=> svc[t].opened
      /\ svc'[t].ended <=> svc[t].ended
      /\ svc'[t].needAck <=> svc[t].needAck
      /\ dev'[t].read = dev[t].read /\ dev'[t].accepted = dev[t].accepted /\ peer'[t] = peer[t]
      /\ Head(toBridge[t]).cmd = "OPEN" \/ svc[t].ended
  BY DEF Drops, SvcStays, SvcKept, DevStays, PeerStays, Arrives
<1>1. PICK b : b = Head(toBridge[t]).cmd
  OBVIOUS
<1>2. /\ \A c : Num(toBridge[t], c) = IF b = c THEN Num(toBridge'[t], c) + 1
                                      ELSE Num(toBridge'[t], c)
      /\ \A c : Num(toBridge'[t], c) \in Nat
  BY <1>0, <1>1, CountsRead
<1>3. ToRemote(t) /\ FromRemote(t)
  BY DEF FlowInv
<1>4. /\ Num(toPeer[t], "WRTE") \in Nat /\ Num(toPeer[t], "OKAY") \in Nat
      /\ dev[t].accepted \in Nat /\ peer[t].written \in Nat
  BY FlowTypes
<1>5. /\ Num(toBridge'[t], "OKAY") <= Num(toBridge[t], "OKAY")
      /\ Num(toBridge'[t], "WRTE") <= Num(toBridge[t], "WRTE")
      /\ Num(toBridge'[t], "OKAY") \in Nat /\ Num(toBridge'[t], "WRTE") \in Nat
      /\ Num(toBridge[t], "OKAY") \in Nat /\ Num(toBridge[t], "WRTE") \in Nat
      /\ ~svc[t].ended => Num(toBridge'[t], "OKAY") = Num(toBridge[t], "OKAY")
  BY <1>0, <1>1, <1>2
<1>6. ToRemote(t)'
  <2>1. Tokens(t)' <= Tokens(t) /\ (~svc[t].ended => Tokens(t)' = Tokens(t)) /\ Tokens(t)' \in Nat
    BY <1>0, <1>4, <1>5 DEF Tokens
  <2>2. Tokens(t) \in Nat
    BY <1>4, <1>5 DEF Tokens
  <2> QED
    BY <1>0, <1>3, <1>5, <2>1, <2>2 DEF ToRemote
<1>7. FromRemote(t)'
  BY <1>0, <1>3, <1>4, <1>5 DEF FromRemote
<1> QED
  BY <1>6, <1>7

\* A push: the token is there now, and carries the next bytes.
LEMMA FlowPushes ==
    ASSUME IInv, IInv', FlowInv, NEW t \in Svcs, PushStep(t),
           ~svc[t].ended, ~svc'[t].ended, svc'[t].needAck, svc[t].opened, SvcKept(t),
           peer'[t] = peer[t], dev'[t].accepted = dev[t].accepted,
           \/ toBridge'[t] = toBridge[t] /\ ~svc[t].needAck
           \/ Reads(t, "OKAY")
    PROVE  ToRemote(t)' /\ FromRemote(t)'
<1>1. PICK p : p = Data(svc[t].localId, dev[t].read + 1, dev'[t].read)
  OBVIOUS
<1>2. /\ p \in OutPacket /\ p.cmd = "WRTE" /\ Wrote(t, p)
      /\ p.lo = dev[t].read + 1 /\ p.hi = dev'[t].read
      /\ dev'[t].read \in dev[t].read + 1 .. dev[t].read + MaxPayload
  BY <1>1, PacketTypes DEF PushStep, Data
<1>3. ToRemote(t) /\ FromRemote(t)
  BY DEF FlowInv
<1>4. /\ Num(toPeer[t], "WRTE") \in Nat /\ Num(toPeer[t], "OKAY") \in Nat
      /\ Num(toBridge[t], "WRTE") \in Nat /\ Num(toBridge[t], "OKAY") \in Nat
      /\ dev[t].accepted \in Nat /\ peer[t].written \in Nat
      /\ Num(toPeer[t], "WRTE") = 0 => \A i \in DOMAIN toPeer[t] : toPeer[t][i].cmd # "WRTE"
  BY FlowTypes
<1>5. /\ Num(toPeer'[t], "WRTE") = Num(toPeer[t], "WRTE") + 1
      /\ Num(toPeer'[t], "OKAY") = Num(toPeer[t], "OKAY")
      /\ toPeer'[t] # <<>> /\ (toPeer[t] # <<>> => Head(toPeer'[t]) = Head(toPeer[t]))
      /\ \A g, r : /\ \A i \in DOMAIN toPeer[t] : toPeer[t][i].cmd # "WRTE"
                   /\ p.lo = g + 1 /\ p.hi = r /\ r \in g + 1 .. g + MaxPayload
                   => DataNext(toPeer'[t], g, r)
  BY <1>2, CountsWrote, SMTT(30)
<1>6. /\ Num(toBridge'[t], "OKAY") \in Nat
      /\ Num(toBridge'[t], "WRTE") = Num(toBridge[t], "WRTE")
      /\ Num(toPeer[t], "WRTE") = 0 /\ Num(toBridge'[t], "OKAY") = 0 /\ ~peer[t].owes
      /\ peer[t].got = dev[t].read
  <2>1. CASE toBridge'[t] = toBridge[t] /\ ~svc[t].needAck
    <3>1. Tokens(t) = 0 /\ peer[t].got = dev[t].read
      BY <2>1, <1>3 DEF ToRemote
    <3> QED
      BY <2>1, <3>1, <1>4 DEF Tokens
  <2>2. CASE Reads(t, "OKAY")
    <3>1. toBridge[t] # <<>> /\ toBridge'[t] = Tail(toBridge[t]) /\ Head(toBridge[t]).cmd = "OKAY"
      BY <2>2 DEF Reads, Arrives
    <3>2. /\ Num(toBridge[t], "OKAY") = Num(toBridge'[t], "OKAY") + 1
          /\ Num(toBridge[t], "WRTE") = Num(toBridge'[t], "WRTE")
          /\ Num(toBridge'[t], "OKAY") \in Nat
      BY <3>1, CountsRead
    <3>3. Tokens(t) <= 1 /\ peer[t].got = dev[t].read
      BY <3>2, <1>3 DEF ToRemote
    <3> QED
      BY <3>2, <3>3, <1>4 DEF Tokens
  <2> QED
    BY <2>1, <2>2
<1>7. DataNext(toPeer'[t], peer[t].got, dev'[t].read)
  BY <1>2, <1>4, <1>5, <1>6
<1>8. ToRemote(t)'
  <2>1. Tokens(t)' = 1
    BY <1>5, <1>6 DEF Tokens
  <2> QED
    BY <1>3, <1>5, <1>6, <1>7, <2>1 DEF ToRemote
<1>9. FromRemote(t)'
  BY <1>3, <1>4, <1>5, <1>6 DEF FromRemote, SvcKept
<1> QED
  BY <1>8, <1>9

\* An A_OKAY is the token: the next push may take its place.
LEMMA FlowOkay ==
    ASSUME IInv, IInv', TalkInv, FlowInv, NEW t \in Svcs, HearsOkay(t)
    PROVE  ToRemote(t)' /\ FromRemote(t)'
<1>0. /\ toBridge[t] # <<>> /\ toBridge'[t] = Tail(toBridge[t]) /\ Head(toBridge[t]).cmd = "OKAY"
      /\ ~svc[t].ended /\ ~svc'[t].ended /\ peer'[t] = peer[t]
      /\ dev'[t].accepted = dev[t].accepted /\ Reads(t, "OKAY") /\ SvcKept(t)
  BY DEF HearsOkay, Reads, Arrives, PeerStays
<1>1. svc[t].opened
  <2>1. toBridge[t] \in Seq(InPacket)
    BY TalkTypes
  <2>2. 1 \in DOMAIN toBridge[t] /\ toBridge[t][1].cmd = "OKAY"
    BY ONLY <1>0, <2>1
  <2> QED
    BY <2>2 DEF TalkInv, KnownInv
<1>2. CASE svc'[t].needAck /\ PushStep(t)
  BY <1>0, <1>1, <1>2, FlowPushes
<1>3. CASE ~svc'[t].needAck /\ dev'[t].read = dev[t].read /\ toPeer'[t] = toPeer[t]
  <2>1. /\ Num(toBridge[t], "OKAY") = Num(toBridge'[t], "OKAY") + 1
        /\ Num(toBridge[t], "WRTE") = Num(toBridge'[t], "WRTE")
        /\ Num(toBridge'[t], "OKAY") \in Nat
    BY <1>0, CountsRead
  <2>2. /\ Num(toPeer[t], "WRTE") \in Nat /\ Num(toPeer[t], "OKAY") \in Nat
    BY FlowTypes
  <2>3. ToRemote(t) /\ FromRemote(t)
    BY DEF FlowInv
  <2>4. ToRemote(t)'
    <3>1. Tokens(t) <= 1 /\ peer[t].got = dev[t].read
      BY <2>1, <2>3 DEF ToRemote
    <3>2. Tokens(t)' = 0
      BY <1>0, <1>3, <2>1, <2>2, <3>1 DEF Tokens
    <3> QED
      BY <1>0, <1>3, <2>3, <3>1, <3>2 DEF ToRemote
  <2>5. FromRemote(t)'
    BY <1>0, <1>3, <2>1, <2>3 DEF FromRemote, SvcKept
  <2> QED
    BY <2>4, <2>5
<1> QED
  BY <1>2, <1>3 DEF HearsOkay

\* An A_WRTE is passed on and becomes an A_OKAY.
LEMMA FlowWrite ==
    ASSUME IInv, TalkInv, FlowInv, NEW t \in Svcs, HearsWrite(t)
    PROVE  ToRemote(t)' /\ FromRemote(t)'
<1>0. /\ toBridge[t] # <<>> /\ toBridge'[t] = Tail(toBridge[t]) /\ Head(toBridge[t]).cmd = "WRTE"
      /\ ~svc[t].ended /\ peer'[t] = peer[t]
      /\ svc'[t].opened <=> svc[t].opened
      /\ svc'[t].ended <=> svc[t].ended
      /\ svc'[t].needAck <=> svc[t].needAck
      /\ dev'[t].read = dev[t].read /\ dev'[t].accepted = dev[t].accepted + 1
  BY DEF HearsWrite, Reads, Arrives, SvcStays, SvcKept, PeerStays
<1>1. PICK p : p = Out("OKAY", svc[t].localId)
  OBVIOUS
<1>2. p \in OutPacket /\ p.cmd = "OKAY" /\ Wrote(t, p)
  BY <1>1, PacketTypes DEF HearsWrite, Out
<1>3. ToRemote(t) /\ FromRemote(t)
  BY DEF FlowInv
<1>4. /\ Num(toPeer[t], "WRTE") \in Nat /\ Num(toPeer[t], "OKAY") \in Nat
      /\ Num(toBridge[t], "WRTE") \in Nat /\ Num(toBridge[t], "OKAY") \in Nat
      /\ dev[t].accepted \in Nat /\ peer[t].written \in Nat
      /\ peer[t].st \in {"idle", "opening", "open", "closed"}
  BY FlowTypes
<1>5. /\ Num(toPeer'[t], "OKAY") = Num(toPeer[t], "OKAY") + 1
      /\ Num(toPeer'[t], "WRTE") = Num(toPeer[t], "WRTE")
      /\ toPeer'[t] # <<>> /\ (toPeer[t] # <<>> => Head(toPeer'[t]) = Head(toPeer[t]))
      /\ \A g, r : DataNext(toPeer[t], g, r) => DataNext(toPeer'[t], g, r)
  BY <1>2, CountsWrote
<1>6. /\ Num(toBridge[t], "WRTE") = Num(toBridge'[t], "WRTE") + 1
      /\ Num(toBridge[t], "OKAY") = Num(toBridge'[t], "OKAY")
      /\ Num(toBridge'[t], "WRTE") \in Nat
  BY <1>0, CountsRead
<1>7. ToRemote(t)'
  <2>1. Tokens(t)' = Tokens(t)
    BY <1>0, <1>5, <1>6 DEF Tokens
  <2> QED
    BY <1>0, <1>3, <1>5, <1>6, <2>1 DEF ToRemote
<1>8. peer[t].st \notin {"idle", "opening"}
  BY <1>3, <1>4, <1>6 DEF FromRemote
<1>9. FromRemote(t)'
  <2>1. dev'[t].accepted + Num(toBridge'[t], "WRTE") <= peer'[t].written
    BY <1>0, <1>3, <1>4, <1>6, SMTT(30) DEF FromRemote
  <2>2. CASE peer[t].st = "open"
    <3>1. /\ Num(toPeer[t], "OKAY") = 0 /\ Num(toBridge'[t], "WRTE") = 0
          /\ dev[t].accepted + 1 = peer[t].written /\ peer[t].waiting
      BY <2>2, <1>3, <1>4, <1>6 DEF FromRemote
    <3> QED
      BY <2>1, <2>2, <3>1, <1>0, <1>5 DEF FromRemote
  <2>3. CASE peer[t].st # "open"
    BY <2>1, <2>3, <1>0, <1>8 DEF FromRemote
  <2> QED
    BY <2>2, <2>3
<1> QED
  BY <1>7, <1>9

\* A_CLSE is no token; nothing is pushed after it.
LEMMA FlowEnds ==
    ASSUME IInv, TalkInv, FlowInv, NEW t \in Svcs, Ends(t)
    PROVE  ToRemote(t)' /\ FromRemote(t)'
<1>0. /\ ~svc[t].ended /\ svc'[t].ended /\ peer'[t] = peer[t]
      /\ svc'[t].opened <=> svc[t].opened
      /\ svc'[t].needAck <=> svc[t].needAck
      /\ dev'[t].read = dev[t].read /\ dev'[t].accepted = dev[t].accepted
  BY DEF Ends, SvcKept, DevStays, PeerStays
<1>1. PICK p : p = Out("CLSE", CloseId(svc[t]))
  OBVIOUS
<1>2. p \in OutPacket /\ p.cmd = "CLSE" /\ Wrote(t, p)
  BY <1>1, PacketTypes DEF Ends, Out
<1>3. ToRemote(t) /\ FromRemote(t)
  BY DEF FlowInv
<1>4. /\ Num(toPeer[t], "WRTE") \in Nat /\ Num(toPeer[t], "OKAY") \in Nat
      /\ Num(toBridge[t], "WRTE") \in Nat /\ Num(toBridge[t], "OKAY") \in Nat
      /\ dev[t].accepted \in Nat /\ peer[t].written \in Nat
  BY FlowTypes
<1>5. /\ Num(toPeer'[t], "OKAY") = Num(toPeer[t], "OKAY")
      /\ Num(toPeer'[t], "WRTE") = Num(toPeer[t], "WRTE")
      /\ toPeer'[t] # <<>> /\ (toPeer[t] # <<>> => Head(toPeer'[t]) = Head(toPeer[t]))
      /\ \A g, r : DataNext(toPeer[t], g, r) => DataNext(toPeer'[t], g, r)
  BY <1>2, CountsWrote
<1>6. /\ Num(toBridge'[t], "OKAY") = Num(toBridge[t], "OKAY")
      /\ Num(toBridge'[t], "WRTE") = Num(toBridge[t], "WRTE")
  <2>1. CASE toBridge'[t] = toBridge[t]
    BY <2>1
  <2>2. CASE Reads(t, "CLSE")
    <3>1. toBridge[t] # <<>> /\ toBridge'[t] = Tail(toBridge[t]) /\ Head(toBridge[t]).cmd = "CLSE"
      BY <2>2 DEF Reads, Arrives
    <3> QED
      BY <3>1, CountsRead
  <2> QED
    BY <2>1, <2>2 DEF Ends
<1>7. ToRemote(t)'
  <2>1. Tokens(t)' = Tokens(t)
    BY <1>0, <1>5, <1>6 DEF Tokens
  <2> QED
    BY <1>0, <1>3, <1>5, <1>6, <2>1 DEF ToRemote
<1>8. FromRemote(t)'
  BY <1>0, <1>3, <1>5, <1>6 DEF FromRemote
<1> QED
  BY <1>7, <1>8

\* The commands the bridge writes.
LEMMA OutCmds ==
    ASSUME NEW q \in Seq(OutPacket)
    PROVE  \A i \in DOMAIN q : q[i].cmd \in {"OKAY", "WRTE", "CLSE"}
<1> SUFFICES ASSUME NEW i \in DOMAIN q PROVE q[i].cmd \in {"OKAY", "WRTE", "CLSE"}
  OBVIOUS
<1>1. q[i] \in OutPacket
  OBVIOUS
<1> QED
  BY <1>1 DEF OutPacket

\* A queue without elements is empty.
LEMMA EmptySeqElems ==
    ASSUME NEW S, NEW q \in Seq(S), \A i \in DOMAIN q : FALSE
    PROVE  q = <<>>
<1>1. DOMAIN q = 1 .. Len(q) /\ Len(q) \in Nat
  OBVIOUS
<1>2. Len(q) = 0
  <2> SUFFICES ASSUME Len(q) # 0 PROVE FALSE
    OBVIOUS
  <2>1. 1 \in DOMAIN q
    BY <1>1
  <2> QED
    BY <2>1
<1> QED
  BY <1>2

\* The A_OKAY that opens the stream is the first packet of it.
LEMMA FlowReplies ==
    ASSUME IInv, TalkInv, FlowInv, NEW t \in Svcs, Replies(t)
    PROVE  ToRemote(t)' /\ FromRemote(t)'
<1>0. /\ ~svc[t].opened /\ peer'[t] = peer[t] /\ toBridge'[t] = toBridge[t]
      /\ svc'[t].ended <=> svc[t].ended
      /\ svc'[t].needAck <=> svc[t].needAck
      /\ dev'[t].read = dev[t].read /\ dev'[t].accepted = dev[t].accepted
  BY DEF Replies, DevStays, PeerStays
<1>3. ToRemote(t) /\ FromRemote(t) /\ KnownInv(t) /\ CloseLastInv(t)
  BY DEF FlowInv, TalkInv
<1>4. /\ Num(toPeer[t], "WRTE") \in Nat /\ Num(toPeer[t], "OKAY") \in Nat
      /\ Num(toBridge[t], "WRTE") \in Nat /\ Num(toBridge[t], "OKAY") \in Nat
      /\ toPeer[t] \in Seq(OutPacket)
  BY FlowTypes
<1>5. Num(toPeer[t], "WRTE") = 0 /\ Num(toPeer[t], "OKAY") = 0 /\ peer[t].st # "open"
  <2>1. \A i \in DOMAIN toPeer[t] : toPeer[t][i].cmd # "WRTE" /\ toPeer[t][i].cmd # "OKAY"
    BY <1>0, <1>3 DEF KnownInv
  <2>2. Num(toPeer[t], "WRTE") = 0 /\ Num(toPeer[t], "OKAY") = 0
    BY <2>1, FlowTypes
  <2>3. peer[t].st # "open"
    BY <1>0, <1>3 DEF KnownInv
  <2> QED
    BY <2>2, <2>3
<1>6. CASE svc[t].ended /\ toPeer'[t] = toPeer[t]
  <2>1. ToRemote(t)'
    BY <1>0, <1>3, <1>6 DEF ToRemote, Tokens
  <2>2. FromRemote(t)'
    BY <1>0, <1>3, <1>5, <1>6 DEF FromRemote
  <2> QED
    BY <2>1, <2>2
<1>7. CASE ~svc[t].ended /\ Wrote(t, Out("OKAY", svc[t].localId))
  <2>1. PICK p : p = Out("OKAY", svc[t].localId)
    OBVIOUS
  <2>2. p \in OutPacket /\ p.cmd = "OKAY" /\ Wrote(t, p)
    BY <1>7, <2>1, PacketTypes DEF Out
  <2>3. /\ Num(toPeer'[t], "OKAY") = Num(toPeer[t], "OKAY") + 1
        /\ Num(toPeer'[t], "WRTE") = Num(toPeer[t], "WRTE")
        /\ toPeer'[t] # <<>> /\ (toPeer[t] = <<>> => Head(toPeer'[t]) = p)
        /\ \A g, r : DataNext(toPeer[t], g, r) => DataNext(toPeer'[t], g, r)
    BY <2>2, CountsWrote
  <2>4. toPeer[t] = <<>>
    <3>1. \A i \in DOMAIN toPeer[t] : FALSE
      <4>1. \A i \in DOMAIN toPeer[t] : toPeer[t][i].cmd \in {"OKAY", "WRTE", "CLSE"}
        BY ONLY <1>4, OutCmds
      <4>2. \A i \in DOMAIN toPeer[t] : toPeer[t][i].cmd # "CLSE"
        BY <1>3, <1>7 DEF CloseLastInv, InFlight
      <4>3. \A i \in DOMAIN toPeer[t] : toPeer[t][i].cmd # "WRTE" /\ toPeer[t][i].cmd # "OKAY"
        BY <1>0, <1>3 DEF KnownInv
      <4> QED
        BY <4>1, <4>2, <4>3
    <3>2. PICK q : q = toPeer[t]
      OBVIOUS
    <3>3. q \in Seq(OutPacket) /\ \A i \in DOMAIN q : FALSE
      BY <1>4, <3>1, <3>2
    <3>4. q = <<>>
      BY ONLY <3>3, EmptySeqElems
    <3> QED
      BY <3>2, <3>4
  <2>5. ToRemote(t)'
    <3>1. Tokens(t)' = Tokens(t)
      BY <1>0, <2>3 DEF Tokens
    <3> QED
      BY <1>0, <1>3, <2>3, <3>1 DEF ToRemote
  <2>6. FromRemote(t)'
    BY <1>0, <1>3, <1>5, <2>2, <2>3, <2>4 DEF FromRemote
  <2> QED
    BY <2>5, <2>6
<1> QED
  BY <1>6, <1>7 DEF Replies

\* The remote reads a packet.
LEMMA FlowReceives ==
    ASSUME IInv, TalkInv, FlowInv, NEW t \in Svcs, PeerReceives(t), SvcStays(t), DevStays(t)
    PROVE  ToRemote(t)' /\ FromRemote(t)'
<1>1. PICK p : p = Head(toPeer[t])
  OBVIOUS
<1>2. /\ toPeer[t] # <<>> /\ toPeer'[t] = Tail(toPeer[t]) /\ toBridge'[t] = toBridge[t]
      /\ p \in OutPacket /\ peer'[t].written = peer[t].written
      /\ p.cmd = "CLSE" =>
           peer'[t].st = "closed" /\ peer'[t].got = peer[t].got
             /\ (peer'[t].owes <=> peer[t].owes) /\ (peer'[t].waiting <=> peer[t].waiting)
      /\ p.cmd = "WRTE" =>
           /\ peer'[t].st = peer[t].st /\ (peer'[t].waiting <=> peer[t].waiting)
           /\ peer[t].st # "closed" => peer'[t].got = p.hi /\ peer'[t].owes
           /\ peer[t].st = "closed" => peer'[t].got = peer[t].got
                                         /\ (peer'[t].owes <=> peer[t].owes)
      /\ p.cmd = "OKAY" =>
           /\ peer'[t].got = peer[t].got /\ (peer'[t].owes <=> peer[t].owes)
           /\ peer[t].st = "opening" => peer'[t].st = "open"
                                          /\ (peer'[t].waiting <=> peer[t].waiting)
           /\ peer[t].st # "opening" => peer'[t].st = peer[t].st
           /\ peer[t].st = "open" => ~peer'[t].waiting
           /\ peer[t].st # "open" => (peer'[t].waiting <=> peer[t].waiting)
  BY <1>1, Received
<1>3. ToRemote(t) /\ FromRemote(t) /\ KnownInv(t)
  BY DEF FlowInv, TalkInv
<1>4. /\ Num(toPeer[t], "WRTE") \in Nat /\ Num(toPeer[t], "OKAY") \in Nat
      /\ Num(toBridge[t], "WRTE") \in Nat /\ Num(toBridge[t], "OKAY") \in Nat
      /\ dev[t].accepted \in Nat /\ peer[t].written \in Nat
      /\ peer[t].st \in {"idle", "opening", "open", "closed"}
      /\ peer[t].st = "idle" => ~svc[t].opened
  BY FlowTypes
<1>5. /\ svc'[t].opened <=> svc[t].opened
      /\ svc'[t].ended <=> svc[t].ended
      /\ svc'[t].needAck <=> svc[t].needAck
      /\ dev'[t].read = dev[t].read /\ dev'[t].accepted = dev[t].accepted
  BY DEF SvcStays, SvcKept, DevStays
<1>6. /\ \A c : Num(toPeer[t], c) = IF p.cmd = c THEN Num(toPeer'[t], c) + 1
                                    ELSE Num(toPeer'[t], c)
      /\ \A g, r : DataNext(toPeer[t], g, r) => DataNext(toPeer'[t], g, r)
      /\ \A g, r : DataNext(toPeer[t], g, r) /\ p.cmd = "WRTE" =>
            p.lo = g + 1 /\ p.hi = r /\ r \in g + 1 .. g + MaxPayload
      /\ \A g, r : (\A i \in DOMAIN toPeer'[t] : toPeer'[t][i].cmd # "WRTE")
                     => DataNext(toPeer'[t], g, r)
      /\ Num(toPeer'[t], "WRTE") \in Nat /\ Num(toPeer'[t], "OKAY") \in Nat
      /\ Num(toPeer'[t], "WRTE") = 0 =>
            \A i \in DOMAIN toPeer'[t] : toPeer'[t][i].cmd # "WRTE"
  <2>1. PICK q : q = toPeer[t]
    OBVIOUS
  <2>2. q \in Seq(OutPacket) /\ q # <<>> /\ toPeer'[t] = Tail(q)
    BY <1>2, <2>1, FlowTypes
  <2>3. /\ \A c : Num(q, c) = IF Head(q).cmd = c THEN Num(Tail(q), c) + 1 ELSE Num(Tail(q), c)
        /\ \A g, r : DataNext(q, g, r) => DataNext(Tail(q), g, r)
        /\ \A g, r : DataNext(q, g, r) /\ Head(q).cmd = "WRTE" =>
              Head(q).lo = g + 1 /\ Head(q).hi = r /\ r \in g + 1 .. g + MaxPayload
        /\ \A g, r : (\A i \in DOMAIN Tail(q) : Tail(q)[i].cmd # "WRTE") => DataNext(Tail(q), g, r)
    BY ONLY <2>2, QueueRead
  <2>4. Tail(q) \in Seq(OutPacket)
    BY ONLY <2>2
  <2>5. /\ \A c : Num(Tail(q), c) \in Nat
        /\ \A c : Num(Tail(q), c) = 0 <=> \A i \in DOMAIN Tail(q) : Tail(q)[i].cmd # c
    <3>1. PICK r : r = Tail(q)
      OBVIOUS
    <3>2. r \in Seq(OutPacket)
      BY <2>4, <3>1
    <3>3. /\ \A c : Num(r, c) \in Nat
          /\ \A c : Num(r, c) = 0 <=> \A i \in DOMAIN r : r[i].cmd # c
      BY ONLY <3>2, NumType
    <3> QED
      BY <3>1, <3>3
  <2> QED
    BY <1>1, <2>1, <2>2, <2>3, <2>5
<1>7. svc[t].opened \/ p.cmd = "CLSE"
  <2>1. toPeer[t] \in Seq(OutPacket)
    BY FlowTypes
  <2>2. 1 \in DOMAIN toPeer[t] /\ toPeer[t][1] = p
    BY ONLY <1>1, <1>2, <2>1
  <2> QED
    BY <1>2, <1>3, <2>2 DEF KnownInv, OutPacket
<1>8. CASE p.cmd = "CLSE"
  <2>1. Num(toPeer'[t], "WRTE") = Num(toPeer[t], "WRTE")
          /\ Num(toPeer'[t], "OKAY") = Num(toPeer[t], "OKAY")
    BY <1>6, <1>8
  <2>2. ToRemote(t)'
    <3>1. Tokens(t)' = Tokens(t)
      BY <1>2, <1>8, <2>1 DEF Tokens
    <3> QED
      BY <1>2, <1>3, <1>5, <1>6, <1>8, <3>1 DEF ToRemote
  <2>3. FromRemote(t)'
    BY <1>2, <1>3, <1>5, <1>8 DEF FromRemote
  <2> QED
    BY <2>2, <2>3
<1>9. CASE p.cmd = "WRTE"
  <2>1. /\ Num(toPeer[t], "WRTE") = Num(toPeer'[t], "WRTE") + 1
        /\ Num(toPeer'[t], "OKAY") = Num(toPeer[t], "OKAY")
    BY <1>6, <1>9
  <2>2. /\ Num(toPeer'[t], "WRTE") = 0 /\ Num(toBridge[t], "OKAY") = 0 /\ ~peer[t].owes
        /\ ~(~svc[t].ended /\ ~svc[t].needAck)
    <3>1. Tokens(t) <= 1 /\ (~svc[t].ended /\ ~svc[t].needAck => Tokens(t) = 0)
      BY <1>3 DEF ToRemote
    <3> QED
      BY <3>1, <2>1, <1>4, <1>6 DEF Tokens
  <2>3. peer[t].st \notin {"idle", "opening"}
    <3>1. svc[t].opened /\ Num(toPeer[t], "WRTE") # 0
      BY <1>7, <1>9, <2>1, <1>6
    <3> QED
      BY <1>1, <1>3, <1>4, <1>9, <3>1 DEF FromRemote
  <2>4. p.hi = dev[t].read
    BY <1>3, <1>6, <1>9 DEF ToRemote
  <2>5. ToRemote(t)'
    <3>1. Tokens(t)' = IF peer[t].st = "closed" THEN 0 ELSE 1
      BY <1>2, <1>9, <2>2 DEF Tokens
    <3>2. DataNext(toPeer'[t], peer'[t].got, dev'[t].read)
      BY <1>6, <2>2
    <3>3. CASE peer[t].st = "closed"
      BY <1>2, <1>5, <1>9, <2>2, <3>1, <3>2, <3>3 DEF ToRemote
    <3>4. CASE peer[t].st # "closed"
      BY <1>2, <1>5, <1>9, <2>2, <2>3, <2>4, <3>1, <3>2, <3>4 DEF ToRemote
    <3> QED
      BY <3>3, <3>4
  <2>6. FromRemote(t)'
    BY <1>2, <1>3, <1>5, <1>9, <2>1, <2>3 DEF FromRemote
  <2> QED
    BY <2>5, <2>6
<1>10. CASE p.cmd = "OKAY"
  <2>1. /\ Num(toPeer[t], "OKAY") = Num(toPeer'[t], "OKAY") + 1
        /\ Num(toPeer'[t], "WRTE") = Num(toPeer[t], "WRTE")
    BY <1>6, <1>10
  <2>2. ToRemote(t)'
    <3>1. Tokens(t)' = Tokens(t)
      BY <1>2, <1>10, <2>1 DEF Tokens
    <3>2. /\ peer'[t].got = peer[t].got /\ (peer'[t].owes <=> peer[t].owes)
          /\ peer'[t].st \in {"idle", "opening"} => peer[t].st \in {"idle", "opening"}
          /\ peer'[t].st = "closed" <=> peer[t].st = "closed"
      BY <1>2, <1>10
    <3> QED
      BY <1>2, <1>3, <1>5, <1>6, <2>1, <3>1, <3>2 DEF ToRemote
  <2>3. CASE peer[t].st = "open"
    <3>1. /\ Num(toPeer'[t], "OKAY") = 0 /\ Num(toBridge[t], "WRTE") = 0
          /\ dev[t].accepted = peer[t].written
      BY <1>3, <1>4, <1>6, <2>1, <2>3 DEF FromRemote
    <3>2. FromRemote(t)'
      BY <1>2, <1>3, <1>5, <1>10, <2>3, <3>1 DEF FromRemote
    <3> QED
      BY <2>2, <3>2
  <2>4. CASE peer[t].st = "opening"
    <3>1. /\ Num(toPeer'[t], "OKAY") = 0 /\ Num(toBridge[t], "WRTE") = 0
          /\ dev[t].accepted = peer[t].written /\ ~peer[t].waiting
      BY <1>3, <1>4, <1>6, <2>1, <2>4 DEF FromRemote
    <3>2. FromRemote(t)'
      BY <1>2, <1>3, <1>5, <1>10, <2>4, <3>1 DEF FromRemote
    <3> QED
      BY <2>2, <3>2
  <2>5. CASE peer[t].st = "closed"
    <3>1. FromRemote(t)'
      BY <1>2, <1>3, <1>5, <1>10, <2>5 DEF FromRemote
    <3> QED
      BY <2>2, <3>1
  <2>6. CASE peer[t].st = "idle"
    BY <1>4, <1>7, <1>10, <2>6
  <2> QED
    BY <1>4, <2>3, <2>4, <2>5, <2>6
<1> QED
  BY <1>2, <1>8, <1>9, <1>10 DEF OutPacket

\* The remote sends a packet.
LEMMA FlowSends ==
    ASSUME IInv, TalkInv, FlowInv, NEW t \in Svcs, SvcStays(t), DevStays(t),
           PeerOpens(t) \/ PeerAcks(t) \/ PeerWrites(t) \/ PeerCloses(t)
    PROVE  ToRemote(t)' /\ FromRemote(t)'
<1>1. /\ toPeer'[t] = toPeer[t] /\ peer'[t].got = peer[t].got
      /\ \/ /\ peer[t].st = "idle" /\ peer'[t].st = "opening" /\ (peer'[t].owes <=> peer[t].owes)
            /\ peer'[t].written = peer[t].written /\ (peer'[t].waiting <=> peer[t].waiting)
            /\ \E e \in BOOLEAN : toBridge'[t] = Append(toBridge[t], In("OPEN", None, e))
         \/ /\ peer[t].st = "open"
            /\ \/ /\ peer'[t].st = "open" /\ peer[t].owes /\ ~peer'[t].owes
                  /\ peer'[t].written = peer[t].written /\ (peer'[t].waiting <=> peer[t].waiting)
                  /\ toBridge'[t] = Append(toBridge[t], In("OKAY", peer[t].id, FALSE))
               \/ /\ peer'[t].st = "open" /\ (peer'[t].owes <=> peer[t].owes)
                  /\ peer'[t].written = peer[t].written + 1 /\ ~peer[t].waiting /\ peer'[t].waiting
                  /\ toBridge'[t] = Append(toBridge[t], In("WRTE", peer[t].id, FALSE))
               \/ /\ peer'[t].st = "closed" /\ (peer'[t].owes <=> peer[t].owes)
                  /\ peer'[t].written = peer[t].written /\ (peer'[t].waiting <=> peer[t].waiting)
                  /\ toBridge'[t] = Append(toBridge[t], In("CLSE", peer[t].id, FALSE))
  BY Sent
<1>2. ToRemote(t) /\ FromRemote(t)
  BY DEF FlowInv
<1>3. /\ Num(toPeer[t], "WRTE") \in Nat /\ Num(toPeer[t], "OKAY") \in Nat
      /\ Num(toBridge[t], "WRTE") \in Nat /\ Num(toBridge[t], "OKAY") \in Nat
      /\ dev[t].accepted \in Nat /\ peer[t].written \in Nat
      /\ peer[t].st = "idle" => ~svc[t].opened
  BY FlowTypes
<1>4. /\ svc'[t].opened <=> svc[t].opened
      /\ svc'[t].ended <=> svc[t].ended
      /\ svc'[t].needAck <=> svc[t].needAck
      /\ dev'[t].read = dev[t].read /\ dev'[t].accepted = dev[t].accepted
  BY DEF SvcStays, SvcKept, DevStays
<1>5. \A c \in {"OKAY", "WRTE", "CLSE"} : toBridge'[t] = Append(toBridge[t], In(c, peer[t].id, FALSE)) =>
         \A d : Num(toBridge'[t], d) = IF c = d THEN Num(toBridge[t], d) + 1 ELSE Num(toBridge[t], d)
  <2> SUFFICES ASSUME NEW c \in {"OKAY", "WRTE", "CLSE"},
                      toBridge'[t] = Append(toBridge[t], In(c, peer[t].id, FALSE))
               PROVE  \A d : Num(toBridge'[t], d) = IF c = d THEN Num(toBridge[t], d) + 1
                                                   ELSE Num(toBridge[t], d)
    OBVIOUS
  <2>1. PICK p : p = In(c, peer[t].id, FALSE)
    OBVIOUS
  <2>2. p \in InPacket /\ p.cmd = c /\ toBridge'[t] = Append(toBridge[t], p)
    BY <2>1, PacketTypes DEF In
  <2> QED
    BY <2>2, CountsSent
<1>6. CASE peer[t].st = "idle"
  <2>1. PICK e \in BOOLEAN : toBridge'[t] = Append(toBridge[t], In("OPEN", None, e))
    BY <1>1, <1>6
  <2>2. PICK p : p = In("OPEN", None, e)
    OBVIOUS
  <2>3. p \in InPacket /\ p.cmd = "OPEN" /\ toBridge'[t] = Append(toBridge[t], p)
    BY <2>1, <2>2, PacketTypes DEF In
  <2>4. /\ Num(toBridge'[t], "OKAY") = Num(toBridge[t], "OKAY")
        /\ Num(toBridge'[t], "WRTE") = Num(toBridge[t], "WRTE")
    BY <2>3, CountsSent
  <2>5. /\ peer'[t].st = "opening" /\ (peer'[t].owes <=> peer[t].owes)
        /\ peer'[t].written = peer[t].written /\ (peer'[t].waiting <=> peer[t].waiting)
    BY <1>1, <1>6
  <2>6. ToRemote(t)'
    <3>1. Tokens(t)' = Tokens(t)
      BY <1>1, <2>4, <2>5 DEF Tokens
    <3> QED
      BY <1>1, <1>2, <1>4, <1>6, <2>4, <2>5, <3>1 DEF ToRemote
  <2>7. FromRemote(t)'
    BY <1>1, <1>2, <1>3, <1>4, <1>6, <2>4, <2>5 DEF FromRemote
  <2> QED
    BY <2>6, <2>7
<1>7. CASE /\ peer[t].st = "open" /\ peer'[t].st = "open" /\ peer[t].owes /\ ~peer'[t].owes
           /\ peer'[t].written = peer[t].written /\ (peer'[t].waiting <=> peer[t].waiting)
           /\ toBridge'[t] = Append(toBridge[t], In("OKAY", peer[t].id, FALSE))
  <2>1. /\ Num(toBridge'[t], "OKAY") = Num(toBridge[t], "OKAY") + 1
        /\ Num(toBridge'[t], "WRTE") = Num(toBridge[t], "WRTE")
    BY <1>5, <1>7
  <2>2. ToRemote(t)'
    <3>1. Tokens(t)' = Tokens(t)
      <4>1. Tokens(t)' = Num(toPeer[t], "WRTE") + (Num(toBridge[t], "OKAY") + 1) + 0
        BY <1>1, <1>7, <2>1 DEF Tokens
      <4>2. Tokens(t) = Num(toPeer[t], "WRTE") + Num(toBridge[t], "OKAY") + 1
        BY <1>7 DEF Tokens
      <4> QED
        BY <1>3, <4>1, <4>2
    <3> QED
      BY <1>1, <1>2, <1>4, <1>7, <3>1 DEF ToRemote
  <2>3. FromRemote(t)'
    BY <1>1, <1>2, <1>4, <1>7, <2>1 DEF FromRemote
  <2> QED
    BY <2>2, <2>3
<1>8. CASE /\ peer[t].st = "open" /\ peer'[t].st = "open" /\ (peer'[t].owes <=> peer[t].owes)
           /\ peer'[t].written = peer[t].written + 1 /\ ~peer[t].waiting /\ peer'[t].waiting
           /\ toBridge'[t] = Append(toBridge[t], In("WRTE", peer[t].id, FALSE))
  <2>1. /\ Num(toBridge'[t], "OKAY") = Num(toBridge[t], "OKAY")
        /\ Num(toBridge'[t], "WRTE") = Num(toBridge[t], "WRTE") + 1
    BY <1>5, <1>8
  <2>2. ToRemote(t)'
    <3>1. Tokens(t)' = Tokens(t)
      BY <1>1, <1>8, <2>1 DEF Tokens
    <3> QED
      BY <1>1, <1>2, <1>4, <1>8, <2>1, <3>1 DEF ToRemote
  <2>3. FromRemote(t)'
    <3>1. /\ Num(toPeer[t], "OKAY") = 0 /\ Num(toBridge[t], "WRTE") = 0
          /\ dev[t].accepted = peer[t].written
      BY <1>2, <1>3, <1>8 DEF FromRemote
    <3>2. /\ dev'[t].accepted = dev[t].accepted
          /\ Num(toBridge'[t], "WRTE") = 1 /\ Num(toPeer'[t], "OKAY") = 0
          /\ peer'[t].st = "open" /\ peer'[t].waiting
          /\ dev[t].accepted + 1 = peer'[t].written
      <4>1. Num(toBridge'[t], "WRTE") = 1
        BY <2>1, <3>1
      <4>2. Num(toPeer'[t], "OKAY") = 0
        BY <1>1, <3>1
      <4>3. dev[t].accepted + 1 = peer'[t].written
        BY <1>8, <3>1
      <4> QED
        BY <1>4, <1>8, <4>1, <4>2, <4>3
    <3> QED
      BY <1>3, <3>2 DEF FromRemote
  <2> QED
    BY <2>2, <2>3
<1>9. CASE /\ peer[t].st = "open" /\ peer'[t].st = "closed" /\ (peer'[t].owes <=> peer[t].owes)
           /\ peer'[t].written = peer[t].written /\ (peer'[t].waiting <=> peer[t].waiting)
           /\ toBridge'[t] = Append(toBridge[t], In("CLSE", peer[t].id, FALSE))
  <2>1. /\ Num(toBridge'[t], "OKAY") = Num(toBridge[t], "OKAY")
        /\ Num(toBridge'[t], "WRTE") = Num(toBridge[t], "WRTE")
    BY <1>5, <1>9
  <2>2. ToRemote(t)'
    <3>1. Tokens(t)' = Tokens(t)
      BY <1>1, <1>9, <2>1 DEF Tokens
    <3> QED
      BY <1>1, <1>2, <1>4, <1>9, <2>1, <3>1 DEF ToRemote
  <2>3. FromRemote(t)'
    BY <1>1, <1>2, <1>4, <1>9, <2>1 DEF FromRemote
  <2> QED
    BY <2>2, <2>3
<1> QED
  BY <1>1, <1>6, <1>7, <1>8, <1>9

\* FlowInv is inductive under the three other invariants.
LEMMA FlowNext ==
    Conforms /\ IInv /\ IInv' /\ MapInv /\ TalkInv /\ FlowInv /\ [Next]_vars => FlowInv'
<1> SUFFICES ASSUME Conforms, IInv, IInv', MapInv, TalkInv, FlowInv, [Next]_vars, NEW t \in Svcs
             PROVE  ToRemote(t)' /\ FromRemote(t)'
  BY DEF FlowInv
<1>1. StreamStep(t)
  BY TalkSteps
<1>2. CASE Unseen(t)
  BY <1>2, FlowQuiet DEF Unseen
<1>3. CASE Drops(t)
  BY <1>3, FlowDrops
<1>4. CASE Pushing(t)
  BY <1>4, FlowPushes DEF Pushing, PeerStays
<1>5. CASE HearsOkay(t)
  BY <1>5, FlowOkay
<1>6. CASE HearsWrite(t)
  BY <1>6, FlowWrite
<1>7. CASE Ends(t)
  BY <1>7, FlowEnds
<1>8. CASE Replies(t)
  BY <1>8, FlowReplies
<1>9. CASE RemoteSteps(t)
  BY <1>9, FlowReceives, FlowSends DEF RemoteSteps
<1> QED
  BY <1>1, <1>2, <1>3, <1>4, <1>5, <1>6, <1>7, <1>8, <1>9 DEF StreamStep

\* With a remote that keeps to the protocol FlowInv always holds.
LEMMA FlowInvariance == ASSUME Conforms PROVE Spec => []FlowInv
<1>1. IInv /\ IInv' /\ MapInv /\ TalkInv /\ FlowInv /\ [Next]_vars => FlowInv'
  BY FlowNext
<1>2. Spec => []MapInv
  BY MapInvariance DEF Conforms
<1>3. Spec => []TalkInv
  BY TalkInvariance
<1> QED
  BY <1>1, <1>2, <1>3, InitFlow, Invariance, PTL DEF Spec

\* Service's flow control: of the device bytes of a stream one A_WRTE at most is
\* unacknowledged, the bytes arrive in order, and an A_OKAY to the remote means
\* its write went to the transport.
THEOREM FlowControlled == ASSUME Conforms PROVE Spec => []FlowControl
<1>1. IInv /\ FlowInv => FlowControl
  <2> SUFFICES ASSUME IInv, FlowInv PROVE FlowControl
    OBVIOUS
  <2>1. ASSUME NEW s \in Svcs
        PROVE  /\ Num(toPeer[s], "WRTE") = Cardinality(Writes(toPeer[s]))
               /\ Num(toBridge[s], "OKAY") = Cardinality(Acks(toBridge[s]))
               /\ Writes(toPeer[s]) = {} => Num(toPeer[s], "WRTE") = 0
               /\ ToRemote(s) /\ FromRemote(s)
    BY FS_EmptySet DEF Num, Writes, Acks, FlowInv
  <2>2. OneUnacked
    <3> SUFFICES ASSUME NEW s \in Svcs
                 PROVE  /\ Tokens(s) <= 1
                        /\ ~svc[s].ended /\ ~svc[s].needAck => Tokens(s) = 0
      BY <2>1 DEF OneUnacked, Tokens
    <3> QED
      BY <2>1 DEF ToRemote
  <2>3. BytesInOrder
    <3> SUFFICES ASSUME NEW s \in Svcs
                 PROVE  /\ \A i \in Writes(toPeer[s]) :
                              /\ toPeer[s][i].lo = peer[s].got + 1
                              /\ toPeer[s][i].hi = dev[s].read
                              /\ toPeer[s][i].hi - toPeer[s][i].lo < MaxPayload
                        /\ peer[s].st = "open" /\ Writes(toPeer[s]) = {}
                             => peer[s].got = dev[s].read
      BY DEF BytesInOrder
    <3>1. ToRemote(s) /\ peer[s].got \in Nat /\ dev[s].read \in Nat /\ MaxPayload \in Nat
      BY <2>1, FlowTypes, BridgeAssumption DEF BridgeAssumption
    <3>2. ASSUME NEW i \in Writes(toPeer[s])
          PROVE  /\ toPeer[s][i].lo = peer[s].got + 1
                 /\ toPeer[s][i].hi = dev[s].read
                 /\ toPeer[s][i].hi - toPeer[s][i].lo < MaxPayload
      <4>1. /\ toPeer[s][i].lo = peer[s].got + 1 /\ toPeer[s][i].hi = dev[s].read
            /\ dev[s].read \in peer[s].got + 1 .. peer[s].got + MaxPayload
        BY <3>1 DEF ToRemote, DataNext, Writes
      <4> QED
        BY <3>1, <4>1
    <3>3. peer[s].st = "open" /\ Writes(toPeer[s]) = {} => peer[s].got = dev[s].read
      BY <2>1 DEF ToRemote
    <3> QED
      BY <3>2, <3>3
  <2>4. AckMeansAccepted
    <3> SUFFICES ASSUME NEW s \in Svcs
                 PROVE  /\ dev[s].accepted <= peer[s].written
                        /\ peer[s].st = "open" /\ ~peer[s].waiting
                             => dev[s].accepted = peer[s].written
      BY DEF AckMeansAccepted
    <3>1. /\ FromRemote(s) /\ dev[s].accepted \in Nat /\ peer[s].written \in Nat
          /\ Num(toBridge[s], "WRTE") \in Nat
      BY <2>1, FlowTypes
    <3> QED
      BY <3>1 DEF FromRemote
  <2> QED
    BY <2>2, <2>3, <2>4 DEF FlowControl
<1> QED
  BY <1>1, FlowInvariance, Invariance, PTL

(***************************************************************************)
(* Nothing is forgotten: whatever is still to be done has its cause under  *)
(* way.                                                                    *)
(***************************************************************************)
\* What the remote still has to hear or to say is in flight, unless the service
\* has ended: the token, the A_OKAY or the A_WRTE it is for, the remote's A_CLSE.
OwedInv(s) ==
    /\ peer[s].shut => peer[s].st = "closed"
    /\ peer[s].st # "closed" /\ ~svc[s].ended /\ svc[s].needAck => Tokens(s) # 0
    /\ peer[s].st = "open" /\ ~svc[s].ended /\ peer[s].waiting
         => Num(toPeer[s], "OKAY") + Num(toBridge[s], "WRTE") # 0
    /\ peer[s].st = "closed" /\ ~svc[s].ended => Num(toBridge[s], "CLSE") # 0

\* A service that may push has pushed all there was; one that is done has ended;
\* one that does not exist yet has its A_OPEN in flight, or the connection ends.
DueInv(s) ==
    /\ svc[s].chain = "pushing" /\ ~svc[s].ended /\ ~svc[s].needAck
         => dev[s].read = dev[s].sent /\ (dev[s].eof => dev[s].ending)
    /\ svc[s].chain = "done" => svc[s].ended
    /\ svc[s].chain = "none" /\ peer[s].st # "idle"
         => InFlight(toBridge[s], "OPEN") \/ failing \/ sockEnded

\* The cleanup of a service that has ended is due, or it took it out of the map.
LeftInv(s) ==
    /\ svc[s].ended => svc[s].cleanup # "waiting"
    /\ svc[s].cleanup = "done" => \A i \in Ids : remotes[i] # s

\* What the bridge reads and writes keeps OwedInv.
LEMMA OwedBridge ==
    ASSUME IInv, IInv', TalkInv, FlowInv, NEW t \in Svcs, OwedInv(t),
           \/ Unseen(t) \/ Drops(t) \/ Pushing(t) \/ HearsOkay(t) \/ HearsWrite(t)
           \/ Ends(t) \/ Replies(t)
    PROVE  OwedInv(t)'
<1>1. /\ Num(toPeer[t], "WRTE") \in Nat /\ Num(toPeer[t], "OKAY") \in Nat
      /\ Num(toBridge[t], "WRTE") \in Nat /\ Num(toBridge[t], "OKAY") \in Nat
      /\ Num(toBridge[t], "CLSE") \in Nat
  BY FlowTypes
<1>2. /\ Num(toPeer'[t], "WRTE") \in Nat /\ Num(toPeer'[t], "OKAY") \in Nat
      /\ Num(toBridge'[t], "WRTE") \in Nat /\ Num(toBridge'[t], "OKAY") \in Nat
  <2>1. toPeer'[t] \in Seq(OutPacket) /\ toBridge'[t] \in Seq(InPacket)
    BY DEF IInv, TypeOK
  <2> QED
    BY <2>1, NumType
<1>3. CASE Unseen(t)
  BY <1>3 DEF Unseen, SvcStays, SvcKept, DevStays, PeerStays, OwedInv, Tokens
<1>4. CASE Drops(t)
  <2>1. /\ toBridge[t] # <<>> /\ toBridge'[t] = Tail(toBridge[t]) /\ toPeer'[t] = toPeer[t]
        /\ svc'[t].ended <=> svc[t].ended
        /\ svc'[t].needAck <=> svc[t].needAck
        /\ peer'[t] = peer[t] /\ (Head(toBridge[t]).cmd = "OPEN" \/ svc[t].ended)
    BY <1>4 DEF Drops, SvcStays, SvcKept, PeerStays, Arrives
  <2>2. CASE svc[t].ended
    BY <2>1, <2>2 DEF OwedInv
  <2>3. CASE Head(toBridge[t]).cmd = "OPEN"
    <3>1. /\ Num(toBridge'[t], "OKAY") = Num(toBridge[t], "OKAY")
          /\ Num(toBridge'[t], "WRTE") = Num(toBridge[t], "WRTE")
          /\ Num(toBridge'[t], "CLSE") = Num(toBridge[t], "CLSE")
      BY <2>1, <2>3, CountsRead
    <3> QED
      BY <2>1, <3>1 DEF OwedInv, Tokens
  <2> QED
    BY <2>1, <2>2, <2>3
<1>5. ASSUME PushStep(t), svc'[t].needAck, peer'[t] = peer[t], ~svc[t].ended,
             \/ toBridge'[t] = toBridge[t]
             \/ Reads(t, "OKAY")
      PROVE  OwedInv(t)'
  <2>1. PICK p : p = Data(svc[t].localId, dev[t].read + 1, dev'[t].read)
    OBVIOUS
  <2>2. p \in OutPacket /\ p.cmd = "WRTE" /\ Wrote(t, p)
    BY <1>5, <2>1, PacketTypes DEF PushStep, Data
  <2>3. /\ Num(toPeer'[t], "WRTE") = Num(toPeer[t], "WRTE") + 1
        /\ Num(toPeer'[t], "OKAY") = Num(toPeer[t], "OKAY")
    BY <2>2, CountsWrote
  <2>4. /\ Num(toBridge'[t], "WRTE") = Num(toBridge[t], "WRTE")
        /\ Num(toBridge'[t], "CLSE") = Num(toBridge[t], "CLSE")
    <3>1. CASE Reads(t, "OKAY")
      BY <3>1, CountsRead DEF Reads, Arrives
    <3> QED
      BY <3>1, <1>5
  <2>5. Tokens(t)' # 0
    BY <1>1, <1>2, <2>3 DEF Tokens
  <2> QED
    BY <1>5, <2>3, <2>4, <2>5 DEF OwedInv
<1>6. CASE Pushing(t)
  BY <1>5, <1>6 DEF Pushing, PeerStays
<1>7. CASE HearsOkay(t)
  <2>1. /\ Reads(t, "OKAY") /\ ~svc[t].ended /\ ~svc'[t].ended /\ peer'[t] = peer[t]
        /\ \/ ~svc'[t].needAck /\ toPeer'[t] = toPeer[t]
           \/ svc'[t].needAck /\ PushStep(t)
    BY <1>7 DEF HearsOkay, PeerStays
  <2>2. /\ Num(toBridge'[t], "WRTE") = Num(toBridge[t], "WRTE")
        /\ Num(toBridge'[t], "CLSE") = Num(toBridge[t], "CLSE")
    BY <2>1, CountsRead DEF Reads, Arrives
  <2>3. CASE ~svc'[t].needAck /\ toPeer'[t] = toPeer[t]
    BY <2>1, <2>2, <2>3 DEF OwedInv
  <2> QED
    BY <1>5, <2>1, <2>3
<1>8. CASE HearsWrite(t)
  <2>1. /\ Reads(t, "WRTE") /\ peer'[t] = peer[t] /\ Wrote(t, Out("OKAY", svc[t].localId))
        /\ svc'[t].ended <=> svc[t].ended
        /\ svc'[t].needAck <=> svc[t].needAck
    BY <1>8 DEF HearsWrite, SvcStays, SvcKept, PeerStays
  <2>2. /\ Num(toBridge'[t], "OKAY") = Num(toBridge[t], "OKAY")
        /\ Num(toBridge'[t], "CLSE") = Num(toBridge[t], "CLSE")
    BY <2>1, CountsRead DEF Reads, Arrives
  <2>3. PICK p : p = Out("OKAY", svc[t].localId)
    OBVIOUS
  <2>4. p \in OutPacket /\ p.cmd = "OKAY" /\ Wrote(t, p)
    BY <2>1, <2>3, PacketTypes DEF Out
  <2>5. /\ Num(toPeer'[t], "OKAY") = Num(toPeer[t], "OKAY") + 1
        /\ Num(toPeer'[t], "WRTE") = Num(toPeer[t], "WRTE")
    BY <2>4, CountsWrote
  <2>6. Tokens(t)' = Tokens(t)
    BY <2>1, <2>2, <2>5 DEF Tokens
  <2>7. Num(toPeer'[t], "OKAY") + Num(toBridge'[t], "WRTE") # 0
    BY <1>1, <1>2, <2>5
  <2> QED
    BY <2>1, <2>2, <2>6, <2>7 DEF OwedInv
<1>9. CASE Ends(t)
  BY <1>9 DEF Ends, PeerStays, OwedInv
<1>10. CASE Replies(t)
  <2>1. /\ svc'[t].ended <=> svc[t].ended
        /\ svc'[t].needAck <=> svc[t].needAck
        /\ peer'[t] = peer[t] /\ toBridge'[t] = toBridge[t]
        /\ \/ svc[t].ended /\ toPeer'[t] = toPeer[t]
           \/ ~svc[t].ended /\ Wrote(t, Out("OKAY", svc[t].localId))
    BY <1>10 DEF Replies, PeerStays
  <2>2. CASE svc[t].ended
    BY <2>1, <2>2 DEF OwedInv
  <2>3. CASE ~svc[t].ended
    <3>1. PICK p : p = Out("OKAY", svc[t].localId)
      OBVIOUS
    <3>2. p \in OutPacket /\ p.cmd = "OKAY" /\ Wrote(t, p)
      BY <2>1, <2>3, <3>1, PacketTypes DEF Out
    <3>3. /\ Num(toPeer'[t], "OKAY") = Num(toPeer[t], "OKAY") + 1
          /\ Num(toPeer'[t], "WRTE") = Num(toPeer[t], "WRTE")
      BY <3>2, CountsWrote
    <3>4. Tokens(t)' = Tokens(t)
      BY <2>1, <3>3 DEF Tokens
    <3>5. Num(toPeer'[t], "OKAY") + Num(toBridge'[t], "WRTE") # 0
      BY <1>1, <1>2, <3>3
    <3> QED
      BY <2>1, <3>4, <3>5 DEF OwedInv
  <2> QED
    BY <2>2, <2>3
<1> QED
  BY <1>3, <1>4, <1>6, <1>7, <1>8, <1>9, <1>10

\* What the remote reads and sends keeps OwedInv.
LEMMA OwedRemote ==
    ASSUME IInv, IInv', TalkInv, FlowInv, NEW t \in Svcs, OwedInv(t), RemoteSteps(t)
    PROVE  OwedInv(t)'
<1>1. /\ Num(toPeer[t], "WRTE") \in Nat /\ Num(toPeer[t], "OKAY") \in Nat
      /\ Num(toBridge[t], "WRTE") \in Nat /\ Num(toBridge[t], "OKAY") \in Nat
      /\ Num(toBridge[t], "CLSE") \in Nat /\ toPeer[t] \in Seq(OutPacket)
  BY FlowTypes
<1>2. /\ Num(toPeer'[t], "WRTE") \in Nat /\ Num(toPeer'[t], "OKAY") \in Nat
      /\ Num(toBridge'[t], "WRTE") \in Nat /\ Num(toBridge'[t], "OKAY") \in Nat
  <2>1. toPeer'[t] \in Seq(OutPacket) /\ toBridge'[t] \in Seq(InPacket)
    BY DEF IInv, TypeOK
  <2> QED
    BY <2>1, NumType
<1>3. /\ svc'[t].ended <=> svc[t].ended
      /\ svc'[t].needAck <=> svc[t].needAck
  BY DEF RemoteSteps, SvcStays, SvcKept
<1>4. CASE PeerReceives(t)
  <2>1. PICK p : p = Head(toPeer[t])
    OBVIOUS
  <2>2. /\ toPeer[t] # <<>> /\ toPeer'[t] = Tail(toPeer[t]) /\ toBridge'[t] = toBridge[t]
        /\ p \in OutPacket
        /\ peer'[t].shut <=> peer[t].shut \/ p.cmd = "CLSE"
        /\ p.cmd = "CLSE" => peer'[t].st = "closed"
        /\ p.cmd = "WRTE" =>
             /\ peer'[t].st = peer[t].st /\ (peer'[t].waiting <=> peer[t].waiting)
             /\ peer[t].st # "closed" => peer'[t].owes
        /\ p.cmd = "OKAY" =>
             /\ peer'[t].owes <=> peer[t].owes
             /\ peer[t].st = "opening" => peer'[t].st = "open"
                                            /\ (peer'[t].waiting <=> peer[t].waiting)
             /\ peer[t].st # "opening" => peer'[t].st = peer[t].st
             /\ peer[t].st = "open" => ~peer'[t].waiting
    BY <1>4, <2>1, Received
  <2>3. \A c : Num(toPeer[t], c) = IF p.cmd = c THEN Num(toPeer'[t], c) + 1 ELSE Num(toPeer'[t], c)
    <3>1. PICK q : q = toPeer[t]
      OBVIOUS
    <3>2. q \in Seq(OutPacket) /\ q # <<>> /\ toPeer'[t] = Tail(q) /\ p = Head(q)
      BY <1>1, <2>1, <2>2, <3>1
    <3>3. \A c : Num(q, c) = IF Head(q).cmd = c THEN Num(Tail(q), c) + 1 ELSE Num(Tail(q), c)
      BY ONLY <3>2, NumTail
    <3> QED
      BY <3>1, <3>2, <3>3
  <2>4. CASE p.cmd = "CLSE"
    <3>1. svc[t].ended
      <4>1. 1 \in DOMAIN toPeer[t] /\ toPeer[t][1] = p
        BY ONLY <1>1, <2>1, <2>2
      <4> QED
        BY <2>4, <4>1 DEF TalkInv, CloseLastInv, InFlight
    <3> QED
      BY <1>3, <2>2, <2>4, <3>1 DEF OwedInv
  <2>5. CASE p.cmd = "WRTE"
    <3>1. Num(toPeer'[t], "OKAY") = Num(toPeer[t], "OKAY")
      BY <2>3, <2>5
    <3>2. peer'[t].st # "closed" => Tokens(t)' # 0
      BY <1>2, <2>2, <2>5 DEF Tokens
    <3> QED
      BY <1>3, <2>2, <2>5, <3>1, <3>2 DEF OwedInv
  <2>6. CASE p.cmd = "OKAY"
    <3>1. Num(toPeer'[t], "WRTE") = Num(toPeer[t], "WRTE")
      BY <2>3, <2>6
    <3>2. Tokens(t)' = Tokens(t)
      BY <2>2, <2>6, <3>1 DEF Tokens
    <3>3. peer[t].st = "opening" => ~peer[t].waiting
      BY DEF FlowInv, FromRemote
    <3>4. peer'[t].st = "open" => ~peer'[t].waiting
      BY <2>2, <2>6, <3>3
    <3>5. /\ peer'[t].st = "closed" <=> peer[t].st = "closed"
          /\ peer'[t].shut <=> peer[t].shut
      BY <2>2, <2>6
    <3> QED
      BY <1>3, <2>2, <3>2, <3>4, <3>5 DEF OwedInv
  <2> QED
    BY <2>2, <2>4, <2>5, <2>6 DEF OutPacket
<1>5. CASE PeerOpens(t) \/ PeerAcks(t) \/ PeerWrites(t) \/ PeerCloses(t)
  <2>1. /\ toPeer'[t] = toPeer[t] /\ peer'[t].shut = peer[t].shut
        /\ \/ /\ peer[t].st = "idle" /\ peer'[t].st = "opening" /\ (peer'[t].owes <=> peer[t].owes)
              /\ \E e \in BOOLEAN : toBridge'[t] = Append(toBridge[t], In("OPEN", None, e))
           \/ /\ peer[t].st = "open"
              /\ \/ /\ peer'[t].st = "open" /\ peer[t].owes /\ ~peer'[t].owes
                    /\ peer'[t].waiting <=> peer[t].waiting
                    /\ toBridge'[t] = Append(toBridge[t], In("OKAY", peer[t].id, FALSE))
                 \/ /\ peer'[t].st = "open" /\ (peer'[t].owes <=> peer[t].owes)
                    /\ toBridge'[t] = Append(toBridge[t], In("WRTE", peer[t].id, FALSE))
                 \/ /\ peer'[t].st = "closed"
                    /\ toBridge'[t] = Append(toBridge[t], In("CLSE", peer[t].id, FALSE))
    BY <1>5, Sent
  <2>2. ~peer[t].shut /\ ~peer'[t].shut
    BY <2>1 DEF OwedInv
  <2>3. \A c \in {"OKAY", "WRTE", "CLSE"} : toBridge'[t] = Append(toBridge[t], In(c, peer[t].id, FALSE)) =>
           \A d : Num(toBridge'[t], d) = IF c = d THEN Num(toBridge[t], d) + 1 ELSE Num(toBridge[t], d)
    <3> SUFFICES ASSUME NEW c \in {"OKAY", "WRTE", "CLSE"},
                        toBridge'[t] = Append(toBridge[t], In(c, peer[t].id, FALSE))
                 PROVE  \A d : Num(toBridge'[t], d) = IF c = d THEN Num(toBridge[t], d) + 1
                                                     ELSE Num(toBridge[t], d)
      OBVIOUS
    <3>1. PICK p : p = In(c, peer[t].id, FALSE)
      OBVIOUS
    <3>2. p \in InPacket /\ p.cmd = c /\ toBridge'[t] = Append(toBridge[t], p)
      BY <3>1, PacketTypes DEF In
    <3> QED
      BY <3>2, CountsSent
  <2>4. CASE peer[t].st = "idle"
    <3>1. PICK e \in BOOLEAN : toBridge'[t] = Append(toBridge[t], In("OPEN", None, e))
      BY <2>1, <2>4
    <3>2. PICK p : p = In("OPEN", None, e)
      OBVIOUS
    <3>3. p \in InPacket /\ p.cmd = "OPEN" /\ toBridge'[t] = Append(toBridge[t], p)
      BY <3>1, <3>2, PacketTypes DEF In
    <3>4. Num(toBridge'[t], "OKAY") = Num(toBridge[t], "OKAY")
      BY <3>3, CountsSent
    <3>5. peer'[t].st = "opening" /\ (peer'[t].owes <=> peer[t].owes)
      BY <2>1, <2>4
    <3>6. Tokens(t)' = Tokens(t)
      BY <2>1, <3>4, <3>5 DEF Tokens
    <3> QED
      BY <1>3, <2>2, <2>4, <3>5, <3>6 DEF OwedInv
  <2>5. CASE /\ peer[t].st = "open" /\ peer'[t].st = "open" /\ peer[t].owes
             /\ peer'[t].waiting <=> peer[t].waiting
             /\ toBridge'[t] = Append(toBridge[t], In("OKAY", peer[t].id, FALSE))
    <3>1. /\ Num(toBridge'[t], "OKAY") = Num(toBridge[t], "OKAY") + 1
          /\ Num(toBridge'[t], "WRTE") = Num(toBridge[t], "WRTE")
      BY <2>3, <2>5
    <3>2. Tokens(t)' # 0
      BY <1>1, <1>2, <3>1 DEF Tokens
    <3> QED
      BY <1>3, <2>1, <2>2, <2>5, <3>1, <3>2 DEF OwedInv
  <2>6. CASE /\ peer[t].st = "open" /\ peer'[t].st = "open" /\ (peer'[t].owes <=> peer[t].owes)
             /\ toBridge'[t] = Append(toBridge[t], In("WRTE", peer[t].id, FALSE))
    <3>1. /\ Num(toBridge'[t], "OKAY") = Num(toBridge[t], "OKAY")
          /\ Num(toBridge'[t], "WRTE") = Num(toBridge[t], "WRTE") + 1
      BY <2>3, <2>6
    <3>2. Tokens(t)' = Tokens(t)
      BY <2>1, <2>6, <3>1 DEF Tokens
    <3>3. Num(toPeer'[t], "OKAY") + Num(toBridge'[t], "WRTE") # 0
      BY <1>1, <1>2, <3>1
    <3> QED
      BY <1>3, <2>2, <2>6, <3>2, <3>3 DEF OwedInv
  <2>7. CASE /\ peer[t].st = "open" /\ peer'[t].st = "closed"
             /\ toBridge'[t] = Append(toBridge[t], In("CLSE", peer[t].id, FALSE))
    <3>1. Num(toBridge'[t], "CLSE") = Num(toBridge[t], "CLSE") + 1
      BY <2>3, <2>7
    <3>2. Num(toBridge'[t], "CLSE") # 0
      BY <1>1, <3>1
    <3> QED
      BY <2>2, <2>7, <3>2 DEF OwedInv
  <2> QED
    BY <2>1, <2>4, <2>5, <2>6, <2>7
<1> QED
  BY <1>4, <1>5 DEF RemoteSteps

\* What DueInv and LeftInv say of a service and its transport alone.
SelfInv(s) ==
    /\ svc[s].chain = "pushing" /\ ~svc[s].ended /\ ~svc[s].needAck
         => dev[s].read = dev[s].sent /\ (dev[s].eof => dev[s].ending)
    /\ svc[s].chain = "done" => svc[s].ended
    /\ svc[s].ended => svc[s].cleanup # "waiting"

\* A step keeps it, loses no service and finishes none but by its cleanup.
Goes(t) ==
    /\ SelfInv(t)'
    /\ svc'[t].chain = "none" => svc[t].chain = "none"
    /\ svc'[t].cleanup = "done" => svc[t].cleanup = "done" \/ Cleanup(t)

\* A step that sets fields of one service, and neither pushes nor ends it.
LEMMA GoesSets ==
    ASSUME NEW s \in Svcs, NEW t \in Svcs, SelfInv(t),
           \A r \in Svcs \ {s} : svc'[r] = svc[r] /\ dev'[r] = dev[r],
           \/ svc'[s].chain = svc[s].chain
           \/ svc'[s].chain \notin {"pushing", "done", "none"},
           svc'[s].ended <=> svc[s].ended,
           svc'[s].needAck <=> svc[s].needAck,
           \/ svc'[s].cleanup = svc[s].cleanup
           \/ ~svc[s].ended /\ svc'[s].cleanup # "done"
           \/ svc'[s].cleanup = "due",
           svc'[s].chain = "pushing" =>
             /\ dev'[s].read = dev[s].read /\ dev'[s].sent = dev[s].sent
             /\ dev'[s].eof = dev[s].eof /\ dev'[s].ending = dev[s].ending
    PROVE  Goes(t)
<1>1. CASE t # s
  BY <1>1 DEF SelfInv, Goes
<1>2. CASE t = s
  BY <1>2 DEF SelfInv, Goes
<1> QED
  BY <1>1, <1>2

\* A step that leaves the services and their transports alone.
LEMMA GoesIdle ==
    ASSUME NEW t \in Svcs, SelfInv(t), svc'[t] = svc[t], dev'[t] = dev[t]
    PROVE  Goes(t)
BY DEF SelfInv, Goes

\* _tryPush leaves nothing behind, or waits for an A_OKAY.
LEMMA GoesPush ==
    ASSUME TypeOK, NEW s \in Svcs, NEW v \in Service, NEW d \in Transport, d.read <= d.sent,
           TryPush(s, v, d), NEW t \in Svcs, SelfInv(t),
           v.ended = svc[s].ended, v.cleanup = svc[s].cleanup,
           v.chain = svc[s].chain \/ v.chain = "pushing"
    PROVE  Goes(t)
<1>1. svc \in [Svcs -> Service] /\ dev \in [Svcs -> Transport]
  BY DEF TypeOK
<1>2. CASE t # s
  <2>1. svc'[t] = svc[t] /\ dev'[t] = dev[t]
    BY <1>2, PushEffect
  <2> QED
    BY <2>1, GoesIdle
<1>3. CASE t = s
  <2>1. svc'[s].chain = v.chain /\ svc'[s].ended = v.ended /\ svc'[s].cleanup = v.cleanup
    BY PushEffect
  <2>2. CASE ~MayPush(v)
    <3>1. svc'[s] = v
      BY <1>1, <2>2 DEF TryPush
    <3> QED
      BY <1>3, <2>2, <3>1 DEF MayPush, SelfInv, Goes
  <2>3. CASE MayPush(v)
    <3>1. /\ svc'[s] = [v EXCEPT !.needAck = @ \/ Chunk(d) > 0]
          /\ dev'[s] = [d EXCEPT !.read = ReadUpTo(d), !.ending = @ \/ ReadsEof(d)]
      BY <1>1, <2>3 DEF TryPush
    <3>2. svc'[s].needAck = (v.needAck \/ Chunk(d) > 0)
      BY <3>1 DEF Service
    <3>3. /\ dev'[s].read = ReadUpTo(d) /\ dev'[s].sent = d.sent /\ dev'[s].eof = d.eof
          /\ dev'[s].ending = (d.ending \/ ReadsEof(d))
      BY <3>1 DEF Transport
    <3>4. CASE Chunk(d) > 0
      BY <1>3, <2>1, <3>2, <3>4 DEF SelfInv, Goes
    <3>5. CASE Chunk(d) = 0
      <4>1. d.sent - d.read = 0 /\ 0 < MaxPayload
        BY <3>5, BridgeAssumption DEF Chunk, Buffered, BridgeAssumption
      <4>2. ReadUpTo(d) = d.sent
        BY <4>1, <3>5 DEF ReadUpTo, Transport
      <4>3. d.eof => ReadsEof(d)
        BY <4>1, <4>2, <3>5 DEF ReadsEof
      <4> QED
        BY <1>3, <2>1, <3>3, <4>2, <4>3 DEF SelfInv, Goes
    <3>6. Chunk(d) \in Nat
      BY ChunkBounds
    <3> QED
      BY <3>4, <3>5, <3>6
  <2> QED
    BY <2>2, <2>3
<1> QED
  BY <1>2, <1>3

\* Service.end makes the cleanup due that waits for it.
LEMMA GoesEnd ==
    ASSUME TypeOK, NEW S \in SUBSET Svcs, NEW v \in [Svcs -> Service], EndServices(S, v),
           NEW t \in Svcs, SelfInv(t), v[t].ended = svc[t].ended,
           t \notin S => v[t] = svc[t],
           v[t].chain = svc[t].chain \/ v[t].chain = "done",
           v[t].cleanup = svc[t].cleanup \/ v[t].cleanup \in {"due", "done"},
           v[t].cleanup = "done" => svc[t].cleanup = "done" \/ Cleanup(t)
    PROVE  Goes(t)
<1>1. /\ svc'[t].chain = v[t].chain
      /\ svc'[t].ended <=> (v[t].ended \/ t \in S)
      /\ svc'[t].cleanup = IF t \in S /\ ~v[t].ended /\ v[t].cleanup = "waiting"
                           THEN "due" ELSE v[t].cleanup
  BY EndEffect
<1>2. CASE t \in S
  BY <1>1, <1>2 DEF SelfInv, Goes
<1>3. CASE t \notin S
  <2>1. svc'[t] = svc[t] /\ dev'[t] = dev[t]
    BY <1>3 DEF EndServices
  <2> QED
    BY <2>1, GoesIdle
<1> QED
  BY <1>2, <1>3

\* The handlers of packets.
LEMMA GoesPacket ==
    ASSUME IInv, MapInv, TalkInv, NEW s \in Svcs, HandlePacket(s), NEW t \in Svcs, SelfInv(t)
    PROVE  Goes(t)
<1>0. /\ TypeOK /\ svc \in [Svcs -> Service] /\ dev \in [Svcs -> Transport]
      /\ \A r \in Svcs : dev[r].read <= dev[r].sent
  BY DEF IInv, TypeOK, StreamInv
<1>1. CASE Discard(s) \/ Unauthorized(s) \/ OpenEmpty(s) \/ Ignore(s)
  <2>1. svc' = svc /\ dev' = dev
    BY <1>1 DEF Discard, Unauthorized, OpenEmpty, Ignore
  <2> QED
    BY <2>1, GoesIdle
<1>2. CASE OpenService(s) \/ OpenCollides(s)
  <2>1. ~svc[s].ended
    <3>1. svc[s].chain = "none"
      <4>1. toBridge[s] # <<>> /\ Head(toBridge[s]).cmd = "OPEN"
        BY <1>2 DEF OpenService, OpenCollides, Arrives
      <4>2. OpenInv(s) /\ toBridge[s] \in Seq(InPacket)
        BY DEF IInv, TypeOK
      <4> QED
        BY <4>1, <4>2 DEF OpenInv
    <3> QED
      BY <3>1 DEF TalkInv, OpenedInv
  <2>2. PICK c, k : /\ c \in {"transport", "rejected"} /\ k \in {"waiting", "due"} /\ dev' = dev
                    /\ svc' = [svc EXCEPT ![s] = [svc[s] EXCEPT !.localId = NextId,
                                                    !.chain = c, !.cleanup = k]]
    <3>1. CASE OpenService(s)
      BY <3>1, <1>0 DEF OpenService, Service
    <3>2. CASE OpenCollides(s)
      BY <3>2, <1>0 DEF OpenCollides, Service
    <3> QED
      BY <1>2, <3>1, <3>2
  <2>3. /\ \A r \in Svcs \ {s} : svc'[r] = svc[r] /\ dev'[r] = dev[r]
        /\ svc'[s].chain = c /\ svc'[s].ended = svc[s].ended
        /\ svc'[s].needAck = svc[s].needAck /\ svc'[s].cleanup = k
    BY <2>2, <1>0 DEF Service
  <2> QED
    BY <2>1, <2>2, <2>3, GoesSets
<1>3. CASE Premature(s)
  <2>1. PICK r : r = Target(s)
    OBVIOUS
  <2>2. r \in Svcs /\ dev' = dev /\ svc' = [svc EXCEPT ![r].raising = TRUE]
    BY <1>3, <2>1, TargetType DEF Premature
  <2>3. /\ \A q \in Svcs \ {r} : svc'[q] = svc[q] /\ dev'[q] = dev[q]
        /\ svc'[r].chain = svc[r].chain /\ svc'[r].ended = svc[r].ended
        /\ svc'[r].needAck = svc[r].needAck /\ svc'[r].cleanup = svc[r].cleanup
    BY <2>2, <1>0 DEF Service
  <2> QED
    BY <2>2, <2>3, GoesSets
<1>4. CASE HandleOkay(s)
  <2>1. PICK r : r = Target(s)
    OBVIOUS
  <2>2. PICK v : v = [svc[r] EXCEPT !.needAck = FALSE]
    OBVIOUS
  <2>3. r \in Svcs /\ TryPush(r, v, dev[r])
    BY <1>4, <2>1, <2>2, TargetType DEF HandleOkay, Usable
  <2>4. /\ v \in Service /\ v.ended = svc[r].ended /\ v.cleanup = svc[r].cleanup
        /\ v.chain = svc[r].chain
    BY <2>2, <2>3, <1>0 DEF Service
  <2>5. dev[r] \in Transport /\ dev[r].read <= dev[r].sent
    BY <2>3, <1>0
  <2> QED
    BY <1>0, <2>3, <2>4, <2>5, GoesPush
<1>5. CASE HandleWrite(s)
  <2>1. PICK r : r = Target(s)
    OBVIOUS
  <2>2. r \in Svcs /\ svc' = svc /\ dev' = [dev EXCEPT ![r] = PassOn(dev[r])]
    BY <1>5, <2>1, TargetType DEF HandleWrite, Usable
  <2>3. /\ \A q \in Svcs \ {r} : dev'[q] = dev[q]
        /\ dev'[r].read = dev[r].read /\ dev'[r].sent = dev[r].sent
        /\ dev'[r].eof = dev[r].eof /\ dev'[r].ending = dev[r].ending
    BY <2>2, <1>0 DEF PassOn, Transport
  <2> QED
    BY <2>2, <2>3, GoesSets
<1>6. CASE HandleClose(s)
  <2>1. PICK S : S = {Target(s)}
    OBVIOUS
  <2>2. S \in SUBSET Svcs /\ EndServices(S, svc)
    BY <1>6, <2>1, TargetType DEF HandleClose, Usable
  <2> QED
    BY <1>0, <2>2, GoesEnd
<1> QED
  BY <1>1, <1>2, <1>3, <1>4, <1>5, <1>6 DEF HandlePacket

\* The deferred parts of the chains.
LEMMA GoesResume ==
    ASSUME IInv, NEW s \in Svcs, Resume(s), NEW t \in Svcs, SelfInv(t)
    PROVE  Goes(t)
<1>0. /\ TypeOK /\ svc \in [Svcs -> Service] /\ dev \in [Svcs -> Transport]
      /\ dev[s] \in Transport /\ dev[s].read <= dev[s].sent
  BY DEF IInv, TypeOK, StreamInv
<1>1. ASSUME NEW w \in Service, EndServices({s}, [svc EXCEPT ![s] = w]), w.ended = svc[s].ended,
             w.chain = svc[s].chain \/ w.chain = "done",
             w.cleanup = svc[s].cleanup \/ w.cleanup \in {"due", "done"},
             w.cleanup = "done" => svc[s].cleanup = "done" \/ Cleanup(s)
      PROVE  Goes(t)
  <2>1. PICK S, v : S = {s} /\ v = [svc EXCEPT ![s] = w]
    OBVIOUS
  <2>2. /\ S \in SUBSET Svcs /\ v \in [Svcs -> Service] /\ EndServices(S, v)
        /\ v[s] = w /\ \A r \in Svcs \ {s} : v[r] = svc[r]
    BY <1>0, <1>1, <2>1
  <2>3. CASE t = s
    BY <1>0, <1>1, <2>2, <2>3, GoesEnd, ZenonT(30)
  <2>4. CASE t # s
    BY <1>0, <2>1, <2>2, <2>4, GoesEnd
  <2> QED
    BY <2>3, <2>4
<1>2. CASE HandleError(s)
  <2>1. PICK k : k = IF svc[s].cleanup = "waiting" THEN "due" ELSE svc[s].cleanup
    OBVIOUS
  <2>2. PICK w : w = [svc[s] EXCEPT !.raising = FALSE, !.cleanup = k]
    OBVIOUS
  <2>3. EndServices({s}, [svc EXCEPT ![s] = w])
    BY <1>2, <1>0, <2>1, <2>2 DEF HandleError, Service
  <2>4. w \in Service /\ w.ended = svc[s].ended /\ w.chain = svc[s].chain /\ w.cleanup = k
    BY <1>0, <2>1, <2>2 DEF Service
  <2> QED
    BY <1>1, <2>1, <2>3, <2>4
<1>3. CASE StartPush(s)
  <2>1. CASE svc[s].hasTr
    <3>1. PICK v : v = [svc[s] EXCEPT !.chain = "pushing"]
      OBVIOUS
    <3>2. TryPush(s, v, dev[s])
      BY <1>3, <2>1, <3>1 DEF StartPush
    <3>3. /\ v \in Service /\ v.ended = svc[s].ended /\ v.cleanup = svc[s].cleanup
          /\ v.chain = "pushing"
      BY <1>0, <3>1 DEF Service, Chains
    <3> QED
      BY <1>0, <3>2, <3>3, GoesPush
  <2>2. CASE ~svc[s].hasTr
    <3>1. svc' = [svc EXCEPT ![s] = [svc[s] EXCEPT !.chain = "finally"]] /\ dev' = dev
      BY <1>3, <2>2 DEF StartPush
    <3>2. /\ \A q \in Svcs \ {s} : svc'[q] = svc[q]
          /\ svc'[s].chain = "finally" /\ svc'[s].ended = svc[s].ended
          /\ svc'[s].needAck = svc[s].needAck /\ svc'[s].cleanup = svc[s].cleanup
      BY <3>1, <1>0 DEF Service
    <3> QED
      BY <3>1, <3>2, GoesSets
  <2> QED
    BY <2>1, <2>2
<1>4. CASE TransportEnds(s)
  <2>1. svc' = [svc EXCEPT ![s] = [svc[s] EXCEPT !.chain = "finally"]] /\ dev' = dev
    BY <1>4 DEF TransportEnds
  <2>2. /\ \A q \in Svcs \ {s} : svc'[q] = svc[q]
        /\ svc'[s].chain = "finally" /\ svc'[s].ended = svc[s].ended
        /\ svc'[s].needAck = svc[s].needAck /\ svc'[s].cleanup = svc[s].cleanup
    BY <2>1, <1>0 DEF Service
  <2> QED
    BY <2>1, <2>2, GoesSets
<1>5. CASE Finally(s)
  <2>1. PICK w : w = [svc[s] EXCEPT !.chain = "done"]
    OBVIOUS
  <2>2. EndServices({s}, [svc EXCEPT ![s] = w])
    BY <1>5, <1>0, <2>1 DEF Finally
  <2>3. /\ w \in Service /\ w.ended = svc[s].ended /\ w.chain = "done"
        /\ w.cleanup = svc[s].cleanup
    BY <1>0, <2>1 DEF Service, Chains
  <2> QED
    BY <1>1, <2>2, <2>3
<1>6. CASE Cleanup(s)
  <2>1. PICK w : w = [svc[s] EXCEPT !.cleanup = "done"]
    OBVIOUS
  <2>2. EndServices({s}, [svc EXCEPT ![s] = w])
    BY <1>6, <1>0, <2>1 DEF Cleanup
  <2>3. w \in Service /\ w.ended = svc[s].ended /\ w.chain = svc[s].chain /\ w.cleanup = "done"
    BY <1>0, <2>1 DEF Service
  <2> QED
    BY <1>1, <1>6, <2>2, <2>3
<1> QED
  BY <1>2, <1>3, <1>4, <1>5, <1>6 DEF Resume

\* The answers of the server, and the device.
LEMMA GoesServer ==
    ASSUME IInv, NEW s \in Svcs, ServerAnswers(s) \/ DeviceSide(s), NEW t \in Svcs, SelfInv(t)
    PROVE  Goes(t)
<1>0. /\ TypeOK /\ svc \in [Svcs -> Service] /\ dev \in [Svcs -> Transport]
      /\ svc[s] \in Service /\ dev[s] \in Transport /\ dev[s].read <= dev[s].sent
  BY DEF IInv, TypeOK, StreamInv
<1>1. ASSUME NEW w, w.chain \notin {"pushing", "done", "none"}, w.ended = svc[s].ended,
             w.needAck = svc[s].needAck, w.cleanup = svc[s].cleanup,
             svc' = [svc EXCEPT ![s] = w], \A r \in Svcs \ {s} : dev'[r] = dev[r]
      PROVE  Goes(t)
  <2>1. svc'[s] = w /\ \A r \in Svcs \ {s} : svc'[r] = svc[r]
    BY <1>0, <1>1
  <2> QED
    BY <1>1, <2>1, GoesSets
<1>2. CASE TransportReady(s)
  <2>1. PICK c, w : /\ c = AfterTransport(svc[s])
                    /\ w = [svc[s] EXCEPT !.hasTr = TRUE, !.chain = c]
    OBVIOUS
  <2>2. /\ svc' = [svc EXCEPT ![s] = w] /\ dev' = [dev EXCEPT ![s].conn = "open"]
        /\ c \in {"finally", "reply"}
    BY <1>2, <1>0, <2>1 DEF TransportReady, AfterTransport, Service
  <2>3. /\ w.chain = c /\ w.ended = svc[s].ended /\ w.needAck = svc[s].needAck
        /\ w.cleanup = svc[s].cleanup
    BY <1>0, <2>1 DEF Service
  <2>4. \A r \in Svcs \ {s} : dev'[r] = dev[r]
    BY <1>0, <2>2
  <2> QED
    BY <1>1, <2>2, <2>3, <2>4
<1>3. CASE TransportFailed(s) \/ ReplyFails(s) \/ (TransportErrors(s) /\ svc[s].chain = "pushing")
  <2>1. PICK w : w = [svc[s] EXCEPT !.chain = "finally"]
    OBVIOUS
  <2>2. svc' = [svc EXCEPT ![s] = w] /\ \A r \in Svcs \ {s} : dev'[r] = dev[r]
    BY <1>3, <1>0, <2>1 DEF TransportFailed, ReplyFails, TransportErrors
  <2>3. /\ w.chain = "finally" /\ w.ended = svc[s].ended /\ w.needAck = svc[s].needAck
        /\ w.cleanup = svc[s].cleanup
    BY <1>0, <2>1 DEF Service
  <2> QED
    BY <1>1, <2>2, <2>3
<1>4. CASE ReplyOkay(s)
  <2>1. PICK w : w = [svc[s] EXCEPT !.opened = TRUE, !.chain = "opened"]
    OBVIOUS
  <2>2. svc' = [svc EXCEPT ![s] = w] /\ dev' = dev
    BY <1>4, <1>0, <2>1 DEF ReplyOkay, Service
  <2>3. /\ w.chain = "opened" /\ w.ended = svc[s].ended /\ w.needAck = svc[s].needAck
        /\ w.cleanup = svc[s].cleanup
    BY <1>0, <2>1 DEF Service
  <2> QED
    BY <1>1, <2>2, <2>3
<1>5. ASSUME NEW d \in Transport, DeviceEmits(s, d), d.read <= d.sent
      PROVE  Goes(t)
  <2>1. CASE svc[s].chain = "pushing"
    <3>1. TryPush(s, svc[s], d)
      BY <1>5, <2>1 DEF DeviceEmits
    <3> QED
      BY <1>0, <1>5, <3>1, GoesPush
  <2>2. CASE svc[s].chain # "pushing"
    <3>1. svc' = svc /\ \A r \in Svcs \ {s} : dev'[r] = dev[r]
      BY <1>0, <1>5, <2>2 DEF DeviceEmits
    <3> QED
      BY <2>2, <3>1, GoesSets
  <2> QED
    BY <2>1, <2>2
<1>6. CASE DeviceSends(s)
  <2>1. PICK n \in 1 .. (MaxDev - dev[s].sent) : DeviceEmits(s, [dev[s] EXCEPT !.sent = @ + n])
    BY <1>6 DEF DeviceSends
  <2>2. PICK d : d = [dev[s] EXCEPT !.sent = @ + n]
    OBVIOUS
  <2>3. d \in Transport /\ d.read <= d.sent
    BY ONLY <1>0, <2>1, <2>2, BridgeAssumption DEF Transport, BridgeAssumption
  <2> QED
    BY <1>5, <2>1, <2>2, <2>3
<1>7. CASE DeviceCloses(s)
  <2>1. PICK d : d = [dev[s] EXCEPT !.eof = TRUE]
    OBVIOUS
  <2>2. d \in Transport /\ d.read <= d.sent
    BY ONLY <1>0, <2>1 DEF Transport
  <2> QED
    BY <1>5, <1>7, <2>1, <2>2 DEF DeviceCloses
<1>8. CASE TransportErrors(s) /\ svc[s].chain # "pushing"
  <2>1. svc' = svc /\ \A r \in Svcs \ {s} : dev'[r] = dev[r]
    BY <1>8, <1>0 DEF TransportErrors
  <2> QED
    BY <1>8, <2>1, GoesSets
<1> QED
  BY <1>2, <1>3, <1>4, <1>6, <1>7, <1>8 DEF ServerAnswers, DeviceSide

\* Every step.
LEMMA GoesNext ==
    ASSUME IInv, MapInv, TalkInv, [Next]_vars, NEW t \in Svcs, SelfInv(t)
    PROVE  Goes(t)
<1>1. CASE UNCHANGED vars
  BY <1>1, GoesIdle DEF vars
<1>2. CASE Accept
  BY <1>2, GoesIdle DEF Accept
<1>3. CASE SocketFails \/ SocketEnds
  <2>1. CASE sockEnded
    <3>1. svc' = svc /\ dev' = dev
      BY <1>3, <2>1 DEF SocketFails, SocketEnds, EndSocket
    <3> QED
      BY <3>1, GoesIdle
  <2>2. CASE ~sockEnded
    <3>1. EndServices(InMap, svc)
      BY <1>3, <2>2 DEF SocketFails, SocketEnds, EndSocket, EndAll
    <3>2. TypeOK /\ InMap \in SUBSET Svcs /\ svc \in [Svcs -> Service]
      BY DEF IInv, TypeOK, InMap
    <3> QED
      BY <3>1, <3>2, GoesEnd
  <2> QED
    BY <2>1, <2>2
<1>4. ASSUME NEW s \in Svcs, PeerSide(s) PROVE Goes(t)
  <2>1. svc' = svc /\ dev' = dev
    BY <1>4 DEF PeerSide, PeerOpens, PeerReceives, PeerAcks, PeerWrites, PeerCloses, PeerStrays
  <2> QED
    BY <2>1, GoesIdle
<1> QED
  BY <1>1, <1>2, <1>3, <1>4, GoesPacket, GoesResume, GoesServer DEF Next

\* An A_OPEN that no longer is in flight has made a service or ends the socket.
LEMMA AskedNext ==
    ASSUME IInv, TalkInv, [Next]_vars, NEW t \in Svcs, DueInv(t),
           svc[t].chain = "none", svc'[t].chain = "none", peer'[t].st # "idle"
    PROVE  InFlight(toBridge'[t], "OPEN") \/ failing' \/ sockEnded'
<1>0. /\ toBridge[t] \in Seq(InPacket) /\ peer \in [Svcs -> Peer] /\ svc \in [Svcs -> Service]
      /\ toBridge \in [Svcs -> Seq(InPacket)]
      /\ peer[t].st # "idle" => InFlight(toBridge[t], "OPEN") \/ failing \/ sockEnded
      /\ peer[t].st = "idle" => toBridge[t] = <<>>
      /\ \A i \in DOMAIN toBridge[t] : toBridge[t][i].cmd = "OPEN" => i = 1
  BY DEF IInv, TypeOK, OpenInv, DueInv
<1>1. ASSUME peer'[t].st = peer[t].st, toBridge'[t] = toBridge[t], failing' = failing,
             sockEnded' = sockEnded
      PROVE  InFlight(toBridge'[t], "OPEN") \/ failing' \/ sockEnded'
  BY <1>0, <1>1
<1>2. CASE UNCHANGED vars
  BY <1>1, <1>2 DEF vars
<1>3. CASE Accept
  BY <1>1, <1>3 DEF Accept
<1>4. CASE SocketFails \/ SocketEnds
  BY <1>4 DEF SocketFails, SocketEnds, EndSocket
<1>5. ASSUME NEW s \in Svcs, HandlePacket(s)
      PROVE  InFlight(toBridge'[t], "OPEN") \/ failing' \/ sockEnded'
  <2>1. /\ peer' = peer /\ toBridge[s] # <<>> /\ sockEnded' = sockEnded
        /\ toBridge' = [toBridge EXCEPT ![s] = Tail(toBridge[s])]
        /\ failing' = failing \/ failing'
    BY <1>5 DEF HandlePacket, Discard, Unauthorized, OpenEmpty, OpenService, OpenCollides, Ignore,
                Premature, HandleOkay, HandleWrite, HandleClose, Forwards, Arrives, Consume, sockVars
  <2>2. CASE t # s
    BY <1>0, <2>1, <2>2
  <2>3. CASE t = s
    <3>1. CASE Head(toBridge[s]).cmd = "OPEN"
      <4>1. CASE Discard(s) \/ Unauthorized(s) \/ OpenEmpty(s)
        BY <2>1, <4>1 DEF Discard, Unauthorized, OpenEmpty
      <4>2. CASE OpenService(s) \/ OpenCollides(s)
        <5>1. svc'[s].chain # "none"
          BY <1>0, <4>2 DEF OpenService, OpenCollides, Service
        <5> QED
          BY <2>3, <5>1
      <4>3. ~(Ignore(s) \/ Premature(s) \/ HandleOkay(s) \/ HandleWrite(s) \/ HandleClose(s))
        BY <3>1 DEF Ignore, Premature, HandleOkay, HandleWrite, HandleClose, Forwards, Arrives
      <4> QED
        BY <1>5, <4>1, <4>2, <4>3 DEF HandlePacket
    <3>2. CASE Head(toBridge[s]).cmd # "OPEN"
      <4>1. ~InFlight(toBridge[t], "OPEN")
        <5>1. toBridge[t][1] = Head(toBridge[t])
          BY <1>0, <2>1, <2>3
        <5> QED
          BY <1>0, <2>3, <3>2, <5>1 DEF InFlight
      <4>2. peer[t].st # "idle"
        BY <2>1
      <4> QED
        BY <1>0, <2>1, <4>1, <4>2
    <3> QED
      BY <3>1, <3>2
  <2> QED
    BY <2>2, <2>3
<1>6. ASSUME NEW s \in Svcs, Resume(s) \/ ServerAnswers(s) \/ DeviceSide(s)
      PROVE  InFlight(toBridge'[t], "OPEN") \/ failing' \/ sockEnded'
  <2>1. UNCHANGED <<peer, toBridge, failing, sockEnded>>
    BY <1>6 DEF Resume, HandleError, StartPush, TransportEnds, Finally, Cleanup, sockVars,
                ServerAnswers, TransportReady, TransportFailed, ReplyOkay, ReplyFails,
                DeviceSide, DeviceSends, DeviceCloses, DeviceEmits, TransportErrors
  <2> QED
    BY <1>1, <2>1
<1>7. ASSUME NEW s \in Svcs, PeerSide(s)
      PROVE  InFlight(toBridge'[t], "OPEN") \/ failing' \/ sockEnded'
  <2>1. failing' = failing /\ sockEnded' = sockEnded
    BY <1>7 DEF PeerSide, PeerOpens, PeerReceives, PeerAcks, PeerWrites, PeerCloses, PeerStrays,
                sockVars
  <2>2. CASE PeerReceives(s)
    <3>1. toBridge' = toBridge
      BY <2>2 DEF PeerReceives
    <3>2. peer[t].st # "idle"
      <4>1. CASE t # s
        BY <1>0, <2>2, <4>1 DEF PeerReceives
      <4>2. CASE t = s
        <5>1. PICK p : p = Head(toPeer[t])
          OBVIOUS
        <5>2. /\ toPeer[t] # <<>> /\ p \in OutPacket
              /\ p.cmd = "WRTE" => peer'[t].st = peer[t].st
              /\ p.cmd = "OKAY" => (peer[t].st # "opening" => peer'[t].st = peer[t].st)
          BY <2>2, <4>2, <5>1, Received
        <5>3. p.cmd # "CLSE"
          <6>1. toPeer[t] \in Seq(OutPacket)
            BY DEF IInv, TypeOK
          <6>2. 1 \in DOMAIN toPeer[t] /\ toPeer[t][1] = p
            BY ONLY <5>1, <5>2, <6>1
          <6>3. ~svc[t].ended
            BY DEF TalkInv, OpenedInv
          <6> QED
            BY <6>2, <6>3 DEF TalkInv, CloseLastInv, InFlight
        <5> QED
          BY <5>2, <5>3 DEF OutPacket
      <4> QED
        BY <4>1, <4>2
    <3> QED
      BY <1>0, <2>1, <3>1, <3>2
  <2>3. ASSUME NEW p \in InPacket, toBridge' = [toBridge EXCEPT ![s] = Append(toBridge[s], p)],
               peer[t].st = "idle" /\ t = s => p.cmd = "OPEN", t # s => peer'[t] = peer[t]
        PROVE  InFlight(toBridge'[t], "OPEN") \/ failing' \/ sockEnded'
    <3>1. CASE t # s
      BY <1>0, <1>1, <2>1, <2>3, <3>1
    <3>2. CASE t = s
      <4>1. toBridge'[t] = Append(toBridge[t], p)
        BY <1>0, <2>3, <3>2
      <4>2. InFlight(toBridge[t], "OPEN") \/ p.cmd = "OPEN" => InFlight(toBridge'[t], "OPEN")
        <5>1. PICK q : q = toBridge[t]
          OBVIOUS
        <5>2. q \in Seq(InPacket) /\ toBridge'[t] = Append(q, p)
          BY <1>0, <4>1, <5>1
        <5>3. InFlight(q, "OPEN") \/ p.cmd = "OPEN" => InFlight(Append(q, p), "OPEN")
          <6>1. /\ \A i \in DOMAIN q : i \in DOMAIN Append(q, p) /\ Append(q, p)[i] = q[i]
                /\ Len(q) + 1 \in DOMAIN Append(q, p) /\ Append(q, p)[Len(q) + 1] = p
            BY ONLY <5>2, p \in InPacket
          <6> QED
            BY ONLY <6>1 DEF InFlight
        <5> QED
          BY <5>1, <5>2, <5>3
      <4> QED
        BY <1>0, <2>1, <2>3, <3>2, <4>2
    <3> QED
      BY <3>1, <3>2
  <2>4. CASE PeerOpens(s)
    <3>1. PICK e \in BOOLEAN : Send(s, In("OPEN", None, e))
      BY <2>4 DEF PeerOpens
    <3>2. In("OPEN", None, e) \in InPacket /\ In("OPEN", None, e).cmd = "OPEN"
      BY PacketTypes DEF In
    <3>3. t # s => peer'[t] = peer[t]
      BY <1>0, <2>4 DEF PeerOpens
    <3> QED
      BY <2>3, <3>1, <3>2, <3>3 DEF Send
  <2>5. CASE PeerAcks(s) \/ PeerWrites(s) \/ PeerCloses(s)
    <3>1. PICK c \in {"OKAY", "WRTE", "CLSE"} : Send(s, In(c, peer[s].id, FALSE))
      BY <2>5 DEF PeerAcks, PeerWrites, PeerCloses
    <3>2. In(c, peer[s].id, FALSE) \in InPacket
      BY PacketTypes
    <3>3. peer[s].st # "idle" /\ (t # s => peer'[t] = peer[t])
      BY <1>0, <2>5 DEF PeerAcks, PeerWrites, PeerCloses
    <3> QED
      BY <2>3, <3>1, <3>2, <3>3 DEF Send
  <2>6. CASE PeerStrays(s)
    <3>1. PICK c \in {"OKAY", "WRTE", "CLSE"}, i \in Ids : Send(s, In(c, i, FALSE))
      BY <2>6 DEF PeerStrays
    <3>2. In(c, i, FALSE) \in InPacket
      BY DEF In, InPacket
    <3>3. peer[s].st # "idle" /\ (t # s => peer'[t] = peer[t])
      BY <2>6 DEF PeerStrays
    <3> QED
      BY <2>3, <3>1, <3>2, <3>3 DEF Send
  <2> QED
    BY <1>7, <2>2, <2>4, <2>5, <2>6 DEF PeerSide
<1> QED
  BY <1>2, <1>3, <1>4, <1>5, <1>6, <1>7 DEF Next

\* What enters the map is a new service.
LEMMA MapEntries ==
    ASSUME IInv, [Next]_vars, NEW i \in Ids
    PROVE  \/ remotes'[i] = remotes[i] \/ remotes'[i] = None
           \/ \E s \in Svcs : OpenService(s) /\ remotes'[i] = s
<1>0. remotes \in [Ids -> Svcs \cup {None}]
  BY DEF IInv, TypeOK
<1>1. CASE UNCHANGED vars
  BY <1>1 DEF vars
<1>2. CASE Accept \/ SocketFails \/ SocketEnds
  BY <1>2 DEF Accept, SocketFails, SocketEnds, EndSocket
<1>3. ASSUME NEW s \in Svcs, OpenService(s)
      PROVE  remotes'[i] = remotes[i] \/ remotes'[i] = s
  BY <1>0, <1>3 DEF OpenService
<1>4. ASSUME NEW s \in Svcs, Cleanup(s)
      PROVE  remotes'[i] = remotes[i] \/ remotes'[i] = None
  BY <1>0, <1>4 DEF Cleanup
<1>5. ASSUME NEW s \in Svcs, HandlePacket(s), ~OpenService(s)
      PROVE  remotes' = remotes
  BY <1>5 DEF HandlePacket, Discard, Unauthorized, OpenEmpty, OpenCollides, Ignore,
              Premature, HandleOkay, HandleWrite, HandleClose, sockVars
<1>6. ASSUME NEW s \in Svcs, Resume(s), ~Cleanup(s)
      PROVE  remotes' = remotes
  BY <1>6 DEF Resume, HandleError, StartPush, TransportEnds, Finally, sockVars
<1>7. ASSUME NEW s \in Svcs, ServerAnswers(s) \/ DeviceSide(s) \/ PeerSide(s)
      PROVE  remotes' = remotes
  BY <1>7 DEF ServerAnswers, TransportReady, TransportFailed, ReplyOkay, ReplyFails,
              DeviceSide, DeviceSends, DeviceCloses, DeviceEmits, TransportErrors, PeerSide,
              PeerOpens, PeerReceives, PeerAcks, PeerWrites, PeerCloses, PeerStrays, sockVars
<1> QED
  BY <1>1, <1>2, <1>3, <1>4, <1>5, <1>6, <1>7 DEF Next

\* A service whose cleanup has run is not in the map.
LEMMA LeftNext ==
    ASSUME IInv, MapInv, TalkInv, [Next]_vars, NEW t \in Svcs, LeftInv(t), SelfInv(t)
    PROVE  LeftInv(t)'
<1>1. Goes(t)
  BY GoesNext
<1>2. remotes \in [Ids -> Svcs \cup {None}] /\ svc \in [Svcs -> Service] /\ None \notin Svcs
  <2>1. None \notin Svcs
    BY BridgeAssumption DEF None, Svcs, BridgeAssumption
  <2> QED
    BY <2>1 DEF IInv, TypeOK
<1> SUFFICES ASSUME svc'[t].cleanup = "done", NEW i \in Ids PROVE remotes'[i] # t
  BY <1>1 DEF LeftInv, Goes, SelfInv
<1>3. CASE Cleanup(t)
  <2>1. remotes' = [remotes EXCEPT ![svc[t].localId] = None]
    BY <1>3 DEF Cleanup
  <2>2. remotes[i] = t => svc[t].localId = i
    BY <1>2 DEF MapInv, MapRight, InUse
  <2> QED
    BY <1>2, <2>1, <2>2
<1>4. CASE svc[t].cleanup = "done"
  <2>1. remotes[i] # t
    BY <1>4 DEF LeftInv
  <2>2. ASSUME NEW s \in Svcs, OpenService(s) PROVE s # t
    <3>1. svc'[s].cleanup = "waiting"
      BY <1>2, <2>2 DEF OpenService, Service
    <3> QED
      BY <3>1
  <2> QED
    BY <1>2, <2>1, <2>2, MapEntries
<1> QED
  BY <1>1, <1>3, <1>4 DEF Goes

\* Whatever is still to be done is due, or a packet is in flight that makes it so.
StallInv == \A s \in Svcs : OwedInv(s) /\ DueInv(s) /\ LeftInv(s)

\* StallInv is inductive under the other invariants.
LEMMA StallNext ==
    Conforms /\ IInv /\ IInv' /\ MapInv /\ TalkInv /\ FlowInv /\ StallInv /\ [Next]_vars => StallInv'
<1> SUFFICES ASSUME Conforms, IInv, IInv', MapInv, TalkInv, FlowInv, StallInv, [Next]_vars,
                    NEW t \in Svcs
             PROVE  OwedInv(t)' /\ DueInv(t)' /\ LeftInv(t)'
  BY DEF StallInv
<1>1. OwedInv(t) /\ DueInv(t) /\ LeftInv(t)
  BY DEF StallInv
<1>2. SelfInv(t)
  BY <1>1 DEF SelfInv, DueInv, LeftInv
<1>3. Goes(t)
  BY <1>2, GoesNext
<1>4. StreamStep(t)
  BY TalkSteps
<1>5. OwedInv(t)'
  BY <1>1, <1>4, OwedBridge, OwedRemote DEF StreamStep
<1>6. DueInv(t)'
  <2>1. svc'[t].chain = "none" /\ peer'[t].st # "idle"
          => InFlight(toBridge'[t], "OPEN") \/ failing' \/ sockEnded'
    BY <1>1, <1>3, AskedNext DEF Goes
  <2> QED
    BY <1>3, <2>1 DEF Goes, SelfInv, DueInv
<1>7. LeftInv(t)'
  BY <1>1, <1>2, LeftNext
<1> QED
  BY <1>5, <1>6, <1>7

\* With a remote that keeps to the protocol StallInv always holds.
LEMMA StallInvariance == ASSUME Conforms PROVE Spec => []StallInv
<1>1. IInv /\ IInv' /\ MapInv /\ TalkInv /\ FlowInv /\ StallInv /\ [Next]_vars => StallInv'
  BY StallNext
<1>2. Init => StallInv
  BY DEF Init, StallInv, OwedInv, DueInv, LeftInv, None
<1>3. Spec => []MapInv
  BY MapInvariance DEF Conforms
<1>4. Spec => []TalkInv
  BY TalkInvariance
<1> QED
  BY <1>1, <1>2, <1>3, <1>4, FlowInvariance, Invariance, PTL DEF Spec

\* _handleOpenPacket, _tryPush and the cleanups: an A_OPEN without an answer, bytes
\* or an end of the device that the remote has not heard of, a write of the remote
\* without its A_OKAY, its A_CLSE and an ended service in the map each have a
\* callback due or a packet in flight that serves them, and what the device sent
\* is pushed to its end.
THEOREM NoneForgotten == ASSUME Conforms PROVE Spec => []NothingLost
<1>1. IInv /\ MapInv /\ TalkInv /\ FlowInv /\ StallInv => NothingForgotten
  <2> SUFFICES ASSUME IInv, MapInv, TalkInv, FlowInv, StallInv, NEW s \in Svcs
               PROVE  /\ peer[s].st = "opening" /\ ~sockEnded
                           => Opening(s) \/ InFlight(toPeer[s], "CLSE")
                      /\ peer[s].st = "open" /\ (peer[s].got < dev[s].sent \/ dev[s].eof)
                           => Emptying(s) \/ InFlight(toPeer[s], "CLSE")
                      /\ peer[s].st = "open" /\ peer[s].waiting
                           => Accepting(s) \/ InFlight(toPeer[s], "CLSE")
                      /\ peer[s].st = "closed" /\ ~svc[s].ended => InFlight(toBridge[s], "CLSE")
                      /\ svc[s].ended => \A i \in Ids : remotes[i] = s => svc[s].cleanup = "due"
    BY DEF NothingForgotten
  <2>1. /\ OwedInv(s) /\ DueInv(s) /\ LeftInv(s) /\ LifeInv(s) /\ ToRemote(s) /\ FromRemote(s)
        /\ CloseLastInv(s) /\ KnownInv(s) /\ OpenedInv(s) /\ StreamInv(s)
        /\ svc[s] \in Service /\ toPeer[s] \in Seq(OutPacket)
    BY DEF StallInv, MapInv, TalkInv, FlowInv, IInv, TypeOK
  <2>2. /\ Num(toPeer[s], "WRTE") \in Nat /\ Num(toPeer[s], "OKAY") \in Nat
        /\ Num(toBridge[s], "WRTE") \in Nat /\ Num(toBridge[s], "OKAY") \in Nat
        /\ dev[s].read \in Nat /\ dev[s].sent \in Nat
    BY FlowTypes
  <2>3. /\ \A c : Num(toPeer[s], c) # 0 => InFlight(toPeer[s], c)
        /\ \A c : Num(toBridge[s], c) # 0 => InFlight(toBridge[s], c)
    BY FlowTypes DEF InFlight
  <2>4. svc[s].ended /\ peer[s].st # "closed" => InFlight(toPeer[s], "CLSE")
    BY <2>1 DEF CloseLastInv, OwedInv
  <2>5. svc[s].chain \in Chains
    BY <2>1 DEF Service
  <2>6. ASSUME peer[s].st = "opening", ~sockEnded, ~svc[s].ended PROVE Opening(s)
    <3>1. svc[s].chain = "none" => InFlight(toBridge[s], "OPEN") \/ failing
      BY <2>1, <2>6 DEF DueInv
    <3>2. svc[s].opened => InFlight(toPeer[s], "OKAY")
      <4>1. svc[s].opened => toPeer[s] # <<>> /\ Head(toPeer[s]).cmd = "OKAY"
        BY <2>1, <2>6 DEF FromRemote
      <4>2. toPeer[s] # <<>> => 1 \in DOMAIN toPeer[s] /\ toPeer[s][1] = Head(toPeer[s])
        BY <2>1
      <4> QED
        BY <4>1, <4>2 DEF InFlight
    <3>3. svc[s].chain \in {"opened", "pushing"} => svc[s].opened
      BY <2>1 DEF OpenedInv
    <3>4. svc[s].chain \notin {"rejected", "done"}
      BY <2>1, <2>6 DEF LifeInv, DueInv
    <3> QED
      BY <2>5, <3>1, <3>2, <3>3, <3>4 DEF Opening, Chains
  <2>7. ASSUME peer[s].st = "open", ~svc[s].ended, peer[s].got < dev[s].sent \/ dev[s].eof
        PROVE  Emptying(s)
    <3>1. CASE svc[s].needAck
      <4>1. Tokens(s) # 0
        BY <2>1, <2>7, <3>1 DEF OwedInv
      <4>2. Num(toPeer[s], "WRTE") # 0 \/ Num(toBridge[s], "OKAY") # 0 \/ peer[s].owes
        BY <2>2, <4>1 DEF Tokens
      <4> QED
        BY <2>3, <4>2 DEF Emptying
    <3>2. CASE ~svc[s].needAck
      <4>1. peer[s].got = dev[s].read
        BY <2>1, <2>7, <3>2 DEF ToRemote
      <4>2. svc[s].chain \in {"opened", "pushing", "finally"}
        <5>1. svc[s].opened
          BY <2>1, <2>7 DEF KnownInv
        <5>2. svc[s].chain \notin {"none", "rejected", "transport", "reply"}
          BY <2>1, <5>1 DEF StreamInv
        <5>3. svc[s].chain # "done"
          BY <2>1, <2>7 DEF DueInv
        <5> QED
          BY <2>5, <5>2, <5>3 DEF Chains
      <4>3. CASE svc[s].chain = "pushing"
        <5>1. dev[s].read = dev[s].sent /\ (dev[s].eof => dev[s].ending)
          BY <2>1, <2>7, <3>2, <4>3 DEF DueInv
        <5>2. dev[s].eof
          BY <2>2, <2>7, <4>1, <5>1
        <5> QED
          BY <4>3, <5>1, <5>2 DEF Emptying
      <4> QED
        BY <4>2, <4>3 DEF Emptying
    <3> QED
      BY <3>1, <3>2
  <2>8. ASSUME peer[s].st = "open", ~svc[s].ended, peer[s].waiting PROVE Accepting(s)
    <3>1. Num(toPeer[s], "OKAY") + Num(toBridge[s], "WRTE") # 0
      BY <2>1, <2>8 DEF OwedInv
    <3>2. Num(toPeer[s], "OKAY") # 0 \/ Num(toBridge[s], "WRTE") # 0
      BY <2>2, <3>1
    <3> QED
      BY <2>3, <3>2 DEF Accepting
  <2>9. peer[s].st = "closed" /\ ~svc[s].ended => InFlight(toBridge[s], "CLSE")
    BY <2>1, <2>3 DEF OwedInv
  <2>10. ASSUME svc[s].ended, NEW i \in Ids, remotes[i] = s PROVE svc[s].cleanup = "due"
    <3>1. svc[s].cleanup \notin {"waiting", "done"}
      BY <2>1, <2>10 DEF LeftInv
    <3>2. svc[s].cleanup # "none"
      BY <2>1, <2>10 DEF LifeInv, OpenedInv
    <3> QED
      BY <2>1, <3>1, <3>2 DEF Service
  <2> QED
    BY <2>4, <2>6, <2>7, <2>8, <2>9, <2>10
<1>2. Spec => []MapInv
  BY MapInvariance DEF Conforms
<1>3. Spec => []TalkInv
  BY TalkInvariance
<1>4. Spec => []NothingForgotten
  BY <1>1, <1>2, <1>3, FlowInvariance, StallInvariance, Invariance, PTL
<1> QED
  BY <1>4, DrainedAtEof, PTL DEF NothingLost

(***************************************************************************)
(* The bridge implements AdbStream, step by step.                          *)
(***************************************************************************)
LEMMA StreamInit == Init => Stream!Init
BY DEF Init, Stream!Init

\* What the remote's stream does not show.
LEMMA Stutters ==
    ASSUME \A t \in Svcs : /\ peer'[t] = peer[t] /\ dev'[t].sent = dev[t].sent
                           /\ dev'[t].accepted = dev[t].accepted
    PROVE  UNCHANGED Stream!vars
BY DEF Stream!vars

\* A packet from the remote: Accept when it is a write, else a stutter.
LEMMA StreamPacket ==
    ASSUME Conforms, IInv, MapInv, TalkInv, FlowInv, NEW s \in Svcs, HandlePacket(s)
    PROVE  [Stream!Next]_(Stream!vars)
<1>0. /\ svc \in [Svcs -> Service] /\ dev \in [Svcs -> Transport] /\ TypeOK
      /\ toPeer \in [Svcs -> Seq(OutPacket)] /\ toBridge \in [Svcs -> Seq(InPacket)]
      /\ \A t \in Svcs : dev[t].read <= dev[t].sent
  BY TalkTypes
<1>a. peer' = peer
  BY DEF HandlePacket, Discard, Unauthorized, OpenEmpty, OpenService, OpenCollides, Ignore,
         Premature, HandleOkay, HandleWrite, HandleClose
<1>1. ASSUME NEW c \in {"OKAY", "WRTE", "CLSE"}, Forwards(s, c), Usable(Target(s))
      PROVE  Target(s) = s /\ toBridge[s] # <<>> /\ Head(toBridge[s]).cmd = c
  BY <1>1, TargetIsOwn DEF Forwards, Arrives, Usable, Live
<1>2. CASE HandleWrite(s)
  <2>1. Target(s) = s /\ toBridge[s] # <<>> /\ Head(toBridge[s]).cmd = "WRTE"
    BY <1>1, <1>2 DEF HandleWrite
  <2>2. dev' = [dev EXCEPT ![s] = PassOn(dev[s])]
    BY <1>2, <2>1 DEF HandleWrite
  <2>3. dev[s].accepted < peer[s].written
    <3>1. /\ dev[s].accepted + Num(toBridge[s], "WRTE") <= peer[s].written
          /\ dev[s].accepted \in Nat /\ peer[s].written \in Nat
          /\ Num(toBridge[s], "WRTE") \in Nat
      BY FlowTypes DEF FlowInv, FromRemote
    <3>2. Num(toBridge[s], "WRTE") # 0
      <4>1. 1 \in DOMAIN toBridge[s] /\ toBridge[s][1].cmd = "WRTE"
        BY <1>0, <2>1
      <4> QED
        BY <4>1, FlowTypes
    <3> QED
      BY ONLY <3>1, <3>2
  <2>4. /\ dev'[s].accepted = dev[s].accepted + 1 /\ dev'[s].sent = dev[s].sent
        /\ \A t \in Svcs \ {s} : dev'[t] = dev[t]
    BY <1>0, <2>2 DEF PassOn, Transport
  <2>5. Stream!Accept(s)
    BY <1>a, <2>3, <2>4 DEF Stream!Accept
  <2> QED
    BY <2>5 DEF Stream!Next
<1>3. CASE HandleOkay(s)
  <2>1. Target(s) = s
    BY <1>1, <1>3 DEF HandleOkay
  <2>2. PICK v : v = [svc[s] EXCEPT !.needAck = FALSE]
    OBVIOUS
  <2>3. v \in Service /\ TryPush(s, v, dev[s])
    BY <1>0, <1>3, <2>1, <2>2 DEF HandleOkay, Service
  <2>4. \A t \in Svcs : dev'[t].sent = dev[t].sent /\ dev'[t].accepted = dev[t].accepted
    <3> HIDE <2>2
    <3>1. /\ \A t \in Svcs \ {s} : dev'[t] = dev[t]
          /\ dev'[s].sent = dev[s].sent /\ dev'[s].accepted = dev[s].accepted
      BY <1>0, <2>3, PushEffect
    <3> QED
      BY <3>1
  <2> QED
    BY <1>a, <2>4, Stutters
<1>4. CASE HandleClose(s)
  <2>1. EndServices({s}, svc)
    BY <1>1, <1>4 DEF HandleClose
  <2>2. \A t \in Svcs : dev'[t].sent = dev[t].sent /\ dev'[t].accepted = dev[t].accepted
    BY <1>0, <2>1, EndEffect
  <2> QED
    BY <1>a, <2>2, Stutters
<1>5. CASE dev' = dev
  BY <1>a, <1>5, Stutters
<1> QED
  BY <1>2, <1>3, <1>4, <1>5
     DEF HandlePacket, Discard, Unauthorized, OpenEmpty, OpenService, OpenCollides, Ignore, Premature

\* The deferred parts do not show at the remote before it reads.
LEMMA StreamResume ==
    ASSUME IInv, NEW s \in Svcs, Resume(s)
    PROVE  UNCHANGED Stream!vars
<1>0. /\ svc \in [Svcs -> Service] /\ dev \in [Svcs -> Transport] /\ TypeOK
      /\ \A t \in Svcs : dev[t].read <= dev[t].sent
  BY TalkTypes
<1>a. peer' = peer
  BY DEF Resume, HandleError, StartPush, TransportEnds, Finally, Cleanup
<1>1. ASSUME NEW v \in [Svcs -> Service], EndServices({s}, v)
      PROVE  UNCHANGED Stream!vars
  <2>1. \A t \in Svcs : dev'[t].sent = dev[t].sent /\ dev'[t].accepted = dev[t].accepted
    BY <1>0, <1>1, EndEffect
  <2> QED
    BY <1>a, <2>1, Stutters
<1>2. CASE HandleError(s)
  <2>1. PICK due : due = IF svc[s].cleanup = "waiting" THEN "due" ELSE svc[s].cleanup
    OBVIOUS
  <2>2. [svc EXCEPT ![s].raising = FALSE, ![s].cleanup = due] \in [Svcs -> Service]
    <3>1. svc[s] \in Service /\ due \in {"none", "waiting", "due", "done"}
      BY <1>0, <2>1 DEF Service
    <3> HIDE <2>1
    <3>2. [svc[s] EXCEPT !.raising = FALSE, !.cleanup = due] \in Service
      BY ONLY <3>1 DEF Service
    <3> QED
      BY <1>0, <3>2
  <2>3. EndServices({s}, [svc EXCEPT ![s].raising = FALSE, ![s].cleanup = due])
    BY <1>2, <2>1 DEF HandleError
  <2> QED
    BY <1>1, <2>2, <2>3
<1>3. CASE StartPush(s)
  <2>1. CASE svc[s].hasTr
    <3>1. PICK v : v = [svc[s] EXCEPT !.chain = "pushing"]
      OBVIOUS
    <3>2. v \in Service /\ TryPush(s, v, dev[s])
      BY <1>0, <1>3, <2>1, <3>1 DEF StartPush, Service, Chains
    <3>3. \A t \in Svcs : dev'[t].sent = dev[t].sent /\ dev'[t].accepted = dev[t].accepted
      BY <1>0, <3>2, PushEffect
    <3> QED
      BY <1>a, <3>3, Stutters
  <2>2. CASE ~svc[s].hasTr
    BY <1>a, <1>3, <2>2, Stutters DEF StartPush
  <2> QED
    BY <2>1, <2>2
<1>4. CASE TransportEnds(s)
  BY <1>a, <1>4, Stutters DEF TransportEnds
<1>5. CASE Finally(s)
  <2>1. [svc EXCEPT ![s].chain = "done"] \in [Svcs -> Service]
    BY <1>0 DEF Service, Chains
  <2> QED
    BY <1>1, <1>5, <2>1 DEF Finally
<1>6. CASE Cleanup(s)
  <2>1. [svc EXCEPT ![s].cleanup = "done"] \in [Svcs -> Service]
    BY <1>0 DEF Service
  <2> QED
    BY <1>1, <1>6, <2>1 DEF Cleanup
<1> QED
  BY <1>2, <1>3, <1>4, <1>5, <1>6 DEF Resume

\* Nor do the answers of the ADB server.
LEMMA StreamServer ==
    ASSUME IInv, NEW s \in Svcs, ServerAnswers(s)
    PROVE  UNCHANGED Stream!vars
<1>0. dev \in [Svcs -> Transport]
  BY TalkTypes
<1>1. /\ peer' = peer
      /\ dev' = dev \/ \E c : dev' = [dev EXCEPT ![s].conn = c]
  BY DEF ServerAnswers, TransportReady, TransportFailed, ReplyOkay, ReplyFails
<1>2. \A t \in Svcs : dev'[t].sent = dev[t].sent /\ dev'[t].accepted = dev[t].accepted
  BY <1>0, <1>1 DEF Transport
<1> QED
  BY <1>1, <1>2, Stutters

\* Nor does what Socket does on its own.
LEMMA StreamSocket ==
    ASSUME IInv, Accept \/ SocketFails \/ SocketEnds
    PROVE  UNCHANGED Stream!vars
<1>1. TypeOK /\ svc \in [Svcs -> Service] /\ InMap \in SUBSET Svcs
  BY TalkTypes DEF TypeOK, InMap
<1>2. /\ peer' = peer
      /\ dev' = dev \/ EndServices(InMap, svc)
  BY DEF Accept, SocketFails, SocketEnds, EndSocket, EndAll
<1>3. \A t \in Svcs : dev'[t].sent = dev[t].sent /\ dev'[t].accepted = dev[t].accepted
  BY <1>1, <1>2, EndEffect
<1> QED
  BY <1>2, <1>3, Stutters

\* Bytes of the device: Produce.
LEMMA StreamDevice ==
    ASSUME IInv, NEW s \in Svcs, DeviceSide(s)
    PROVE  [Stream!Next]_(Stream!vars)
<1>0. /\ svc \in [Svcs -> Service] /\ dev \in [Svcs -> Transport] /\ TypeOK
      /\ dev[s].read <= dev[s].sent
  BY TalkTypes
<1>a. peer' = peer
  BY DEF DeviceSide, DeviceSends, DeviceCloses, DeviceEmits, TransportErrors
<1>1. ASSUME NEW d \in Transport, d.read <= d.sent, DeviceEmits(s, d)
      PROVE  /\ dev'[s].sent = d.sent /\ dev'[s].accepted = d.accepted
             /\ \A t \in Svcs \ {s} : dev'[t] = dev[t]
  <2>1. CASE svc[s].chain = "pushing"
    <3>1. TryPush(s, svc[s], d) /\ svc[s] \in Service
      BY <1>0, <1>1, <2>1 DEF DeviceEmits
    <3> QED
      BY <1>0, <1>1, <3>1, PushEffect
  <2>2. CASE svc[s].chain # "pushing"
    BY <1>0, <1>1, <2>2 DEF DeviceEmits
  <2> QED
    BY <2>1, <2>2
<1>2. CASE DeviceSends(s)
  <2>1. PICK n \in 1 .. (MaxDev - dev[s].sent) : DeviceEmits(s, [dev[s] EXCEPT !.sent = @ + n])
    BY <1>2 DEF DeviceSends
  <2>2. PICK d : d = [dev[s] EXCEPT !.sent = @ + n]
    OBVIOUS
  <2>3. /\ d \in Transport /\ d.read <= d.sent /\ d.accepted = dev[s].accepted
        /\ d.sent > dev[s].sent
    <3>1. dev[s] \in Transport /\ dev[s].read <= dev[s].sent
      BY <1>0
    <3>2. n \in Nat /\ n > 0 /\ dev[s].sent + n \in 0 .. MaxDev
      BY ONLY <2>1, <3>1, BridgeAssumption DEF Transport, BridgeAssumption
    <3>3. d.read = dev[s].read /\ d.sent = dev[s].sent + n /\ d \in Transport
          /\ d.accepted = dev[s].accepted
      BY ONLY <2>2, <3>1, <3>2 DEF Transport
    <3>4. dev[s].read \in Int /\ dev[s].sent \in Int
      BY ONLY <3>1 DEF Transport
    <3> QED
      BY ONLY <3>1, <3>2, <3>3, <3>4
  <2>4. /\ dev'[s].sent > dev[s].sent /\ dev'[s].accepted = dev[s].accepted
        /\ \A t \in Svcs \ {s} : dev'[t] = dev[t]
    BY <1>1, <2>1, <2>2, <2>3
  <2>5. Stream!Produce(s)
    BY <1>a, <2>4 DEF Stream!Produce
  <2> QED
    BY <2>5 DEF Stream!Next
<1>3. CASE DeviceCloses(s)
  <2>1. PICK d : d = [dev[s] EXCEPT !.eof = TRUE]
    OBVIOUS
  <2>2. d \in Transport /\ d.read <= d.sent /\ d.sent = dev[s].sent /\ d.accepted = dev[s].accepted
    BY <2>1, <1>0 DEF Transport
  <2>3. \A t \in Svcs : dev'[t].sent = dev[t].sent /\ dev'[t].accepted = dev[t].accepted
    BY <1>1, <1>3, <2>1, <2>2 DEF DeviceCloses
  <2> QED
    BY <1>a, <2>3, Stutters
<1>4. CASE TransportErrors(s)
  <2>1. \A t \in Svcs : dev'[t].sent = dev[t].sent /\ dev'[t].accepted = dev[t].accepted
    BY <1>0, <1>4 DEF TransportErrors, Transport
  <2> QED
    BY <1>a, <2>1, Stutters
<1> QED
  BY <1>2, <1>3, <1>4 DEF DeviceSide

\* A packet the remote reads.
LEMMA StreamReceives ==
    ASSUME IInv, TalkInv, FlowInv, NEW s \in Svcs, PeerReceives(s)
    PROVE  [Stream!Next]_(Stream!vars)
<1>1. PICK p : p = Head(toPeer[s])
  OBVIOUS
<1>2. /\ toPeer[s] # <<>> /\ p \in OutPacket /\ dev' = dev
      /\ peer \in [Svcs -> Peer] /\ toPeer[s] \in Seq(OutPacket)
      /\ 1 \in DOMAIN toPeer[s] /\ toPeer[s][1] = p
  BY <1>1, TalkTypes DEF PeerReceives
<1>3. /\ \A t \in Svcs \ {s} : peer'[t] = peer[t]
      /\ peer'[s] =
            CASE p.cmd = "CLSE" -> [peer[s] EXCEPT !.st = "closed", !.shut = TRUE]
              [] p.cmd = "WRTE" /\ peer[s].st # "closed" ->
                   [peer[s] EXCEPT !.got = p.hi, !.owes = TRUE]
              [] p.cmd = "OKAY" /\ peer[s].st = "opening" ->
                   [peer[s] EXCEPT !.st = "open", !.id = p.id]
              [] p.cmd = "OKAY" /\ peer[s].st = "open" -> [peer[s] EXCEPT !.waiting = FALSE]
              [] OTHER -> peer[s]
  BY <1>1, <1>2 DEF PeerReceives
<1>4. ToRemote(s) /\ FromRemote(s) /\ KnownInv(s) /\ CloseLastInv(s) /\ OpenedInv(s)
  BY DEF FlowInv, TalkInv
<1>5. /\ \A c : Num(toPeer[s], c) \in Nat /\ Num(toBridge[s], c) \in Nat
      /\ dev[s].accepted \in Nat /\ dev[s].read \in Nat /\ dev[s].sent \in Nat
      /\ peer[s].written \in Nat /\ peer[s].got \in Nat
      /\ peer[s].st \in {"idle", "opening", "open", "closed"}
      /\ peer[s].owes \in BOOLEAN /\ peer[s].waiting \in BOOLEAN
      /\ peer[s].st = "idle" => ~svc[s].opened
      /\ Num(toPeer[s], p.cmd) # 0
      /\ dev[s].read <= dev[s].sent
      /\ peer[s] \in Peer
  BY <1>2, FlowTypes, TalkTypes
<1>6. CASE p.cmd = "CLSE"
  <2>1. /\ peer'[s].st = "closed" /\ peer'[s].got = peer[s].got
        /\ peer'[s].owes = peer[s].owes /\ peer'[s].written = peer[s].written
        /\ peer'[s].waiting = peer[s].waiting
    <3>1. peer'[s] = [peer[s] EXCEPT !.st = "closed", !.shut = TRUE]
      BY <1>3, <1>6
    <3> QED
      BY ONLY <1>5, <3>1 DEF Peer
  <2>2. CASE peer[s].st = "closed"
    <3>1. \A t \in Svcs : /\ peer'[t].st = peer[t].st /\ peer'[t].got = peer[t].got
                          /\ peer'[t].owes = peer[t].owes /\ peer'[t].written = peer[t].written
                          /\ peer'[t].waiting = peer[t].waiting
      BY <1>3, <2>1, <2>2
    <3> QED
      BY <1>2, <3>1 DEF Stream!vars
  <2>3. CASE peer[s].st \in {"opening", "open"}
    <3>1. Stream!Close(s)
      BY <1>2, <1>3, <2>1, <2>3 DEF Stream!Close
    <3> QED
      BY <3>1 DEF Stream!Next
  <2>4. peer[s].st # "idle"
    <3>1. svc[s].ended
      BY <1>2, <1>4, <1>6 DEF CloseLastInv, InFlight
    <3>2. svc[s].chain # "none"
      BY <1>4, <3>1 DEF OpenedInv
    <3> QED
      BY <3>2 DEF IInv, OpenInv
  <2> QED
    BY <1>5, <2>2, <2>3, <2>4
<1>7. CASE p.cmd = "WRTE"
  <2>1. CASE peer[s].st = "closed"
    <3>1. peer'[s] = peer[s]
      BY <1>3, <1>7, <2>1
    <3> QED
      BY <1>2, <1>3, <3>1, Stutters
  <2>2. CASE peer[s].st # "closed"
    <3>1. /\ peer'[s].st = peer[s].st /\ peer'[s].got = p.hi
          /\ peer'[s].owes = TRUE /\ peer'[s].written = peer[s].written
          /\ peer'[s].waiting = peer[s].waiting
      <4>1. peer'[s] = [peer[s] EXCEPT !.got = p.hi, !.owes = TRUE]
        BY <1>3, <1>7, <2>2
      <4> QED
        BY ONLY <1>5, <4>1 DEF Peer
    <3>2. peer[s].st = "open"
      <4>1. svc[s].opened
        BY <1>2, <1>4, <1>7 DEF KnownInv
      <4>2. peer[s].st # "idle"
        BY <1>5, <4>1
      <4>3. peer[s].st # "opening"
        BY <1>1, <1>4, <1>5, <1>7, <4>1 DEF FromRemote
      <4> QED
        BY <1>5, <2>2, <4>2, <4>3
    <3>3. ~peer[s].owes
      <4>1. Num(toPeer[s], "WRTE") # 0
        BY <1>5, <1>7
      <4>2. Tokens(s) <= 1
        BY <1>4 DEF ToRemote
      <4> QED
        BY <1>5, <4>1, <4>2 DEF Tokens
    <3>4. p.hi = dev[s].read /\ dev[s].read \in peer[s].got + 1 .. peer[s].got + MaxPayload
      BY <1>2, <1>4, <1>7 DEF ToRemote, DataNext
    <3>5. PICK n \in 1 .. MaxPayload : p.hi = peer[s].got + n /\ peer[s].got + n <= dev[s].sent
      <4>1. /\ dev[s].read - peer[s].got \in 1 .. MaxPayload
            /\ peer[s].got + (dev[s].read - peer[s].got) = dev[s].read
        BY ONLY <1>5, <3>4, BridgeAssumption DEF BridgeAssumption
      <4> QED
        BY <1>5, <3>4, <4>1
    <3>6. Stream!Deliver(s)
      BY <1>2, <1>3, <3>1, <3>2, <3>3, <3>5, ZenonT(30) DEF Stream!Deliver
    <3> QED
      BY <3>6 DEF Stream!Next
  <2> QED
    BY <2>1, <2>2
<1>8. CASE p.cmd = "OKAY"
  <2>1. CASE peer[s].st = "opening"
    <3>1. /\ peer'[s].st = "open" /\ peer'[s].got = peer[s].got
          /\ peer'[s].owes = peer[s].owes /\ peer'[s].written = peer[s].written
          /\ peer'[s].waiting = peer[s].waiting
      <4>1. peer'[s] = [peer[s] EXCEPT !.st = "open", !.id = p.id]
        BY <1>3, <1>8, <2>1
      <4> QED
        BY ONLY <1>5, <4>1 DEF Peer
    <3>2. Stream!Ready(s)
      BY <1>2, <1>3, <2>1, <3>1 DEF Stream!Ready
    <3> QED
      BY <3>2 DEF Stream!Next
  <2>2. CASE peer[s].st = "open"
    <3>1. /\ peer'[s].st = peer[s].st /\ peer'[s].got = peer[s].got
          /\ peer'[s].owes = peer[s].owes /\ peer'[s].written = peer[s].written
          /\ peer'[s].waiting = FALSE
      <4>1. peer'[s] = [peer[s] EXCEPT !.waiting = FALSE]
        BY <1>3, <1>8, <2>2
      <4> QED
        BY ONLY <1>5, <4>1 DEF Peer
    <3>2. Num(toPeer[s], "OKAY") # 0
      BY <1>5, <1>8
    <3>3. /\ Num(toPeer[s], "OKAY") + Num(toBridge[s], "WRTE") <= 1
          /\ Num(toPeer[s], "OKAY") = 1 => dev[s].accepted = peer[s].written
          /\ ~peer[s].waiting => Num(toPeer[s], "OKAY") + Num(toBridge[s], "WRTE") = 0
      BY <1>4, <2>2 DEF FromRemote
    <3>4. peer[s].waiting /\ dev[s].accepted = peer[s].written
      BY ONLY <1>5, <3>2, <3>3
    <3>5. Stream!Acked(s)
      BY <1>2, <1>3, <3>1, <3>4 DEF Stream!Acked
    <3> QED
      BY <3>5 DEF Stream!Next
  <2>3. CASE peer[s].st \notin {"opening", "open"}
    <3>1. peer'[s] = peer[s]
      BY <1>3, <1>8, <2>3
    <3> QED
      BY <1>2, <1>3, <3>1, Stutters
  <2> QED
    BY <2>1, <2>2, <2>3
<1> QED
  BY <1>2, <1>6, <1>7, <1>8 DEF OutPacket

\* What the remote does is a step of AdbStream of that name.
LEMMA StreamPeer ==
    ASSUME IInv, TalkInv, FlowInv, NEW s \in Svcs, PeerSide(s)
    PROVE  [Stream!Next]_(Stream!vars)
<1>0. peer \in [Svcs -> Peer] /\ peer[s] \in Peer
  BY TalkTypes
<1>1. CASE PeerReceives(s)
  BY <1>1, StreamReceives
<1>2. CASE PeerOpens(s)
  <2>1. Stream!Open(s)
    BY <1>0, <1>2 DEF PeerOpens, Stream!Open, Peer
  <2> QED
    BY <2>1 DEF Stream!Next
<1>3. CASE PeerAcks(s)
  <2>1. Stream!Ack(s)
    BY <1>0, <1>3 DEF PeerAcks, Stream!Ack, Peer
  <2> QED
    BY <2>1 DEF Stream!Next
<1>4. CASE PeerWrites(s)
  <2>1. Stream!Write(s)
    BY <1>0, <1>4 DEF PeerWrites, Stream!Write, Peer
  <2> QED
    BY <2>1 DEF Stream!Next
<1>5. CASE PeerCloses(s)
  <2>1. Stream!Close(s)
    BY <1>0, <1>5 DEF PeerCloses, Stream!Close, Peer
  <2> QED
    BY <2>1 DEF Stream!Next
<1>6. CASE PeerStrays(s)
  BY <1>6, Stutters DEF PeerStrays
<1> QED
  BY <1>1, <1>2, <1>3, <1>4, <1>5, <1>6 DEF PeerSide

\* Every step of the bridge is one of AdbStream, or a stutter.
LEMMA StreamNext ==
    Conforms /\ IInv /\ MapInv /\ TalkInv /\ FlowInv /\ [Next]_vars => [Stream!Next]_(Stream!vars)
<1> SUFFICES ASSUME Conforms, IInv, MapInv, TalkInv, FlowInv, [Next]_vars
             PROVE  [Stream!Next]_(Stream!vars)
  OBVIOUS
<1>1. CASE UNCHANGED vars
  BY <1>1, Stutters DEF vars
<1>2. CASE Accept \/ SocketFails \/ SocketEnds
  BY <1>2, StreamSocket
<1>3. ASSUME NEW s \in Svcs,
             HandlePacket(s) \/ Resume(s) \/ ServerAnswers(s) \/ DeviceSide(s) \/ PeerSide(s)
      PROVE  [Stream!Next]_(Stream!vars)
  BY <1>3, StreamPacket, StreamResume, StreamServer, StreamDevice, StreamPeer
<1> QED
  BY <1>1, <1>2, <1>3 DEF Next

\* The bridge keeps its promise to a remote that keeps to the protocol: every
\* behaviour of Socket and Service, seen from the remote, is one of AdbStream.
THEOREM Implements == ASSUME Conforms PROVE Spec => ImplementsAdbStream
<1>1. IInv /\ MapInv /\ TalkInv /\ FlowInv /\ [Next]_vars => [Stream!Next]_(Stream!vars)
  BY StreamNext
<1>2. Spec => []MapInv
  BY MapInvariance DEF Conforms
<1> QED
  BY <1>1, <1>2, StreamInit, TalkInvariance, FlowInvariance, Invariance, PTL
     DEF Spec, ImplementsAdbStream, Stream!Spec
==============================================================================
