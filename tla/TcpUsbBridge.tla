----------------------------- MODULE TcpUsbBridge -----------------------------
(***************************************************************************)
(* One connection of the TCP/USB bridge (src/adb/tcpusb): the Socket that  *)
(* talks the adb packet protocol to a remote adb host, its ServiceMap and  *)
(* RollingCounter, one Service object per A_OPEN, and the transport each   *)
(* Service holds to the local ADB server.                                  *)
(*                                                                         *)
(* Node runs one callback at a time, so an action is one callback: a       *)
(* packet handler, a stream event, or the part of a promise chain between  *)
(* two asynchronous points.  Whatever a promise defers (the transport, the *)
(* reply, .then, .finally, .catch) is a step of its own that other         *)
(* callbacks may precede.                                                  *)
(*                                                                         *)
(* Packets travel in one FIFO channel per stream and direction.  Nothing   *)
(* the code does depends on the order of two packets of different streams, *)
(* so dropping that order only adds behaviours.  The FIN of Socket.end     *)
(* shows as sockEnded: nothing is written once it holds.                   *)
(*                                                                         *)
(* An operator named Faulty... is a mistake the definition after it could  *)
(* have contained.  No action uses it; the properties are tested on it.    *)
(***************************************************************************)
EXTENDS Integers, Sequences, FiniteSets

CONSTANTS
    MaxOpens,    \* bound: A_OPEN packets of the connection (the code has none)
    IdMax,       \* UINT32_MAX, the maximum of the rolling counter
    MaxPayload,  \* most bytes of an A_WRTE, settled by A_CNXN
    MaxDev,      \* bound: bytes the device sends on a stream
    MaxWrites,   \* bound: A_WRTE packets the remote sends on a stream
    MaxStray     \* bound: packets the remote sends out of protocol

ASSUME BridgeAssumption ==
    /\ MaxOpens \in Nat \ {0} /\ IdMax \in Nat /\ IdMax > 1
    /\ MaxPayload \in Nat \ {0}
    /\ MaxDev \in Nat /\ MaxWrites \in Nat /\ MaxStray \in Nat

IdMin == 1                        \* RollingCounter's default minimum
Ids == (IdMin + 1) .. IdMax       \* ids next() can return
Svcs == 1 .. MaxOpens             \* Service objects, and the remote's own ids
None == 0                         \* no service, no id

VARIABLES
    sockEnded,   \* Socket.ended; FIN is written in the same callback
    authorized,  \* Socket.authorized
    counter,     \* Socket.remoteId.now
    remotes,     \* ServiceMap.remotes: local id -> Service object or None
    count,       \* ServiceMap.count
    failing,     \* a rejected Socket._handle whose .catch has not run yet
    svc,         \* the Service objects
    dev,         \* their transports and the device side of them
    toPeer,      \* toPeer[s]: packets to the remote, in flight
    toBridge,    \* toBridge[s]: packets from the remote, in flight
    peer,        \* the remote's side of each stream
    strays       \* out-of-protocol packets sent so far

sockVars == <<sockEnded, authorized, counter, remotes, count, failing>>
vars == <<sockEnded, authorized, counter, remotes, count, failing,
          svc, dev, toPeer, toBridge, peer, strays>>

\* _handleOpenPacket's chain: awaiting transport(), awaiting the reply, reply
\* handled, listeners installed, settled with .finally due, run.
Chains == {"none", "rejected", "transport", "reply", "opened", "pushing",
           "finally", "done"}

Service ==
    [chain : Chains,
     localId : Ids \cup {None},
     opened : BOOLEAN, ended : BOOLEAN,
     hasTr : BOOLEAN,                     \* this.transport is set
     needAck : BOOLEAN,
     raising : BOOLEAN,                   \* handle() failed, its .catch is due
     cleanup : {"none", "waiting", "due", "done"}]  \* the socket's .finally

\* conn: "ended" once the bridge called end() on it, "lost" once destroyed.
Transport ==
    [conn : {"none", "open", "ended", "lost"},
     sent : 0 .. MaxDev,                  \* bytes the device emitted
     read : 0 .. MaxDev,                  \* bytes _readChunk consumed
     eof : BOOLEAN,                       \* the device side half-closed
     ending : BOOLEAN,                    \* the stream's 'end' event is due
     accepted : Nat]                      \* remote writes passed on

Peer ==
    [st : {"idle", "opening", "open", "closed"},
     shut : BOOLEAN,                      \* an A_CLSE arrived
     id : Ids \cup {None},                \* the local id the bridge announced
     got : 0 .. MaxDev,                   \* last device byte received
     owes : BOOLEAN,                      \* an A_WRTE is not acknowledged yet
     written : 0 .. MaxWrites,
     waiting : BOOLEAN]                   \* its own A_WRTE is not acknowledged

OutPacket == [cmd : {"OKAY", "WRTE", "CLSE"}, id : Ids \cup {None},
              lo : 0 .. MaxDev + 1, hi : 0 .. MaxDev]
InPacket == [cmd : {"OPEN", "OKAY", "WRTE", "CLSE"}, id : Ids \cup {None},
             empty : BOOLEAN]

Out(cmd, id) == [cmd |-> cmd, id |-> id, lo |-> 0, hi |-> 0]
Data(id, lo, hi) == [cmd |-> "WRTE", id |-> id, lo |-> lo, hi |-> hi]
In(cmd, id, empty) == [cmd |-> cmd, id |-> id, empty |-> empty]

Init ==
    /\ sockEnded = FALSE /\ authorized = FALSE /\ failing = FALSE
    /\ counter = IdMin
    /\ remotes = [i \in Ids |-> None] /\ count = 0
    /\ svc = [s \in Svcs |->
               [chain |-> "none", localId |-> None, opened |-> FALSE,
                ended |-> FALSE, hasTr |-> FALSE, needAck |-> FALSE,
                raising |-> FALSE, cleanup |-> "none"]]
    /\ dev = [s \in Svcs |->
               [conn |-> "none", sent |-> 0, read |-> 0, eof |-> FALSE,
                ending |-> FALSE, accepted |-> 0]]
    /\ toPeer = [s \in Svcs |-> <<>>] /\ toBridge = [s \in Svcs |-> <<>>]
    /\ peer = [s \in Svcs |->
                [st |-> "idle", shut |-> FALSE, id |-> None, got |-> 0,
                 owes |-> FALSE, written |-> 0, waiting |-> FALSE]]
    /\ strays = 0

(***************************************************************************)
(* Operations shared by the handlers.                                      *)
(***************************************************************************)
NextId == (IF counter < IdMax THEN counter ELSE IdMin) + 1

\* Socket.write drops the packet once the socket has ended.
Write(s, p) == IF sockEnded THEN toPeer ELSE [toPeer EXCEPT ![s] = Append(@, p)]

\* The id of an A_CLSE: zero unless the service was opened.
CloseId(v) == IF v.opened THEN v.localId ELSE None

\* Service.end of one object; 'end' makes the socket's cleanup due.
Ended(v) ==
    IF v.ended THEN v
    ELSE [v EXCEPT !.ended = TRUE, !.hasTr = FALSE,
                   !.cleanup = IF @ = "waiting" THEN "due" ELSE @]

\* It writes A_CLSE unless it returned early.
FaultyAnnounces(v) == ~sockEnded
Announces(v) == ~v.ended /\ ~sockEnded

\* Service.end of the objects in S, out of the state v of the objects.
EndServices(S, v) ==
    /\ svc' = [t \in Svcs |-> IF t \in S THEN Ended(v[t]) ELSE v[t]]
    /\ dev' = [t \in Svcs |->
                IF t \in S /\ v[t].hasTr /\ dev[t].conn = "open"
                THEN [dev[t] EXCEPT !.conn = "ended"] ELSE dev[t]]
    /\ toPeer' = [t \in Svcs |->
                   IF t \in S /\ Announces(v[t])
                   THEN Append(toPeer[t], Out("CLSE", CloseId(v[t])))
                   ELSE toPeer[t]]

\* ServiceMap.end and the services it ends.
InMap == {remotes[i] : i \in Ids} \ {None}
FaultyEndAll == UNCHANGED <<svc, dev, toPeer>>
EndAll == EndServices(InMap, svc)

\* Socket.end: ServiceMap.end first, then FIN.
EndSocket ==
    IF sockEnded
    THEN UNCHANGED <<sockEnded, remotes, count, svc, dev, toPeer>>
    ELSE /\ EndAll
         /\ remotes' = [i \in Ids |-> None] /\ count' = 0
         /\ sockEnded' = TRUE

\* ServiceMap.remove counts down only what it found.
FaultyCount(id) == count - 1
CountAfterRemove(id) == IF remotes[id] # None THEN count - 1 ELSE count

\* _readChunk: with n bytes buffered, read(maxPayload) || read() takes n, but
\* at most MaxPayload.
Buffered(d) == d.sent - d.read
FaultyChunkWhole(d) == Buffered(d)
FaultyChunkFull(d) == IF Buffered(d) < MaxPayload THEN 0 ELSE MaxPayload
Chunk(d) == IF Buffered(d) < MaxPayload THEN Buffered(d) ELSE MaxPayload
ReadUpTo(d) == d.read + Chunk(d)

\* A read that empties an ended stream and asked for more makes 'end' due.
FaultyReadsEof(d) == d.eof
ReadsEof(d) == d.eof /\ ReadUpTo(d) = d.sent /\ Chunk(d) < MaxPayload

\* _tryPush of service s, out of its object v and its transport d.
FaultyMayPush(v) == ~v.ended
MayPush(v) == ~v.needAck /\ ~v.ended
TryPush(s, v, d) ==
    IF ~MayPush(v)
    THEN /\ svc' = [svc EXCEPT ![s] = v] /\ dev' = [dev EXCEPT ![s] = d]
         /\ UNCHANGED toPeer
    ELSE /\ svc' = [svc EXCEPT ![s] = [v EXCEPT !.needAck = @ \/ Chunk(d) > 0]]
         /\ dev' = [dev EXCEPT ![s] = [d EXCEPT !.read = ReadUpTo(d),
                                                !.ending = @ \/ ReadsEof(d)]]
         /\ toPeer' = IF Chunk(d) = 0 THEN toPeer
                      ELSE Write(s, Data(v.localId, d.read + 1, d.read + Chunk(d)))

(***************************************************************************)
(* Packets from the remote: PacketReader 'packet' -> Socket._handle.       *)
(***************************************************************************)
Arrives(s, cmd) == toBridge[s] # <<>> /\ Head(toBridge[s]).cmd = cmd
Consume(s) == toBridge' = [toBridge EXCEPT ![s] = Tail(@)]

\* _handle returns at once on an ended socket.
Discard(s) ==
    /\ sockEnded /\ toBridge[s] # <<>>
    /\ Consume(s)
    /\ UNCHANGED <<sockVars, svc, dev, toPeer, peer, strays>>

\* UnauthorizedError: the promise rejects, Socket.end follows in its .catch.
Unauthorized(s) ==
    /\ ~sockEnded /\ ~authorized /\ toBridge[s] # <<>>
    /\ Consume(s)
    /\ failing' = TRUE
    /\ UNCHANGED <<sockEnded, authorized, counter, remotes, count,
                   svc, dev, toPeer, peer, strays>>

\* "Empty service name": the id is spent, no service is created.
OpenEmpty(s) ==
    /\ ~sockEnded /\ authorized /\ Arrives(s, "OPEN") /\ Head(toBridge[s]).empty
    /\ Consume(s)
    /\ counter' = NextId
    /\ failing' = TRUE
    /\ UNCHANGED <<sockEnded, authorized, remotes, count,
                   svc, dev, toPeer, peer, strays>>

\* A new Service goes into the map and asks for its transport.
OpenService(s) ==
    /\ ~sockEnded /\ authorized /\ Arrives(s, "OPEN") /\ ~Head(toBridge[s]).empty
    /\ remotes[NextId] = None
    /\ Consume(s)
    /\ counter' = NextId
    /\ remotes' = [remotes EXCEPT ![NextId] = s] /\ count' = count + 1
    /\ svc' = [svc EXCEPT ![s].localId = NextId, ![s].chain = "transport",
                          ![s].cleanup = "waiting"]
    /\ UNCHANGED <<sockEnded, authorized, failing,
                   dev, toPeer, peer, strays>>

\* insert throws on an id in use: the service is never handled, its promise
\* rejects, and the cleanup of that promise is due.
OpenCollides(s) ==
    /\ ~sockEnded /\ authorized /\ Arrives(s, "OPEN") /\ ~Head(toBridge[s]).empty
    /\ remotes[NextId] # None
    /\ Consume(s)
    /\ counter' = NextId
    /\ svc' = [svc EXCEPT ![s].localId = NextId, ![s].chain = "rejected",
                          ![s].cleanup = "due"]
    /\ UNCHANGED <<sockEnded, authorized, remotes, count, failing,
                   dev, toPeer, peer, strays>>

\* The service an A_OKAY, A_WRTE or A_CLSE is forwarded to, None if unknown.
Target(s) == LET i == Head(toBridge[s]).id
             IN IF i \in Ids THEN remotes[i] ELSE None

Live(t) == t # None /\ ~svc[t].ended
Usable(t) == Live(t) /\ svc[t].hasTr

Forwards(s, cmd) == ~sockEnded /\ authorized /\ Arrives(s, cmd)

\* No such service, or one that has ended: the packet is dropped.
Ignore(s) ==
    /\ \E cmd \in {"OKAY", "WRTE", "CLSE"} : Forwards(s, cmd)
    /\ ~Live(Target(s))
    /\ Consume(s)
    /\ UNCHANGED <<sockVars, svc, dev, toPeer, peer, strays>>

\* PrematurePacketError: no transport yet.
Premature(s) ==
    /\ \E cmd \in {"OKAY", "WRTE", "CLSE"} : Forwards(s, cmd)
    /\ Live(Target(s)) /\ ~svc[Target(s)].hasTr
    /\ Consume(s)
    /\ svc' = [svc EXCEPT ![Target(s)].raising = TRUE]
    /\ UNCHANGED <<sockVars, dev, toPeer, peer, strays>>

FaultyHandleOkay(s) ==
    /\ Forwards(s, "OKAY") /\ Usable(Target(s))
    /\ Consume(s)
    /\ svc' = [svc EXCEPT ![Target(s)].needAck = FALSE]
    /\ UNCHANGED <<sockVars, dev, toPeer, peer, strays>>
HandleOkay(s) ==
    /\ Forwards(s, "OKAY") /\ Usable(Target(s))
    /\ Consume(s)
    /\ LET t == Target(s) IN TryPush(t, [svc[t] EXCEPT !.needAck = FALSE], dev[t])
    /\ UNCHANGED <<sockVars, peer, strays>>

PassOn(d) == [d EXCEPT !.accepted = @ + 1]
HandleWrite(s) ==
    /\ Forwards(s, "WRTE") /\ Usable(Target(s))
    /\ Consume(s)
    /\ LET t == Target(s)
       IN /\ dev' = [dev EXCEPT ![t] = PassOn(@)]
          /\ toPeer' = Write(t, Out("OKAY", svc[t].localId))
    /\ UNCHANGED <<sockVars, svc, peer, strays>>

HandleClose(s) ==
    /\ Forwards(s, "CLSE") /\ Usable(Target(s))
    /\ Consume(s)
    /\ EndServices({Target(s)}, svc)
    /\ UNCHANGED <<sockVars, peer, strays>>

\* The .catch of Service.handle: 'error' rejects the socket's promise, end().
HandleError(s) ==
    /\ svc[s].raising
    /\ LET due == IF svc[s].cleanup = "waiting" THEN "due" ELSE svc[s].cleanup
       IN EndServices({s}, [svc EXCEPT ![s].raising = FALSE, ![s].cleanup = due])
    /\ UNCHANGED <<sockVars, toBridge, peer, strays>>

(***************************************************************************)
(* Service._handleOpenPacket, one action per link of its promise chain.    *)
(***************************************************************************)
\* transport() resolves; on a service that has ended, LateTransportError.
FaultyAfterTransport(v) == "reply"
AfterTransport(v) == IF v.ended THEN "finally" ELSE "reply"
TransportReady(s) ==
    /\ svc[s].chain = "transport"
    /\ svc' = [svc EXCEPT ![s].hasTr = TRUE,
                          ![s].chain = AfterTransport(svc[s])]
    /\ dev' = [dev EXCEPT ![s].conn = "open"]
    /\ UNCHANGED <<sockVars, toPeer, toBridge, peer, strays>>

TransportFailed(s) ==
    /\ svc[s].chain = "transport"
    /\ svc' = [svc EXCEPT ![s].chain = "finally"]
    /\ UNCHANGED <<sockVars, dev, toPeer, toBridge, peer, strays>>

\* OKAY: A_OKAY is written whether or not the service has ended meanwhile.
ReplyOkay(s) ==
    /\ svc[s].chain = "reply" /\ dev[s].conn # "lost"
    /\ svc' = [svc EXCEPT ![s].opened = TRUE, ![s].chain = "opened"]
    /\ toPeer' = Write(s, Out("OKAY", svc[s].localId))
    /\ UNCHANGED <<sockVars, dev, toBridge, peer, strays>>

\* FAIL or unexpected data destroy the transport; an early end does not.
ReplyFails(s) ==
    /\ svc[s].chain = "reply"
    /\ svc' = [svc EXCEPT ![s].chain = "finally"]
    /\ \E c \in {dev[s].conn, "lost"} : dev' = [dev EXCEPT ![s].conn = c]
    /\ UNCHANGED <<sockVars, toPeer, toBridge, peer, strays>>

\* The listeners are installed; without a transport, a TypeError.
StartPush(s) ==
    /\ svc[s].chain = "opened"
    /\ IF svc[s].hasTr
       THEN TryPush(s, [svc[s] EXCEPT !.chain = "pushing"], dev[s])
       ELSE /\ svc' = [svc EXCEPT ![s].chain = "finally"]
            /\ UNCHANGED <<dev, toPeer>>
    /\ UNCHANGED <<sockVars, toBridge, peer, strays>>

\* Bytes or the end of the stream arrive; 'readable' reaches _tryPush once
\* its listener is installed.
DeviceEmits(s, d) ==
    /\ svc[s].chain \in {"opened", "pushing"} /\ dev[s].conn = "open" /\ ~dev[s].eof
    /\ IF svc[s].chain = "pushing" THEN TryPush(s, svc[s], d)
       ELSE dev' = [dev EXCEPT ![s] = d] /\ UNCHANGED <<svc, toPeer>>
    /\ UNCHANGED <<sockVars, toBridge, peer, strays>>

DeviceSends(s) ==
    \E n \in 1 .. (MaxDev - dev[s].sent) :
        DeviceEmits(s, [dev[s] EXCEPT !.sent = @ + n])

DeviceCloses(s) == DeviceEmits(s, [dev[s] EXCEPT !.eof = TRUE])

\* 'end' of the transport's stream resolves the promise.
TransportEnds(s) ==
    /\ svc[s].chain = "pushing" /\ dev[s].ending
    /\ svc' = [svc EXCEPT ![s].chain = "finally"]
    /\ UNCHANGED <<sockVars, dev, toPeer, toBridge, peer, strays>>

\* 'error' rejects it.  Between the reply and the listeners it is heard by nobody,
\* and the stream stays open on a destroyed socket, whose buffer is still read.
TransportErrors(s) ==
    /\ \/ svc[s].chain = "pushing" /\ dev[s].conn # "lost"
            /\ svc' = [svc EXCEPT ![s].chain = "finally"]
       \/ svc[s].chain = "opened" /\ dev[s].conn = "open" /\ ~dev[s].eof
            /\ UNCHANGED svc
    /\ dev' = [dev EXCEPT ![s].conn = "lost"]
    /\ UNCHANGED <<sockVars, toPeer, toBridge, peer, strays>>

\* .finally: end().  The .catch of handle() that may follow finds the service
\* ended and changes nothing.
FaultyFinally(s) ==
    /\ svc[s].chain = "finally"
    /\ svc' = [svc EXCEPT ![s].chain = "done"]
    /\ UNCHANGED <<sockVars, dev, toPeer, toBridge, peer, strays>>
Finally(s) ==
    /\ svc[s].chain = "finally"
    /\ EndServices({s}, [svc EXCEPT ![s].chain = "done"])
    /\ UNCHANGED <<sockVars, toBridge, peer, strays>>

(***************************************************************************)
(* The rest of Socket.                                                     *)
(***************************************************************************)
\* .finally of Socket._handleOpenPacket: leave the map, end the service.
Cleanup(s) ==
    /\ svc[s].cleanup = "due"
    /\ remotes' = [remotes EXCEPT ![svc[s].localId] = None]
    /\ count' = CountAfterRemove(svc[s].localId)
    /\ EndServices({s}, [svc EXCEPT ![s].cleanup = "done"])
    /\ UNCHANGED <<sockEnded, authorized, counter, failing,
                   toBridge, peer, strays>>

\* _acceptConnection, the outcome of the handshake.
Accept ==
    /\ ~authorized
    /\ authorized' = TRUE
    /\ UNCHANGED <<sockEnded, counter, remotes, count, failing,
                   svc, dev, toPeer, toBridge, peer, strays>>

\* The .catch handlers of _handle.
SocketFails ==
    /\ failing
    /\ failing' = FALSE
    /\ EndSocket
    /\ UNCHANGED <<authorized, counter, toBridge, peer, strays>>

\* The remote's FIN, a reader error, or Server.end.
SocketEnds ==
    /\ ~sockEnded
    /\ EndSocket
    /\ UNCHANGED <<authorized, counter, failing, toBridge, peer, strays>>

(***************************************************************************)
(* The remote adb host.  It keeps to the stream protocol except for at     *)
(* most MaxStray packets.                                                  *)
(***************************************************************************)
Send(s, p) == toBridge' = [toBridge EXCEPT ![s] = Append(@, p)]

PeerOpens(s) ==
    /\ peer[s].st = "idle" /\ \A t \in 1 .. (s - 1) : peer[t].st # "idle"
    /\ peer' = [peer EXCEPT ![s].st = "opening"]
    /\ \E e \in BOOLEAN : Send(s, In("OPEN", None, e))
    /\ UNCHANGED <<sockVars, svc, dev, toPeer, strays>>

PeerReceives(s) ==
    /\ toPeer[s] # <<>>
    /\ toPeer' = [toPeer EXCEPT ![s] = Tail(@)]
    /\ LET p == Head(toPeer[s])
           v == peer[s]
       IN peer' = [peer EXCEPT ![s] =
            CASE p.cmd = "CLSE" -> [v EXCEPT !.st = "closed", !.shut = TRUE]
              [] p.cmd = "WRTE" /\ v.st # "closed" -> [v EXCEPT !.got = p.hi, !.owes = TRUE]
              [] p.cmd = "OKAY" /\ v.st = "opening" -> [v EXCEPT !.st = "open", !.id = p.id]
              [] p.cmd = "OKAY" /\ v.st = "open" -> [v EXCEPT !.waiting = FALSE]
              [] OTHER -> v]
    /\ UNCHANGED <<sockVars, svc, dev, toBridge, strays>>

PeerAcks(s) ==
    /\ peer[s].st = "open" /\ peer[s].owes
    /\ peer' = [peer EXCEPT ![s].owes = FALSE]
    /\ Send(s, In("OKAY", peer[s].id, FALSE))
    /\ UNCHANGED <<sockVars, svc, dev, toPeer, strays>>

PeerWrites(s) ==
    /\ peer[s].st = "open" /\ ~peer[s].waiting /\ peer[s].written < MaxWrites
    /\ peer' = [peer EXCEPT ![s].waiting = TRUE, ![s].written = @ + 1]
    /\ Send(s, In("WRTE", peer[s].id, FALSE))
    /\ UNCHANGED <<sockVars, svc, dev, toPeer, strays>>

PeerCloses(s) ==
    /\ peer[s].st = "open"
    /\ peer' = [peer EXCEPT ![s].st = "closed"]
    /\ Send(s, In("CLSE", peer[s].id, FALSE))
    /\ UNCHANGED <<sockVars, svc, dev, toPeer, strays>>

\* A packet for any id at any time after the first A_OPEN of the channel.
PeerStrays(s) ==
    /\ strays < MaxStray /\ peer[s].st # "idle"
    /\ strays' = strays + 1
    /\ \E cmd \in {"OKAY", "WRTE", "CLSE"}, i \in Ids : Send(s, In(cmd, i, FALSE))
    /\ UNCHANGED <<sockVars, svc, dev, toPeer, peer>>

------------------------------------------------------------------------------
HandlePacket(s) ==
    \/ Discard(s) \/ Unauthorized(s)
    \/ OpenEmpty(s) \/ OpenService(s) \/ OpenCollides(s)
    \/ Ignore(s) \/ Premature(s)
    \/ HandleOkay(s) \/ HandleWrite(s) \/ HandleClose(s)

Resume(s) ==
    \/ HandleError(s) \/ StartPush(s) \/ TransportEnds(s)
    \/ Finally(s) \/ Cleanup(s)

ServerAnswers(s) ==
    \/ TransportReady(s) \/ TransportFailed(s)
    \/ ReplyOkay(s) \/ ReplyFails(s)

DeviceSide(s) == DeviceSends(s) \/ DeviceCloses(s) \/ TransportErrors(s)

PeerSide(s) ==
    \/ PeerOpens(s) \/ PeerReceives(s) \/ PeerAcks(s)
    \/ PeerWrites(s) \/ PeerCloses(s) \/ PeerStrays(s)

Next ==
    \/ Accept \/ SocketFails \/ SocketEnds
    \/ \E s \in Svcs : \/ HandlePacket(s) \/ Resume(s) \/ ServerAnswers(s)
                       \/ DeviceSide(s) \/ PeerSide(s)

Spec == Init /\ [][Next]_vars
==============================================================================
