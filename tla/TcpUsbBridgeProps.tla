-------------------------- MODULE TcpUsbBridgeProps --------------------------
(***************************************************************************)
(* What must hold of one connection of the TCP/USB bridge (TcpUsbBridge).  *)
(***************************************************************************)
EXTENDS TcpUsbBridge

(***************************************************************************)
(* The variables of Socket, ServiceMap, Service, the transports, the       *)
(* channels and the remote keep their types.                               *)
(***************************************************************************)
TypeOK ==
    /\ sockEnded \in BOOLEAN /\ authorized \in BOOLEAN /\ failing \in BOOLEAN
    /\ counter \in Ids \cup {IdMin}
    /\ remotes \in [Ids -> Svcs \cup {None}] /\ count \in Int
    /\ svc \in [Svcs -> Service]
    /\ dev \in [Svcs -> Transport]
    /\ toPeer \in [Svcs -> Seq(OutPacket)]
    /\ toBridge \in [Svcs -> Seq(InPacket)]
    /\ peer \in [Svcs -> Peer]
    /\ strays \in 0 .. MaxStray

InFlight(q, cmd) == \E i \in DOMAIN q : q[i].cmd = cmd

(***************************************************************************)
(* ServiceMap: count is the number of services in the map, each under its  *)
(* own local id; a service stays in the map until its cleanup, unless      *)
(* Socket.end emptied it.                                                  *)
(***************************************************************************)
ServiceMapConsistent ==
    /\ count = Cardinality({i \in Ids : remotes[i] # None})
    /\ \A i \in Ids : remotes[i] # None => svc[remotes[i]].localId = i
    /\ \A s \in Svcs : ~sockEnded /\ svc[s].cleanup = "waiting"
                         => remotes[svc[s].localId] = s

(***************************************************************************)
(* Service.end and Socket.write: a stream that has ended is silent.  The   *)
(* A_CLSE of a service is written once and nothing of its stream follows   *)
(* it, and while the socket lives it is written exactly when the service   *)
(* has ended.                                                              *)
(***************************************************************************)
CloseIsLast ==
    \A s \in Svcs :
        /\ peer[s].shut => toPeer[s] = <<>>
        /\ \A i \in DOMAIN toPeer[s] :
              toPeer[s][i].cmd = "CLSE" => i = Len(toPeer[s])
        /\ peer[s].shut \/ InFlight(toPeer[s], "CLSE") => svc[s].ended
        /\ svc[s].ended => peer[s].shut \/ InFlight(toPeer[s], "CLSE")

(***************************************************************************)
(* needAck: of the device bytes of one stream a single A_WRTE is           *)
(* unacknowledged at a time.  It is in flight, or the remote has still to  *)
(* acknowledge it, or the acknowledgement is in flight; never two of them, *)
(* and none of them while the service thinks it may push.                  *)
(***************************************************************************)
Writes(q) == {i \in DOMAIN q : q[i].cmd = "WRTE"}
Acks(q) == {i \in DOMAIN q : q[i].cmd = "OKAY"}

OneUnacked ==
    \A s \in Svcs :
        LET tokens == Cardinality(Writes(toPeer[s])) + Cardinality(Acks(toBridge[s]))
                        + (IF peer[s].owes THEN 1 ELSE 0)
        IN /\ tokens <= 1
           /\ ~svc[s].ended /\ ~svc[s].needAck => tokens = 0

(***************************************************************************)
(* _readChunk and _tryPush: the remote gets the device's bytes in order,   *)
(* none lost and none repeated.                                            *)
(***************************************************************************)
BytesInOrder ==
    \A s \in Svcs :
        /\ \A i \in Writes(toPeer[s]) :
              /\ toPeer[s][i].lo = peer[s].got + 1
              /\ toPeer[s][i].hi = dev[s].read
              /\ toPeer[s][i].hi - toPeer[s][i].lo < MaxPayload
        /\ peer[s].st = "open" /\ Writes(toPeer[s]) = {} => peer[s].got = dev[s].read

(***************************************************************************)
(* 'end' of the transport: a service that ends because its device side did *)
(* has pushed every byte the device sent.                                  *)
(***************************************************************************)
EofDrained ==
    \A s \in Svcs :
        svc[s].chain = "finally" /\ svc[s].opened /\ dev[s].conn = "open"
          => dev[s].eof /\ dev[s].read = dev[s].sent

(***************************************************************************)
(* _handleOpenPacket, _tryPush, the handlers and the cleanups: nothing is  *)
(* forgotten.  An A_OPEN without an answer, bytes or an end of the device  *)
(* that the remote has not heard of, a write of the remote without its     *)
(* A_OKAY, the remote's A_CLSE, and an ended service in the map each have  *)
(* a callback that is due, or a packet in flight that will make it due.    *)
(***************************************************************************)
Opening(s) ==
    \/ failing \/ svc[s].chain \in {"transport", "reply", "finally"}
    \/ InFlight(toBridge[s], "OPEN") \/ InFlight(toPeer[s], "OKAY")

Emptying(s) ==
    \/ InFlight(toPeer[s], "WRTE") \/ peer[s].owes \/ InFlight(toBridge[s], "OKAY")
    \/ svc[s].chain \in {"opened", "finally"}
    \/ svc[s].chain = "pushing" /\ dev[s].ending

Accepting(s) == InFlight(toBridge[s], "WRTE") \/ InFlight(toPeer[s], "OKAY")

NothingForgotten ==
    \A s \in Svcs :
        LET closing == InFlight(toPeer[s], "CLSE")
        IN /\ peer[s].st = "opening" /\ ~sockEnded => Opening(s) \/ closing
           /\ peer[s].st = "open" /\ (peer[s].got < dev[s].sent \/ dev[s].eof)
                => Emptying(s) \/ closing
           /\ peer[s].st = "open" /\ peer[s].waiting => Accepting(s) \/ closing
           /\ peer[s].st = "closed" /\ ~svc[s].ended => InFlight(toBridge[s], "CLSE")
           /\ svc[s].ended => \A i \in Ids : remotes[i] = s => svc[s].cleanup = "due"

(***************************************************************************)
(* What the device sent is not dropped, and nothing that is still to be    *)
(* done is forgotten.                                                      *)
(***************************************************************************)
NothingLost == EofDrained /\ NothingForgotten

(***************************************************************************)
(* _handleWritePacket: an A_OKAY means the write went to the transport.    *)
(***************************************************************************)
AckMeansAccepted ==
    \A s \in Svcs :
        /\ dev[s].accepted <= peer[s].written
        /\ peer[s].st = "open" /\ ~peer[s].waiting
             => dev[s].accepted = peer[s].written

(***************************************************************************)
(* Service's flow control, in both directions: what the remote has got and *)
(* has not acknowledged, and what it has written and the transport has     *)
(* accepted, is accounted for in every state.                              *)
(***************************************************************************)
FlowControl == OneUnacked /\ BytesInOrder /\ AckMeansAccepted

(***************************************************************************)
(* Service.end: whatever the remote sends, a stream is closed to it at     *)
(* most once.                                                              *)
(***************************************************************************)
Closes(q) == {i \in DOMAIN q : q[i].cmd = "CLSE"}

CloseOnce ==
    \A s \in Svcs :
        /\ \A i, j \in Closes(toPeer[s]) : i = j
        /\ peer[s].shut => Closes(toPeer[s]) = {}

(***************************************************************************)
(* A transport is not left open behind an ended service, late transports   *)
(* included: only the pending .finally of _handleOpenPacket may find one.  *)
(***************************************************************************)
NoTransportLeft ==
    \A s \in Svcs :
        svc[s].ended /\ dev[s].conn = "open" => svc[s].chain = "finally"

(***************************************************************************)
(* Socket.end, "End services first so that they can send a final payload   *)
(* before FIN": no service that was handled outlives the FIN.              *)
(***************************************************************************)
ServicesEndBeforeFin ==
    sockEnded => \A s \in Svcs : svc[s].chain \notin {"none", "rejected"}
                                   => svc[s].ended

(***************************************************************************)
(* The bridge implements AdbStream, its promise to the remote.             *)
(***************************************************************************)
Stream == INSTANCE AdbStream WITH
    Streams <- Svcs,
    st <- [s \in Svcs |-> peer[s].st],
    produced <- [s \in Svcs |-> dev[s].sent],
    got <- [s \in Svcs |-> peer[s].got],
    owes <- [s \in Svcs |-> peer[s].owes],
    written <- [s \in Svcs |-> peer[s].written],
    accepted <- [s \in Svcs |-> dev[s].accepted],
    waiting <- [s \in Svcs |-> peer[s].waiting]

ImplementsAdbStream == Stream!Spec

(***************************************************************************)
(* Fairness.  The event loop runs every callback that is due, the local    *)
(* ADB server answers every request it is sent, and the remote reads its   *)
(* connection and acknowledges what it reads.  Nothing obliges the device  *)
(* to send, the remote to write, or anyone to hang up.                     *)
(***************************************************************************)
Fairness ==
    /\ WF_vars(SocketFails)
    /\ \A s \in Svcs :
          /\ WF_vars(HandlePacket(s)) /\ WF_vars(ServerAnswers(s))
          /\ WF_vars(HandleError(s)) /\ WF_vars(StartPush(s))
          /\ WF_vars(TransportEnds(s)) /\ WF_vars(Finally(s))
          /\ WF_vars(Cleanup(s))
          /\ WF_vars(PeerReceives(s)) /\ WF_vars(PeerAcks(s))

FairSpec == Spec /\ Fairness

Over(s) == sockEnded \/ peer[s].st = "closed"

(***************************************************************************)
(* Socket._handleOpenPacket and Service: every A_OPEN is answered, with    *)
(* A_OKAY or A_CLSE, unless the connection ends.                           *)
(***************************************************************************)
OpenAnswered ==
    \A s \in Svcs :
        (peer[s].st = "opening" /\ authorized) ~> (peer[s].st = "open" \/ Over(s))

(***************************************************************************)
(* _tryPush, driven by 'readable' and by A_OKAY: no byte stays buffered.   *)
(* Each byte the device sends reaches the remote or its stream is over.    *)
(***************************************************************************)
BytesArrive ==
    \A s \in Svcs : \A n \in 1 .. MaxDev :
        (dev[s].sent >= n) ~> (peer[s].got >= n \/ Over(s))

(***************************************************************************)
(* 'end' of the transport: the remote learns that the device hung up.      *)
(***************************************************************************)
EofCloses == \A s \in Svcs : dev[s].eof ~> Over(s)

(***************************************************************************)
(* Service.end, LateTransportError: the transport of a service that has    *)
(* ended is released, also when it is obtained after the service ended.    *)
(***************************************************************************)
TransportReleased ==
    \A s \in Svcs : svc[s].ended ~> [](dev[s].conn # "open")

(***************************************************************************)
(* The .finally of Socket._handleOpenPacket: no ended service stays in the *)
(* map.                                                                    *)
(***************************************************************************)
EndedLeavesMap ==
    \A s \in Svcs : svc[s].ended ~> [](\A i \in Ids : remotes[i] # s)

(***************************************************************************)
(* Of a service that has ended nothing is left, neither on the local ADB   *)
(* server nor in the map.                                                  *)
(***************************************************************************)
EndedReleases == TransportReleased /\ EndedLeavesMap
==============================================================================
