--------------------------- MODULE TcpUsbAuthProps ---------------------------
(***************************************************************************)
(* What must hold of the handshake (TcpUsbAuth).                           *)
(***************************************************************************)
EXTENDS TcpUsbAuth

(***************************************************************************)
(* The variables of the socket, the chains, the channels and the remote    *)
(* keep their types.                                                       *)
(***************************************************************************)
TypeOK ==
    /\ known \in SUBSET Keys /\ approved \in SUBSET Keys
    /\ ended \in BOOLEAN /\ authorized \in BOOLEAN
    /\ token \in Nat /\ signature \in Signature \cup {NoSignature}
    /\ chain \in [Packets -> Chain] /\ seen \in 0 .. MaxPackets
    /\ toPeer \in Seq(OutPacket) /\ toBridge \in Seq(InPacket)
    /\ seen + Len(toBridge) <= MaxPackets
    /\ peer \in Peer /\ strays \in 0 .. MaxStray

(***************************************************************************)
(* _handleAuthPacket and _acceptConnection, whatever order packets and     *)
(* promises come in: an authorized remote has signed a token of this       *)
(* socket with a key that is known or that options.auth approved.          *)
(***************************************************************************)
AuthorizedKey ==
    authorized => /\ signature.key \in known \cup approved
                  /\ signature.token \in 1 .. token

(***************************************************************************)
(* _handleConnectionPacket's chain: the token the socket verifies against  *)
(* is the last one it has sent, also when several are being created.       *)
(***************************************************************************)
IsChallenge(p) == p.cmd = "TOKEN"

\* The last challenge is token: the last of those on their way or, with none
\* on its way, the one the remote had last.
LastOf(onTheirWay, had, t) ==
    /\ \A i \in 1 .. Len(onTheirWay) :
          /\ IsChallenge(onTheirWay[i])
          /\ \A j \in i + 1 .. Len(onTheirWay) : ~IsChallenge(onTheirWay[j])
          => onTheirWay[i].token = t
    /\ (\A i \in 1 .. Len(onTheirWay) : ~IsChallenge(onTheirWay[i])) => had = t

TokenIsLastChallenge == ~ended => LastOf(toPeer, peer.challenge, token)

(***************************************************************************)
(* The handshake with a remote that keeps to it is a dialogue: never more  *)
(* than one of a packet to it, a packet from it and a chain in progress,   *)
(* and never less while the remote waits, unless its connection is ended   *)
(* or nobody listens to the Server's 'error': no path through _handle and  *)
(* its chains leaves it without an answer.                                 *)
(***************************************************************************)
Pending == {p \in Packets : chain[p].step \notin {"none", "done"}}
InProgress == Len(toPeer) + Len(toBridge) + Cardinality(Pending)
Waits == peer.st = "waiting" /\ ~ended /\ ErrorHeard

Dialogue ==
    strays = 0 => /\ InProgress <= 1
                  /\ Waits => InProgress = 1

(***************************************************************************)
(* "Store first signature, ignore the rest", and the same token in every   *)
(* further challenge: the public key a conforming remote sends in the end  *)
(* always matches, however many keys it tried before.                      *)
(***************************************************************************)
ConformingMatches ==
    strays = 0 => \A p \in Packets : chain[p].step # "mismatch"

(***************************************************************************)
(* _handle's .catch: the connection of a remote that failed is ended.      *)
(***************************************************************************)
FailureEnds ==
    (\E p \in Packets : chain[p].step \in {"mismatch", "rejected", "failed"}) ~> ended

(***************************************************************************)
(* A remote that keeps to the handshake gets online, or its connection is  *)
(* ended, or the user has not answered yet.                                *)
(***************************************************************************)
HandshakeSettles ==
    (peer.st = "waiting" /\ strays = 0)
      ~> \/ peer.st = "online" \/ ended \/ strays > 0
         \/ \E p \in Packets : chain[p].step = "auth"
==============================================================================
