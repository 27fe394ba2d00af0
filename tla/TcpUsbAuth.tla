------------------------------ MODULE TcpUsbAuth ------------------------------
(***************************************************************************)
(* The handshake of one connection of the TCP/USB bridge: Socket's         *)
(* handlers of A_CNXN and A_AUTH (src/adb/tcpusb/socket.ts), the promise   *)
(* chains they start, and the remote adb host that answers the challenges. *)
(*                                                                         *)
(* A packet is handled at once, whatever chains earlier packets left       *)
(* pending, and pending chains go on in any order.  Chain p is the one of  *)
(* the p-th packet; its step says what it waits for.                       *)
(*                                                                         *)
(* A token is a number, 0 being none, and a signature a key and the token  *)
(* it signed, since this is all that verify tells apart.  forge's verify   *)
(* may also throw when the key is not the signer's.                        *)
(*                                                                         *)
(* An operator named Faulty... is a mistake the definition after it could  *)
(* have contained; no action uses it.                                      *)
(***************************************************************************)
EXTENDS Integers, Sequences, FiniteSets

CONSTANTS
    NumKeys,     \* the keys of the remote, its user key being the first
    MaxPackets,  \* bound: packets the remote sends
    MaxStray,    \* bound: how many of them out of protocol
    ErrorHeard   \* the Server's user listens to its 'error' event

ASSUME AuthAssumption ==
    /\ NumKeys \in Nat \ {0} /\ MaxPackets \in Nat /\ MaxStray \in Nat
    /\ ErrorHeard \in BOOLEAN

VARIABLES
    known,       \* options.knownPublicKeys
    ended,       \* Socket.ended
    authorized,  \* Socket.authorized
    token,       \* Socket.token
    signature,   \* Socket.signature
    chain,       \* the promise chains of _handle
    seen,        \* packets handled so far
    approved,    \* keys options.auth has resolved for
    toPeer,      \* packets to the remote, in flight
    toBridge,    \* packets from the remote, in flight
    peer,        \* the remote's side of the handshake
    strays       \* out-of-protocol packets sent so far

conf == <<known, ended, authorized, token, signature, approved>>
vars == <<conf, chain, seen, toPeer, toBridge, peer, strays>>

Keys == 1 .. NumKeys
Bad == 0                      \* bytes that are no key, or signed by none
Packets == 1 .. MaxPackets

\* Awaiting randomBytes, the parsed key, options.auth, getProperties; rejected
\* with an AuthError or UnauthorizedError of the protocol, with the AuthError
\* of options.auth, with any other error; settled.
Steps == {"none", "token", "verify", "auth", "props",
          "mismatch", "rejected", "failed", "done"}
Chain == [step : Steps, key : Keys \cup {Bad}]

Signature == [key : Keys \cup {Bad}, token : Nat]
NoSignature == [key |-> Bad, token |-> -1]

InPacket == [cmd : {"CNXN", "SIGNATURE", "RSAPUBLICKEY", "OPEN"},
             key : Keys \cup {Bad}, token : Nat]
OutPacket == [cmd : {"TOKEN", "CNXN"}, token : Nat]
Peer == [st : {"idle", "waiting", "online"}, tried : 0 .. NumKeys, challenge : Nat]

In(cmd, key, t) == [cmd |-> cmd, key |-> key, token |-> t]
Out(cmd, t) == [cmd |-> cmd, token |-> t]

Init ==
    /\ known \in SUBSET Keys
    /\ ended = FALSE /\ authorized = FALSE
    /\ token = 0 /\ signature = NoSignature
    /\ chain = [p \in Packets |-> [step |-> "none", key |-> Bad]] /\ seen = 0
    /\ approved = {}
    /\ toPeer = <<>> /\ toBridge = <<>>
    /\ peer = [st |-> "idle", tried |-> 0, challenge |-> 0]
    /\ strays = 0

Write(p) == toPeer' = IF ended THEN toPeer ELSE Append(toPeer, p)

\* key.verify(token, signature) is true
FaultyVerifies(k, sig) == sig.token = token
Verifies(k, sig) == sig = [key |-> k, token |-> token]

\* It may throw instead.
MayThrow(k, sig) == sig.key # k

(***************************************************************************)
(* Socket._handle: one packet, the start of a chain.                       *)
(***************************************************************************)
Packet == Head(toBridge)
Arrives(cmd) == ~ended /\ toBridge # <<>> /\ Packet.cmd = cmd

\* The chain of this packet begins in a step, for a key.
Begin(step, key) ==
    /\ toBridge' = Tail(toBridge)
    /\ seen' = seen + 1
    /\ chain' = [chain EXCEPT ![seen + 1] = [step |-> step, key |-> key]]
    /\ UNCHANGED <<known, ended, authorized, token, approved, peer, strays>>

Discard ==
    /\ ended /\ toBridge # <<>>
    /\ toBridge' = Tail(toBridge)
    /\ UNCHANGED <<conf, chain, seen, toPeer, peer, strays>>

HandleConnection ==
    /\ Arrives("CNXN")
    /\ Begin("token", Bad)
    /\ UNCHANGED <<signature, toPeer>>

\* "Store first signature, ignore the rest"
FaultyStored == [key |-> Packet.key, token |-> Packet.token]
Stored == IF signature = NoSignature
          THEN [key |-> Packet.key, token |-> Packet.token] ELSE signature
IsKnown == \E k \in known : Verifies(k, Stored)

\* A TypeError: no token was created yet.
SignatureTooEarly ==
    /\ Arrives("SIGNATURE") /\ token = 0
    /\ signature' = Stored
    /\ Begin("failed", Bad)
    /\ UNCHANGED toPeer

SignatureKnown ==
    /\ Arrives("SIGNATURE") /\ token # 0
    /\ signature' = Stored
    /\ IsKnown
    /\ Begin("props", Bad)
    /\ UNCHANGED toPeer

SignatureThrows ==
    /\ Arrives("SIGNATURE") /\ token # 0
    /\ signature' = Stored
    /\ \E k \in known : MayThrow(k, Stored)
    /\ Begin("failed", Bad)
    /\ UNCHANGED toPeer

\* The same token once more.
FaultyChallengeAgain ==
    /\ Arrives("SIGNATURE") /\ token # 0
    /\ signature' = Stored
    /\ Write(Out("TOKEN", token))
    /\ IF IsKnown THEN Begin("props", Bad) ELSE Begin("done", Bad)
FaultySilence ==
    /\ Arrives("SIGNATURE") /\ token # 0
    /\ signature' = Stored
    /\ ~IsKnown
    /\ Begin("done", Bad)
    /\ UNCHANGED toPeer
ChallengeAgain ==
    /\ Arrives("SIGNATURE") /\ token # 0
    /\ signature' = Stored
    /\ ~IsKnown
    /\ Write(Out("TOKEN", token))
    /\ Begin("done", Bad)

HandlePublicKey ==
    /\ Arrives("RSAPUBLICKEY")
    /\ IF signature = NoSignature THEN Begin("mismatch", Bad)
       ELSE IF Packet.key = Bad THEN \E step \in {"mismatch", "failed"} : Begin(step, Bad)
       ELSE Begin("verify", Packet.key)
    /\ UNCHANGED <<signature, toPeer>>

\* UnauthorizedError before the handshake is over; the streams' business after.
HandleOpen ==
    /\ Arrives("OPEN")
    /\ Begin(IF authorized THEN "done" ELSE "mismatch", Bad)
    /\ UNCHANGED <<signature, toPeer>>

HandlePacket ==
    \/ Discard \/ HandleConnection \/ SignatureTooEarly \/ SignatureKnown
    \/ SignatureThrows \/ ChallengeAgain \/ HandlePublicKey \/ HandleOpen

(***************************************************************************)
(* The steps of the chains.                                                *)
(***************************************************************************)
Goto(p, step) == chain' = [chain EXCEPT ![p].step = step]
Elsewhere == UNCHANGED <<known, seen, toBridge, peer, strays>>

\* The token is stored and sent in one callback.
FaultyRemember(t) == UNCHANGED token
Remember(t) == token' = t
TokenCreated(p) ==
    /\ chain[p].step = "token"
    /\ Remember(token + 1)
    /\ Write(Out("TOKEN", token + 1))
    /\ Goto(p, "done")
    /\ Elsewhere /\ UNCHANGED <<ended, authorized, signature, approved>>

\* randomBytes or getProperties rejects, or options.auth throws.
ChainFails(p) ==
    /\ chain[p].step \in {"token", "auth", "props"}
    /\ Goto(p, "failed")
    /\ Elsewhere /\ UNCHANGED <<ended, authorized, token, signature, approved, toPeer>>

\* Again a TypeError without a token; else a match, a mismatch or a throw.
Verdicts(k) ==
    IF token = 0 THEN {"failed"}
    ELSE IF Verifies(k, signature) THEN {"auth"}
    ELSE {"mismatch"} \cup (IF MayThrow(k, signature) THEN {"failed"} ELSE {})

Verify(p) ==
    /\ chain[p].step = "verify"
    /\ \E step \in Verdicts(chain[p].key) : Goto(p, step)
    /\ Elsewhere /\ UNCHANGED <<ended, authorized, token, signature, approved, toPeer>>

Approve(p) ==
    /\ chain[p].step = "auth"
    /\ approved' = approved \cup {chain[p].key}
    /\ Goto(p, "props")
    /\ Elsewhere /\ UNCHANGED <<ended, authorized, token, signature, toPeer>>

Reject(p) ==
    /\ chain[p].step = "auth"
    /\ Goto(p, "rejected")
    /\ Elsewhere /\ UNCHANGED <<ended, authorized, token, signature, approved, toPeer>>

\* _acceptConnection
Accept(p) ==
    /\ chain[p].step = "props"
    /\ authorized' = TRUE
    /\ Write(Out("CNXN", 0))
    /\ Goto(p, "done")
    /\ Elsewhere /\ UNCHANGED <<ended, token, signature, approved>>

\* .catch(AuthError), .catch(UnauthorizedError)
Refuse(p) ==
    /\ chain[p].step \in {"mismatch", "rejected"}
    /\ ended' = TRUE
    /\ Goto(p, "done")
    /\ Elsewhere /\ UNCHANGED <<authorized, token, signature, approved, toPeer>>

\* .catch of anything else: _error emits 'error' first, which throws out of
\* the Server's emit when nobody listens there, and end() is not reached.
FaultyReports == ended
Reports == ended \/ ErrorHeard
Fail(p) ==
    /\ chain[p].step = "failed"
    /\ ended' = Reports
    /\ Goto(p, "done")
    /\ Elsewhere /\ UNCHANGED <<authorized, token, signature, approved, toPeer>>

\* The remote's FIN, a reader error, or Server.end.
SocketEnds ==
    /\ ~ended /\ ended' = TRUE
    /\ Elsewhere /\ UNCHANGED <<authorized, token, signature, approved, chain, toPeer>>

(***************************************************************************)
(* The remote: it answers each challenge with the signature of its next    *)
(* key, and with the public key of its first one when it has no more.      *)
(***************************************************************************)
MaySend == seen + Len(toBridge) < MaxPackets
Send(p) == toBridge' = Append(toBridge, p)

PeerConnects ==
    /\ peer.st = "idle" /\ MaySend
    /\ peer' = [peer EXCEPT !.st = "waiting"]
    /\ Send(In("CNXN", Bad, 0))
    /\ UNCHANGED <<conf, chain, seen, toPeer, strays>>

PeerAnswers ==
    /\ toPeer # <<>> /\ Head(toPeer).cmd = "TOKEN" /\ MaySend
    /\ toPeer' = Tail(toPeer)
    /\ LET t == Head(toPeer).token
       IN IF peer.tried < NumKeys
          THEN /\ peer' = [peer EXCEPT !.tried = @ + 1, !.challenge = t]
               /\ Send(In("SIGNATURE", peer.tried + 1, t))
          ELSE /\ peer' = [peer EXCEPT !.challenge = t]
               /\ Send(In("RSAPUBLICKEY", 1, 0))
    /\ UNCHANGED <<conf, chain, seen, strays>>

PeerOnline ==
    /\ toPeer # <<>> /\ Head(toPeer).cmd = "CNXN"
    /\ toPeer' = Tail(toPeer)
    /\ peer' = [peer EXCEPT !.st = "online"]
    /\ UNCHANGED <<conf, chain, seen, toBridge, strays>>

\* Anything at any time, the challenges it knows being the tokens.
PeerStrays ==
    /\ strays < MaxStray /\ MaySend
    /\ strays' = strays + 1
    /\ \E cmd \in {"CNXN", "SIGNATURE", "RSAPUBLICKEY", "OPEN"},
          k \in Keys \cup {Bad} : Send(In(cmd, k, peer.challenge))
    /\ UNCHANGED <<conf, chain, seen, toPeer, peer>>

------------------------------------------------------------------------------
ChainStep(p) ==
    \/ TokenCreated(p) \/ ChainFails(p) \/ Verify(p) \/ Approve(p) \/ Reject(p)
    \/ Accept(p) \/ Refuse(p) \/ Fail(p)

Next ==
    \/ HandlePacket \/ (\E p \in Packets : ChainStep(p)) \/ SocketEnds
    \/ PeerConnects \/ PeerAnswers \/ PeerOnline \/ PeerStrays

Spec == Init /\ [][Next]_vars

(***************************************************************************)
(* The event loop runs what is due, randomBytes and the local ADB server   *)
(* answer, and the remote reads and answers its challenges.  The user      *)
(* behind options.auth may take for ever.                                  *)
(***************************************************************************)
Fairness ==
    /\ WF_vars(HandlePacket) /\ WF_vars(PeerAnswers) /\ WF_vars(PeerOnline)
    /\ \A p \in Packets :
          WF_vars(ChainStep(p) /\ chain[p].step # "auth")

FairSpec == Spec /\ Fairness
==============================================================================
