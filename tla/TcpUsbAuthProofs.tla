--------------------------- MODULE TcpUsbAuthProofs ---------------------------
(***************************************************************************)
(* Proofs about the handshake (TcpUsbAuth), for every number of keys,      *)
(* packets and strays.                                                     *)
(*                                                                         *)
(* AuthorizedKey is not inductive: a chain that has passed its verify      *)
(* resumes later, when the token, the stored signature and the answers of  *)
(* the user may have changed.  What saves it is that the stored signature  *)
(* is never replaced, and that tokens and approvals only grow (Passed).    *)
(*                                                                         *)
(* With a remote that keeps to the handshake one thing is in progress at a *)
(* time, and DialogueInv says what it may be at each stage.                *)
(***************************************************************************)
EXTENDS TcpUsbAuthProps, SequenceTheorems, FiniteSetTheorems, TLAPS

SignedHere == signature.token \in 1 .. token
Acceptable == signature.key \in known \cup approved

Passed ==
    \A p \in Packets :
        /\ chain[p].step \in {"verify", "auth"} => chain[p].key \in Keys
        /\ chain[p].step = "auth" => signature.key = chain[p].key /\ SignedHere
        /\ chain[p].step = "props" => Acceptable /\ SignedHere

IInv == TypeOK /\ Passed /\ AuthorizedKey

------------------------------------------------------------------------------
(***************************************************************************)
(* Socket._handle starts the chain of a packet that is there.              *)
(***************************************************************************)
LEMMA ArrivalType ==
    ASSUME TypeOK, toBridge # <<>>
    PROVE  /\ Packet \in InPacket
           /\ Tail(toBridge) \in Seq(InPacket)
           /\ Len(Tail(toBridge)) = Len(toBridge) - 1
           /\ seen + 1 \in Packets
           /\ seen + 1 \in 0 .. MaxPackets
           /\ seen + 1 + Len(Tail(toBridge)) <= MaxPackets
<1>1. toBridge \in Seq(InPacket) /\ Len(toBridge) \in Nat /\ Len(toBridge) # 0
  BY EmptySeq, LenProperties DEF TypeOK
<1>2. Packet \in InPacket /\ Tail(toBridge) \in Seq(InPacket)
      /\ Len(Tail(toBridge)) = Len(toBridge) - 1
  BY <1>1, HeadTailProperties DEF Packet
<1>3. seen \in 0 .. MaxPackets /\ seen + Len(toBridge) <= MaxPackets /\ MaxPackets \in Nat
  BY AuthAssumption DEF TypeOK, AuthAssumption
<1> QED BY ONLY <1>1, <1>2, <1>3, SMT DEF Packets

(***************************************************************************)
(* The stored signature is a signature, and the first one stays.           *)
(***************************************************************************)
LEMMA StoredType ==
    ASSUME TypeOK, toBridge # <<>>
    PROVE  /\ Stored \in Signature \cup {NoSignature}
           /\ signature # NoSignature => Stored = signature
<1>1. Packet.key \in Keys \cup {Bad} /\ Packet.token \in Nat
  BY ArrivalType DEF InPacket
<1>2. [key |-> Packet.key, token |-> Packet.token] \in Signature
  BY ONLY <1>1 DEF Signature
<1> QED BY <1>2 DEF Stored, TypeOK

(***************************************************************************)
(* Accepting or starting nothing: Begin keeps the types.                   *)
(***************************************************************************)
LEMMA BeginType ==
    ASSUME TypeOK, toBridge # <<>>,
           NEW step \in Steps, NEW key \in Keys \cup {Bad}, Begin(step, key)
    PROVE  /\ toBridge' \in Seq(InPacket) /\ seen' \in 0 .. MaxPackets
           /\ seen' + Len(toBridge') <= MaxPackets
           /\ chain' \in [Packets -> Chain]
           /\ seen + 1 \in Packets
           /\ chain'[seen + 1] = [step |-> step, key |-> key]
           /\ \A p \in Packets : p # seen + 1 => chain'[p] = chain[p]
           /\ UNCHANGED <<known, ended, authorized, token, approved, peer, strays>>
<1>1. [step |-> step, key |-> key] \in Chain
  BY DEF Chain
<1>2. chain \in [Packets -> Chain] /\ seen + 1 \in Packets
  BY ArrivalType DEF TypeOK
<1>3. chain' = [chain EXCEPT ![seen + 1] = [step |-> step, key |-> key]]
  BY DEF Begin
<1>4. chain' \in [Packets -> Chain] /\ chain'[seen + 1] = [step |-> step, key |-> key]
      /\ \A p \in Packets : p # seen + 1 => chain'[p] = chain[p]
  BY ONLY <1>1, <1>2, <1>3
<1>5. /\ toBridge' = Tail(toBridge) /\ seen' = seen + 1
      /\ UNCHANGED <<known, ended, authorized, token, approved, peer, strays>>
  BY DEF Begin
<1>6. /\ Tail(toBridge) \in Seq(InPacket) /\ seen + 1 \in 0 .. MaxPackets
      /\ seen + 1 + Len(Tail(toBridge)) <= MaxPackets
  BY ArrivalType
<1> QED BY ONLY <1>2, <1>4, <1>5, <1>6

(***************************************************************************)
(* A chain that goes to another step keeps its packet's key.               *)
(***************************************************************************)
LEMMA GotoType ==
    ASSUME TypeOK, NEW p \in Packets, NEW step \in Steps, Goto(p, step)
    PROVE  /\ chain' \in [Packets -> Chain]
           /\ chain'[p].step = step /\ chain'[p].key = chain[p].key
           /\ \A q \in Packets : q # p => chain'[q] = chain[q]
<1>1. chain \in [Packets -> Chain] /\ chain[p] \in Chain
  BY DEF TypeOK
<1>2. chain' = [chain EXCEPT ![p] = [chain[p] EXCEPT !.step = step]]
  BY <1>1 DEF Goto
<1>3. [chain[p] EXCEPT !.step = step] \in Chain
      /\ [chain[p] EXCEPT !.step = step].step = step
      /\ [chain[p] EXCEPT !.step = step].key = chain[p].key
  BY <1>1 DEF Chain
<1> QED BY ONLY <1>1, <1>2, <1>3

(***************************************************************************)
(* What the socket writes are packets to the remote.                       *)
(***************************************************************************)
LEMMA WriteType ==
    ASSUME TypeOK, NEW p \in OutPacket, Write(p)
    PROVE  toPeer' \in Seq(OutPacket)
<1>1. toPeer \in Seq(OutPacket)
  BY DEF TypeOK
<1>2. Append(toPeer, p) \in Seq(OutPacket)
  BY <1>1, AppendProperties
<1> QED BY <1>1, <1>2 DEF Write

\* The challenge in force is a packet.
LEMMA Tokens == ASSUME TypeOK PROVE Out("TOKEN", token) \in OutPacket
                                 /\ Out("TOKEN", token + 1) \in OutPacket
                                 /\ Out("CNXN", 0) \in OutPacket
BY SMT DEF Out, OutPacket, TypeOK

(***************************************************************************)
(* Passed chains survive what only grows: a signature that stays once it   *)
(* is stored, more tokens, more approvals.                                 *)
(***************************************************************************)
LEMMA StaysPassed ==
    ASSUME TypeOK, SignedHere, signature # NoSignature => signature' = signature,
           token' \in Nat, token <= token', known' = known, approved \subseteq approved'
    PROVE  /\ signature' = signature /\ SignedHere'
           /\ Acceptable => Acceptable'
<1>1. signature.token \in 1 .. token /\ NoSignature.token = -1 /\ token \in Nat
  BY DEF SignedHere, NoSignature, TypeOK
<1>2. signature # NoSignature
  <2>1. SUFFICES ASSUME signature = NoSignature PROVE FALSE
    OBVIOUS
  <2>2. signature.token = -1
    BY <1>1, <2>1
  <2> QED BY ONLY <1>1, <2>2, SMT
<1>3. signature' = signature
  BY <1>2
<1>4. SignedHere'
  BY <1>1, <1>3, SMT DEF SignedHere
<1> QED BY <1>3, <1>4 DEF Acceptable

(***************************************************************************)
(* What a packet's handler leaves invariant: it starts a chain that has    *)
(* not passed verify, unless the stored signature is acceptable.           *)
(***************************************************************************)
LEMMA Handling ==
    ASSUME IInv, toBridge # <<>>,
           NEW step \in Steps, NEW key \in Keys \cup {Bad}, Begin(step, key),
           signature' = signature \/ signature' = Stored,
           toPeer' \in Seq(OutPacket), peer' = peer,
           step # "auth", step = "verify" => key \in Keys,
           step = "props" => (Acceptable /\ SignedHere)'
    PROVE  IInv'
<1> USE DEF IInv
<1>1. /\ toBridge' \in Seq(InPacket) /\ seen' \in 0 .. MaxPackets
      /\ seen' + Len(toBridge') <= MaxPackets
      /\ chain' \in [Packets -> Chain]
      /\ seen + 1 \in Packets
      /\ chain'[seen + 1] = [step |-> step, key |-> key]
      /\ \A p \in Packets : p # seen + 1 => chain'[p] = chain[p]
      /\ UNCHANGED <<known, ended, authorized, token, approved, peer, strays>>
  BY BeginType
<1>2. signature' \in Signature \cup {NoSignature}
      /\ (signature # NoSignature => signature' = signature)
  BY StoredType DEF TypeOK
<1>3. TypeOK'
  BY <1>1, <1>2 DEF TypeOK
<1>4. ASSUME SignedHere
      PROVE  signature' = signature /\ SignedHere' /\ (Acceptable => Acceptable')
  <2>1. token' \in Nat /\ token <= token' /\ known' = known /\ approved \subseteq approved'
    BY <1>1, SMT DEF TypeOK
  <2> QED BY <1>2, <1>4, <2>1, StaysPassed
<1>5. Passed'
  <2>1. SUFFICES ASSUME NEW p \in Packets
                 PROVE  /\ chain'[p].step \in {"verify", "auth"} => chain'[p].key \in Keys
                        /\ chain'[p].step = "auth" =>
                             signature'.key = chain'[p].key /\ SignedHere'
                        /\ chain'[p].step = "props" => Acceptable' /\ SignedHere'
    BY DEF Passed
  <2>2. CASE p = seen + 1
    BY <1>1, <2>2
  <2>3. CASE p # seen + 1
    <3>1. chain'[p] = chain[p]
      BY <1>1, <2>3
    <3> QED BY <1>4, <3>1 DEF Passed
  <2> QED BY <2>2, <2>3
<1>6. AuthorizedKey'
  <2>1. CASE authorized
    BY <1>1, <1>4, <2>1 DEF AuthorizedKey, SignedHere, Acceptable
  <2>2. CASE ~authorized
    BY <1>1, <2>2 DEF AuthorizedKey
  <2> QED BY <2>1, <2>2
<1> QED BY <1>3, <1>5, <1>6

(***************************************************************************)
(* What the step of a chain leaves invariant.                              *)
(***************************************************************************)
LEMMA Going ==
    ASSUME IInv, NEW p \in Packets, NEW step \in Steps, Goto(p, step), Elsewhere,
           signature' = signature, peer' = peer,
           toPeer' \in Seq(OutPacket), ended' \in BOOLEAN, authorized' \in BOOLEAN,
           token' \in Nat, token <= token',
           approved' \in SUBSET Keys, approved \subseteq approved',
           step # "verify",
           step = "auth" =>
              chain[p].key \in Keys /\ signature.key = chain[p].key /\ SignedHere,
           step = "props" => Acceptable' /\ SignedHere,
           authorized' => authorized \/ (Acceptable /\ SignedHere)
    PROVE  IInv'
<1> USE DEF IInv
<1>1. /\ chain' \in [Packets -> Chain]
      /\ chain'[p].step = step /\ chain'[p].key = chain[p].key
      /\ \A q \in Packets : q # p => chain'[q] = chain[q]
  BY GotoType
<1>2. known' = known /\ seen' = seen /\ toBridge' = toBridge /\ strays' = strays
  BY DEF Elsewhere
<1>3. TypeOK'
  BY <1>1, <1>2 DEF TypeOK
<1>4. ASSUME SignedHere PROVE SignedHere' /\ (Acceptable => Acceptable')
  BY <1>2, <1>4, StaysPassed
<1>5. Passed'
  <2>1. SUFFICES ASSUME NEW q \in Packets
                 PROVE  /\ chain'[q].step \in {"verify", "auth"} => chain'[q].key \in Keys
                        /\ chain'[q].step = "auth" =>
                             signature'.key = chain'[q].key /\ SignedHere'
                        /\ chain'[q].step = "props" => Acceptable' /\ SignedHere'
    BY DEF Passed
  <2>2. CASE q = p
    BY <1>1, <1>4, <2>2
  <2>3. CASE q # p
    <3>1. chain'[q] = chain[q]
      BY <1>1, <2>3
    <3> QED BY <1>4, <3>1 DEF Passed
  <2> QED BY <2>2, <2>3
<1>6. AuthorizedKey'
  <2>1. SUFFICES ASSUME authorized' PROVE Acceptable' /\ SignedHere'
    BY DEF AuthorizedKey, Acceptable, SignedHere
  <2>2. Acceptable /\ SignedHere
    BY <2>1 DEF AuthorizedKey, Acceptable, SignedHere
  <2> QED BY <1>4, <2>2
<1> QED BY <1>3, <1>5, <1>6

(***************************************************************************)
(* How the last challenge changes with what is written and what is read.   *)
(***************************************************************************)
LEMMA LastAppended ==
    ASSUME NEW s \in Seq(OutPacket), NEW p \in OutPacket, NEW had, NEW t \in Nat,
           IsChallenge(p) => p.token = t,
           ~IsChallenge(p) => LastOf(s, had, t)
    PROVE  LastOf(Append(s, p), had, t)
<1> DEFINE a == Append(s, p)
<1>1. Len(s) \in Nat /\ Len(a) = Len(s) + 1 /\ a[Len(s) + 1] = p
      /\ \A i \in 1 .. Len(s) : a[i] = s[i]
  BY LenProperties, AppendProperties
<1> HIDE DEF a
<1>2. CASE IsChallenge(p)
  <2>1. ASSUME NEW i \in 1 .. Len(a),
               \A j \in i + 1 .. Len(a) : ~IsChallenge(a[j])
        PROVE  i = Len(s) + 1
    <3>1. SUFFICES ASSUME i # Len(s) + 1 PROVE FALSE
      OBVIOUS
    <3>2. Len(s) + 1 \in i + 1 .. Len(a)
      BY ONLY <1>1, <3>1, SMT
    <3> QED BY <1>1, <1>2, <2>1, <3>2
  <2>2. Len(s) + 1 \in 1 .. Len(a)
    BY ONLY <1>1, SMT
  <2> QED BY <1>1, <1>2, <2>1, <2>2 DEF LastOf, a
<1>3. CASE ~IsChallenge(p)
  <2>1. LastOf(s, had, t)
    BY <1>3
  <2>2. ASSUME NEW i \in 1 .. Len(a), IsChallenge(a[i]),
               \A j \in i + 1 .. Len(a) : ~IsChallenge(a[j])
        PROVE  a[i].token = t
    <3>1. i \in 1 .. Len(s)
      <4>1. i # Len(s) + 1
        BY <1>1, <1>3, <2>2
      <4> QED BY ONLY <1>1, <4>1, SMT
    <3>2. ASSUME NEW j \in i + 1 .. Len(s) PROVE ~IsChallenge(s[j])
      <4>1. j \in i + 1 .. Len(a) /\ j \in 1 .. Len(s)
        BY ONLY <1>1, <3>1, <3>2, SMT
      <4> QED BY <1>1, <2>2, <4>1
    <3> QED BY <1>1, <2>1, <2>2, <3>1, <3>2 DEF LastOf
  <2>3. ASSUME \A i \in 1 .. Len(a) : ~IsChallenge(a[i]) PROVE had = t
    <3>1. \A i \in 1 .. Len(s) : i \in 1 .. Len(a)
      BY ONLY <1>1, SMT
    <3> QED BY <1>1, <2>1, <2>3, <3>1 DEF LastOf
  <2> QED BY <2>2, <2>3 DEF LastOf, a
<1> QED BY <1>2, <1>3

\* What the remote reads is no longer on its way.
LEMMA LastRead ==
    ASSUME NEW s \in Seq(OutPacket), s # <<>>, NEW had, NEW t \in Nat, LastOf(s, had, t)
    PROVE  LastOf(Tail(s), IF IsChallenge(Head(s)) THEN Head(s).token ELSE had, t)
<1> DEFINE r == Tail(s)
<1>1. Len(s) \in Nat /\ Len(s) >= 1 /\ Len(r) = Len(s) - 1 /\ Head(s) = s[1]
      /\ \A i \in 1 .. Len(r) : r[i] = s[i + 1]
  <2>1. Len(s) \in Nat /\ Len(s) # 0
    BY LenProperties, EmptySeq
  <2>2. Len(r) = Len(s) - 1 /\ Head(s) = s[1] /\ \A i \in 1 .. Len(r) : r[i] = s[i + 1]
    BY <2>1, HeadTailProperties
  <2> QED BY <2>1, <2>2, SMT
<1> HIDE DEF r
<1>2. \A j \in 2 .. Len(s) : j - 1 \in 1 .. Len(r) /\ r[j - 1] = s[j]
  <2>1. \A j \in 2 .. Len(s) : j - 1 \in 1 .. Len(r) /\ (j - 1) + 1 = j
    BY ONLY <1>1, SMT
  <2> QED BY <1>1, <2>1
<1>3. ASSUME NEW i \in 1 .. Len(r), IsChallenge(r[i]),
             \A j \in i + 1 .. Len(r) : ~IsChallenge(r[j])
      PROVE  r[i].token = t
  <2>1. i + 1 \in 1 .. Len(s)
    BY ONLY <1>1, SMT
  <2>2. ASSUME NEW j \in (i + 1) + 1 .. Len(s) PROVE ~IsChallenge(s[j])
    <3>1. j \in 2 .. Len(s) /\ j - 1 \in i + 1 .. Len(r)
      BY ONLY <1>1, <2>2, SMT
    <3> QED BY <1>2, <1>3, <3>1
  <2> QED BY <1>1, <1>3, <2>1, <2>2 DEF LastOf
<1>4. ASSUME \A i \in 1 .. Len(r) : ~IsChallenge(r[i])
      PROVE  (IF IsChallenge(Head(s)) THEN Head(s).token ELSE had) = t
  <2>1. \A j \in 2 .. Len(s) : ~IsChallenge(s[j])
    BY <1>2, <1>4
  <2>2. 1 \in 1 .. Len(s) /\ \A j \in 1 .. Len(s) : j = 1 \/ j \in 2 .. Len(s)
    BY ONLY <1>1, SMT
  <2>3. \A j \in 1 + 1 .. Len(s) : j \in 2 .. Len(s)
    BY ONLY <1>1, SMT
  <2>4. CASE IsChallenge(Head(s))
    BY <1>1, <2>1, <2>2, <2>3, <2>4 DEF LastOf
  <2>5. CASE ~IsChallenge(Head(s))
    BY <1>1, <2>1, <2>2, <2>5 DEF LastOf
  <2> QED BY <2>4, <2>5
<1> QED BY <1>3, <1>4 DEF LastOf, r

------------------------------------------------------------------------------
\* The first state satisfies IInv.
LEMMA InvInit == Init => IInv
<1> SUFFICES ASSUME Init PROVE IInv
  OBVIOUS
<1>1. [step |-> "none", key |-> Bad] \in Chain
  BY DEF Chain, Steps
<1>2. chain \in [Packets -> Chain] /\ \A p \in Packets : chain[p].step = "none"
  BY <1>1 DEF Init
<1>3. [st |-> "idle", tried |-> 0, challenge |-> 0] \in Peer
  BY AuthAssumption, SMT DEF Peer, AuthAssumption
<1>4. toPeer \in Seq(OutPacket) /\ toBridge \in Seq(InPacket) /\ Len(toBridge) = 0
  BY EmptySeq DEF Init
<1>5. 0 \in 0 .. MaxPackets /\ 0 \in 0 .. MaxStray /\ 0 + 0 <= MaxPackets
  BY AuthAssumption, SMT DEF AuthAssumption
<1>6. TypeOK
  BY <1>2, <1>3, <1>4, <1>5 DEF Init, TypeOK
<1> QED BY <1>2, <1>6 DEF Init, IInv, Passed, AuthorizedKey

\* Every step preserves IInv.
LEMMA InvNext == IInv /\ [Next]_vars => IInv'
<1> SUFFICES ASSUME IInv, [Next]_vars PROVE IInv'
  OBVIOUS
<1> USE DEF IInv
<1>1. CASE Discard
  <2>1. Tail(toBridge) \in Seq(InPacket) /\ seen + Len(Tail(toBridge)) <= MaxPackets
    <3>1. Tail(toBridge) \in Seq(InPacket) /\ seen + 1 + Len(Tail(toBridge)) <= MaxPackets
      BY <1>1, ArrivalType DEF Discard
    <3>2. seen \in Nat /\ Len(Tail(toBridge)) \in Nat /\ MaxPackets \in Nat
      BY <3>1, LenProperties, AuthAssumption DEF TypeOK, AuthAssumption
    <3> QED BY ONLY <3>1, <3>2, SMT
  <2>2. toBridge' = Tail(toBridge) /\ UNCHANGED <<conf, chain, seen, toPeer, peer, strays>>
    BY <1>1 DEF Discard
  <2> QED BY <2>1, <2>2 DEF conf, TypeOK, Passed, AuthorizedKey, SignedHere, Acceptable
<1>2. CASE HandleConnection
  <2>1. Begin("token", Bad) /\ signature' = signature /\ toPeer' = toPeer
        /\ peer' = peer /\ toBridge # <<>>
    BY <1>2 DEF HandleConnection, Arrives, Begin
  <2>2. "token" \in Steps /\ "token" # "auth" /\ "token" # "props"
        /\ Bad \in Keys \cup {Bad} /\ toPeer' \in Seq(OutPacket)
    BY <2>1 DEF Steps, TypeOK
  <2> QED BY <2>1, <2>2, Handling
<1>3. CASE SignatureTooEarly
  <2>1. Begin("failed", Bad) /\ signature' = Stored /\ toPeer' = toPeer
        /\ peer' = peer /\ toBridge # <<>>
    BY <1>3 DEF SignatureTooEarly, Arrives, Begin
  <2>2. "failed" \in Steps /\ "failed" # "auth" /\ "failed" # "props"
        /\ Bad \in Keys \cup {Bad} /\ toPeer' \in Seq(OutPacket)
    BY <2>1 DEF Steps, TypeOK
  <2> QED BY <2>1, <2>2, Handling
<1>4. CASE SignatureKnown
  <2>1. Begin("props", Bad) /\ signature' = Stored /\ toPeer' = toPeer
        /\ peer' = peer /\ toBridge # <<>> /\ token # 0
    BY <1>4 DEF SignatureKnown, Arrives, Begin
  <2>2. "props" \in Steps /\ "props" # "auth"
        /\ Bad \in Keys \cup {Bad} /\ toPeer' \in Seq(OutPacket)
    BY <2>1 DEF Steps, TypeOK
  <2>3. PICK k \in known : Stored = [key |-> k, token |-> token]
    BY <1>4 DEF SignatureKnown, IsKnown, Verifies
  <2>4. token' = token /\ known' = known /\ approved' = approved
    BY <2>1 DEF Begin
  <2>5. token \in 1 .. token
    BY <2>1, SMT DEF TypeOK
  <2>6. signature'.key = k /\ signature'.token = token
    BY <2>1, <2>3
  <2>7. Acceptable' /\ SignedHere'
    BY <2>4, <2>5, <2>6 DEF Acceptable, SignedHere
  <2> QED BY <2>1, <2>2, <2>7, Handling
<1>5. CASE SignatureThrows
  <2>1. Begin("failed", Bad) /\ signature' = Stored /\ toPeer' = toPeer
        /\ peer' = peer /\ toBridge # <<>>
    BY <1>5 DEF SignatureThrows, Arrives, Begin
  <2>2. "failed" \in Steps /\ "failed" # "auth" /\ "failed" # "props"
        /\ Bad \in Keys \cup {Bad} /\ toPeer' \in Seq(OutPacket)
    BY <2>1 DEF Steps, TypeOK
  <2> QED BY <2>1, <2>2, Handling
<1>6. CASE ChallengeAgain
  <2>1. Begin("done", Bad) /\ signature' = Stored /\ Write(Out("TOKEN", token))
        /\ peer' = peer /\ toBridge # <<>>
    BY <1>6 DEF ChallengeAgain, Arrives, Begin
  <2>2. "done" \in Steps /\ "done" # "auth" /\ "done" # "props"
        /\ Bad \in Keys \cup {Bad} /\ toPeer' \in Seq(OutPacket)
    BY <2>1, Tokens, WriteType DEF Steps
  <2> QED BY <2>1, <2>2, Handling
<1>7. CASE HandlePublicKey
  <2>1. signature' = signature /\ toPeer' = toPeer /\ toBridge # <<>>
        /\ toPeer' \in Seq(OutPacket)
    BY <1>7 DEF HandlePublicKey, Arrives, TypeOK
  <2>2. Packet.key \in Keys \cup {Bad} /\ Bad \in Keys \cup {Bad}
    BY <2>1, ArrivalType DEF InPacket
  <2>3. PICK step \in {"mismatch", "failed", "verify"}, key \in Keys \cup {Bad} :
            Begin(step, key) /\ (step = "verify" => key \in Keys)
    BY <1>7, <2>2 DEF HandlePublicKey
  <2>4. step \in Steps /\ step # "auth" /\ step # "props" /\ peer' = peer
    BY <2>3 DEF Steps, Begin
  <2> QED BY <2>1, <2>3, <2>4, Handling
<1>8. CASE HandleOpen
  <2>1. signature' = signature /\ toPeer' = toPeer /\ toBridge # <<>>
        /\ toPeer' \in Seq(OutPacket) /\ Bad \in Keys \cup {Bad}
    BY <1>8 DEF HandleOpen, Arrives, TypeOK
  <2>2. PICK step \in {"mismatch", "done"} : Begin(step, Bad)
    BY <1>8 DEF HandleOpen
  <2>3. step \in Steps /\ step # "auth" /\ step # "props" /\ peer' = peer
    BY <2>2 DEF Steps, Begin
  <2> QED BY <2>1, <2>2, <2>3, Handling
<1>9. ASSUME NEW p \in Packets, ChainStep(p) PROVE IInv'
  <2> USE <1>9
  <2>0. token \in Nat /\ token <= token /\ approved \in SUBSET Keys
        /\ ended \in BOOLEAN /\ authorized \in BOOLEAN /\ toPeer \in Seq(OutPacket)
        /\ {"done", "failed", "mismatch", "rejected", "auth", "props"} \subseteq Steps
    BY SMT DEF TypeOK, Steps
  <2>1. CASE TokenCreated(p)
    <3>1. Goto(p, "done") /\ Elsewhere /\ token' = token + 1 /\ Write(Out("TOKEN", token + 1))
          /\ UNCHANGED <<ended, authorized, signature, approved, peer>>
      BY <2>1 DEF TokenCreated, Remember, Elsewhere
    <3>2. token' \in Nat /\ token <= token'
      BY <2>0, <3>1, SMT
    <3>3. toPeer' \in Seq(OutPacket)
      BY <3>1, Tokens, WriteType
    <3> QED BY <2>0, <3>1, <3>2, <3>3, Going
  <2>2. CASE ChainFails(p)
    <3>1. Goto(p, "failed") /\ Elsewhere
          /\ UNCHANGED <<ended, authorized, token, signature, approved, toPeer, peer>>
      BY <2>2 DEF ChainFails, Elsewhere
    <3> QED BY <2>0, <3>1, Going
  <2>3. CASE Verify(p)
    <3>1. Elsewhere /\ UNCHANGED <<ended, authorized, token, signature, approved, toPeer, peer>>
      BY <2>3 DEF Verify, Elsewhere
    <3>2. PICK step \in Verdicts(chain[p].key) : Goto(p, step)
      BY <2>3 DEF Verify
    <3>3. step \in {"failed", "mismatch", "auth"}
          /\ (step = "auth" => token # 0 /\ Verifies(chain[p].key, signature))
      BY <3>2 DEF Verdicts
    <3>4. ASSUME step = "auth"
          PROVE  chain[p].key \in Keys /\ signature.key = chain[p].key /\ SignedHere
      <4>1. signature = [key |-> chain[p].key, token |-> token] /\ token # 0
        BY <3>3, <3>4 DEF Verifies
      <4>2. signature.key = chain[p].key /\ signature.token = token
        BY <4>1
      <4>3. token \in 1 .. token
        BY <2>0, <4>1, SMT
      <4>4. SignedHere
        BY <4>2, <4>3 DEF SignedHere
      <4>5. chain[p].key \in Keys
        BY <2>3 DEF Verify, Passed
      <4> QED BY <4>2, <4>4, <4>5
    <3> QED BY <2>0, <3>1, <3>2, <3>3, <3>4, Going
  <2>4. CASE Approve(p)
    <3>1. Goto(p, "props") /\ Elsewhere /\ approved' = approved \cup {chain[p].key}
          /\ UNCHANGED <<ended, authorized, token, signature, toPeer, peer>>
      BY <2>4 DEF Approve, Elsewhere
    <3>2. chain[p].key \in Keys /\ signature.key = chain[p].key /\ SignedHere
      BY <2>4 DEF Approve, Passed
    <3>3. approved' \in SUBSET Keys /\ approved \subseteq approved' /\ Acceptable'
      BY <2>0, <3>1, <3>2 DEF Acceptable
    <3> QED BY <2>0, <3>1, <3>2, <3>3, Going
  <2>5. CASE Reject(p)
    <3>1. Goto(p, "rejected") /\ Elsewhere
          /\ UNCHANGED <<ended, authorized, token, signature, approved, toPeer, peer>>
      BY <2>5 DEF Reject, Elsewhere
    <3> QED BY <2>0, <3>1, Going
  <2>6. CASE Accept(p)
    <3>1. Goto(p, "done") /\ Elsewhere /\ authorized' = TRUE /\ Write(Out("CNXN", 0))
          /\ UNCHANGED <<ended, token, signature, approved, peer>>
      BY <2>6 DEF Accept, Elsewhere
    <3>2. Acceptable /\ SignedHere
      BY <2>6 DEF Accept, Passed
    <3>3. toPeer' \in Seq(OutPacket)
      BY <3>1, Tokens, WriteType
    <3> QED BY <2>0, <3>1, <3>2, <3>3, Going
  <2>7. CASE Refuse(p)
    <3>1. Goto(p, "done") /\ Elsewhere /\ ended' = TRUE
          /\ UNCHANGED <<authorized, token, signature, approved, toPeer, peer>>
      BY <2>7 DEF Refuse, Elsewhere
    <3> QED BY <2>0, <3>1, Going
  <2>8. CASE Fail(p)
    <3>1. Goto(p, "done") /\ Elsewhere /\ ended' = Reports
          /\ UNCHANGED <<authorized, token, signature, approved, toPeer, peer>>
      BY <2>8 DEF Fail, Elsewhere
    <3>2. ended' \in BOOLEAN
      BY <3>1, ZenonT(30) DEF Reports
    <3> QED BY <2>0, <3>1, <3>2, Going
  <2> QED BY <2>1, <2>2, <2>3, <2>4, <2>5, <2>6, <2>7, <2>8 DEF ChainStep
<1>10. CASE SocketEnds
  BY <1>10 DEF SocketEnds, Elsewhere, TypeOK, Passed, AuthorizedKey, SignedHere, Acceptable
<1>11. ASSUME NEW q \in InPacket, Send(q), MaySend, peer' \in Peer,
              toPeer' \in Seq(OutPacket), strays' \in 0 .. MaxStray, UNCHANGED <<conf, chain, seen>>
       PROVE  IInv'
  <2>1. toBridge \in Seq(InPacket) /\ Len(toBridge) \in Nat
    BY LenProperties DEF TypeOK
  <2>2. toBridge' \in Seq(InPacket) /\ Len(toBridge') = Len(toBridge) + 1
    BY <1>11, <2>1, AppendProperties DEF Send
  <2>3. seen \in Nat /\ MaxPackets \in Nat /\ seen + Len(toBridge) < MaxPackets
    BY <1>11, AuthAssumption DEF MaySend, TypeOK, AuthAssumption
  <2>4. seen + Len(toBridge') <= MaxPackets
    BY ONLY <2>1, <2>2, <2>3, SMT
  <2>5. /\ UNCHANGED <<known, ended, authorized, token, signature, approved, chain, seen>>
        /\ peer' \in Peer /\ toPeer' \in Seq(OutPacket) /\ strays' \in 0 .. MaxStray
    BY <1>11 DEF conf
  <2> QED BY <2>2, <2>4, <2>5 DEF TypeOK, Passed, AuthorizedKey, SignedHere, Acceptable
<1>12. CASE PeerConnects
  <2>1. In("CNXN", Bad, 0) \in InPacket
    BY DEF In, InPacket
  <2>2. peer' \in Peer
    BY <1>12 DEF PeerConnects, TypeOK, Peer
  <2> QED BY <1>11, <1>12, <2>1, <2>2 DEF PeerConnects, TypeOK
<1>13. CASE PeerAnswers
  <2>1. toPeer \in Seq(OutPacket) /\ toPeer # <<>> /\ toPeer' = Tail(toPeer)
    BY <1>13 DEF PeerAnswers, TypeOK
  <2>2. toPeer' \in Seq(OutPacket) /\ Head(toPeer).token \in Nat
    <3>1. Tail(toPeer) \in Seq(OutPacket) /\ Head(toPeer) \in OutPacket
      BY <2>1, HeadTailProperties
    <3> QED BY ONLY <2>1, <3>1 DEF OutPacket
  <2>3. peer \in Peer /\ peer.tried \in 0 .. NumKeys /\ NumKeys \in Nat \ {0}
    BY AuthAssumption DEF TypeOK, Peer, AuthAssumption
  <2>4. CASE peer.tried < NumKeys
    <3>1. peer.tried + 1 \in Keys /\ peer.tried + 1 \in 0 .. NumKeys
      BY <2>3, <2>4, SMT DEF Keys
    <3>2. In("SIGNATURE", peer.tried + 1, Head(toPeer).token) \in InPacket
      BY <2>2, <3>1 DEF In, InPacket
    <3>3. peer' = [peer EXCEPT !.tried = peer.tried + 1, !.challenge = Head(toPeer).token]
          /\ Send(In("SIGNATURE", peer.tried + 1, Head(toPeer).token))
      BY <1>13, <2>4 DEF PeerAnswers
    <3>4. peer' \in Peer
      BY ONLY <2>2, <2>3, <3>1, <3>3 DEF Peer
    <3> QED BY <1>11, <1>13, <2>2, <3>2, <3>3, <3>4 DEF PeerAnswers, TypeOK
  <2>5. CASE ~(peer.tried < NumKeys)
    <3>1. 1 \in Keys
      BY <2>3, SMT DEF Keys
    <3>2. In("RSAPUBLICKEY", 1, 0) \in InPacket
      BY <3>1 DEF In, InPacket
    <3>3. peer' = [peer EXCEPT !.challenge = Head(toPeer).token]
          /\ Send(In("RSAPUBLICKEY", 1, 0))
      BY <1>13, <2>5 DEF PeerAnswers
    <3>4. peer' \in Peer
      BY ONLY <2>2, <2>3, <3>3 DEF Peer
    <3> QED BY <1>11, <1>13, <2>2, <3>2, <3>3, <3>4 DEF PeerAnswers, TypeOK
  <2> QED BY <2>4, <2>5
<1>14. CASE PeerOnline
  <2>1. toPeer \in Seq(OutPacket) /\ toPeer # <<>> /\ toPeer' = Tail(toPeer)
    BY <1>14 DEF PeerOnline, TypeOK
  <2>2. toPeer' \in Seq(OutPacket)
    BY <2>1, HeadTailProperties
  <2>3. peer' \in Peer
    BY <1>14 DEF PeerOnline, TypeOK, Peer
  <2>4. UNCHANGED <<conf, chain, seen, toBridge, strays>>
    BY <1>14 DEF PeerOnline
  <2> QED BY <2>2, <2>3, <2>4
          DEF conf, TypeOK, Passed, AuthorizedKey, SignedHere, Acceptable
<1>15. CASE PeerStrays
  <2>1. PICK cmd \in {"CNXN", "SIGNATURE", "RSAPUBLICKEY", "OPEN"}, k \in Keys \cup {Bad} :
            Send(In(cmd, k, peer.challenge))
    BY <1>15 DEF PeerStrays
  <2>2. peer.challenge \in Nat
    BY DEF TypeOK, Peer
  <2>3. In(cmd, k, peer.challenge) \in InPacket
    BY <2>1, <2>2 DEF In, InPacket
  <2>4. strays' \in 0 .. MaxStray
    BY <1>15, AuthAssumption, SMT DEF PeerStrays, TypeOK, AuthAssumption
  <2> QED BY <1>11, <1>15, <2>1, <2>3, <2>4 DEF PeerStrays, TypeOK
<1>16. CASE UNCHANGED vars
  BY <1>16 DEF vars, conf, TypeOK, Passed, AuthorizedKey, SignedHere, Acceptable
<1> QED BY <1>1, <1>2, <1>3, <1>4, <1>5, <1>6, <1>7, <1>8, <1>9, <1>10,
           <1>12, <1>13, <1>14, <1>15, <1>16 DEF Next, HandlePacket

\* IInv is an invariant.
LEMMA Invariance == Spec => []IInv
BY InvInit, InvNext, PTL DEF Spec

------------------------------------------------------------------------------
(***************************************************************************)
(* The variables of the handshake keep their types.                        *)
(***************************************************************************)
THEOREM Typing == Spec => []TypeOK
<1>1. IInv => TypeOK
  BY DEF IInv
<1> QED BY <1>1, Invariance, PTL

(***************************************************************************)
(* Whatever the remote sends and whatever order the chains of its packets  *)
(* go on in, the socket takes it for authorized only when it has signed a  *)
(* token of this socket with a key that is known or was approved.          *)
(***************************************************************************)
THEOREM OnlyAuthorized == Spec => []AuthorizedKey
<1>1. IInv => AuthorizedKey
  BY DEF IInv
<1> QED BY <1>1, Invariance, PTL

\* No challenge yet, and no token.
LEMMA LastInit == Init => TokenIsLastChallenge
BY EmptySeq, SMT DEF Init, TokenIsLastChallenge, LastOf

\* Every step keeps the token the last challenge.
LEMMA LastNext == TypeOK /\ TokenIsLastChallenge /\ [Next]_vars => TokenIsLastChallenge'
<1> SUFFICES ASSUME TypeOK, TokenIsLastChallenge, [Next]_vars, ~ended'
             PROVE  LastOf(toPeer', peer'.challenge, token')
  BY DEF TokenIsLastChallenge
<1>1. /\ toPeer \in Seq(OutPacket) /\ token \in Nat /\ token + 1 \in Nat
      /\ peer \in Peer
  BY SMT DEF TypeOK
<1>2. ASSUME ~ended PROVE LastOf(toPeer, peer.challenge, token)
  BY <1>2 DEF TokenIsLastChallenge
<1>3. ASSUME ~ended, peer' = peer, NEW t \in Nat, Write(Out("TOKEN", t)), token' = t
      PROVE  LastOf(toPeer', peer'.challenge, token')
  <2>1. Out("TOKEN", t) \in OutPacket /\ IsChallenge(Out("TOKEN", t)) /\ Out("TOKEN", t).token = t
    BY DEF Out, OutPacket, IsChallenge
  <2>2. LastOf(Append(toPeer, Out("TOKEN", t)), peer.challenge, t)
    BY <1>1, <2>1, LastAppended
  <2> QED BY <1>3, <2>2 DEF Write
<1>4. ASSUME UNCHANGED <<toPeer, peer, token>>, ~ended
      PROVE  LastOf(toPeer', peer'.challenge, token')
  BY <1>2, <1>4
<1>5. ASSUME toPeer # <<>>, toPeer' = Tail(toPeer), token' = token, ~ended,
             peer'.challenge =
                IF IsChallenge(Head(toPeer)) THEN Head(toPeer).token ELSE peer.challenge
      PROVE  LastOf(toPeer', peer'.challenge, token')
  BY <1>1, <1>2, <1>5, LastRead
<1>6. CASE Discard
  BY <1>4, <1>6 DEF Discard, conf
<1>7. CASE HandleConnection
  BY <1>4, <1>7 DEF HandleConnection, Begin, Arrives
<1>8. CASE SignatureTooEarly
  BY <1>4, <1>8 DEF SignatureTooEarly, Begin, Arrives
<1>9. CASE SignatureKnown
  BY <1>4, <1>9 DEF SignatureKnown, Begin, Arrives
<1>10. CASE SignatureThrows
  BY <1>4, <1>10 DEF SignatureThrows, Begin, Arrives
<1>11. CASE ChallengeAgain
  BY <1>1, <1>3, <1>11 DEF ChallengeAgain, Begin, Arrives
<1>12. CASE HandlePublicKey
  BY <1>4, <1>12 DEF HandlePublicKey, Begin, Arrives
<1>13. CASE HandleOpen
  BY <1>4, <1>13 DEF HandleOpen, Begin, Arrives
<1>14. ASSUME NEW p \in Packets, ChainStep(p)
       PROVE  LastOf(toPeer', peer'.challenge, token')
  <2> USE <1>14
  <2>0. Elsewhere => peer' = peer
    BY DEF Elsewhere
  <2>1. CASE TokenCreated(p)
    BY <1>1, <1>3, <2>0, <2>1 DEF TokenCreated, Remember
  <2>2. CASE ChainFails(p)
    BY <1>4, <2>0, <2>2 DEF ChainFails
  <2>3. CASE Verify(p)
    BY <1>4, <2>0, <2>3 DEF Verify
  <2>4. CASE Approve(p)
    BY <1>4, <2>0, <2>4 DEF Approve
  <2>5. CASE Reject(p)
    BY <1>4, <2>0, <2>5 DEF Reject
  <2>6. CASE Accept(p)
    <3>1. Out("CNXN", 0) \in OutPacket /\ ~IsChallenge(Out("CNXN", 0))
      BY DEF Out, OutPacket, IsChallenge
    <3>2. ~ended /\ token' = token /\ peer' = peer
          /\ toPeer' = Append(toPeer, Out("CNXN", 0))
      BY <2>0, <2>6 DEF Accept, Write
    <3> QED BY <1>1, <1>2, <3>1, <3>2, LastAppended
  <2>7. CASE Refuse(p)
    BY <2>7 DEF Refuse
  <2>8. CASE Fail(p)
    BY <1>4, <2>0, <2>8 DEF Fail, Reports
  <2> QED BY <2>1, <2>2, <2>3, <2>4, <2>5, <2>6, <2>7, <2>8 DEF ChainStep
<1>15. CASE SocketEnds
  BY <1>15 DEF SocketEnds
<1>16. CASE PeerConnects
  <2>1. peer'.challenge = peer.challenge
    BY <1>1, <1>16 DEF PeerConnects, Peer
  <2> QED BY <1>2, <1>16, <2>1 DEF PeerConnects, conf
<1>17. CASE PeerAnswers
  <2>1. /\ toPeer # <<>> /\ toPeer' = Tail(toPeer) /\ IsChallenge(Head(toPeer))
        /\ token' = token /\ ended' = ended
    BY <1>17 DEF PeerAnswers, IsChallenge, conf
  <2>2. peer'.challenge = Head(toPeer).token
    BY <1>1, <1>17 DEF PeerAnswers, Peer
  <2> QED BY <1>5, <2>1, <2>2
<1>18. CASE PeerOnline
  <2>1. /\ toPeer # <<>> /\ toPeer' = Tail(toPeer) /\ ~IsChallenge(Head(toPeer))
        /\ token' = token /\ ended' = ended
    BY <1>18 DEF PeerOnline, IsChallenge, conf
  <2>2. peer'.challenge = peer.challenge
    BY <1>1, <1>18 DEF PeerOnline, Peer
  <2> QED BY <1>5, <2>1, <2>2
<1>19. CASE PeerStrays
  BY <1>4, <1>19 DEF PeerStrays, conf
<1>20. CASE UNCHANGED vars
  BY <1>4, <1>20 DEF vars, conf
<1> QED BY <1>6, <1>7, <1>8, <1>9, <1>10, <1>11, <1>12, <1>13, <1>14, <1>15,
           <1>16, <1>17, <1>18, <1>19, <1>20 DEF Next, HandlePacket

(***************************************************************************)
(* However many tokens are being created, the one that signatures are      *)
(* verified against is the last one sent: storing a token and sending it   *)
(* are one callback.                                                       *)
(***************************************************************************)
THEOREM LastChallenge == Spec => []TokenIsLastChallenge
BY Typing, LastInit, LastNext, PTL DEF Spec

------------------------------------------------------------------------------
(***************************************************************************)
(* The dialogue with a remote that keeps to the handshake.  One thing is   *)
(* in progress at a time: a packet to the remote, a packet from it, or a   *)
(* chain.  What it may be follows from how far the handshake has come: no  *)
(* token and no signature before the first challenge (Unchallenged), the   *)
(* first key's signature of the only token ever after (FirstStored).       *)
(***************************************************************************)
Unchallenged == token = 0 /\ signature = NoSignature /\ peer.tried = 0
FirstStored == token # 0 /\ signature = [key |-> 1, token |-> token]
Challenge ==
    /\ token # 0
    /\ peer.tried = 0 => signature = NoSignature
    /\ peer.tried # 0 => FirstStored

Asks(p) == p.cmd = "CNXN" \/ (p = Out("TOKEN", token) /\ Challenge)
Tells(q) ==
    \/ q = In("CNXN", Bad, 0) /\ Unchallenged
    \/ /\ q = In("SIGNATURE", peer.tried, token) /\ token # 0 /\ peer.tried # 0
       /\ peer.tried = 1 => signature = NoSignature
       /\ peer.tried # 1 => FirstStored
    \/ q = In("RSAPUBLICKEY", 1, 0) /\ FirstStored
Chains(c) ==
    \/ chain[c].step = "token" /\ Unchallenged
    \/ chain[c].step = "verify" /\ chain[c].key = 1 /\ FirstStored
    \/ chain[c].step \in {"auth", "props", "rejected", "failed"}

Idle == toPeer = <<>> /\ toBridge = <<>> /\ Pending = {}
AtRemote == toBridge = <<>> /\ Pending = {} /\ Len(toPeer) = 1 /\ Asks(toPeer[1])
AtSocket == toPeer = <<>> /\ Pending = {} /\ Len(toBridge) = 1 /\ Tells(toBridge[1])
InChain ==
    /\ toPeer = <<>> /\ toBridge = <<>>
    /\ \E c \in Packets : Pending = {c} /\ Chains(c)

Talk == Idle \/ AtRemote \/ AtSocket \/ InChain
DialogueInv ==
    strays = 0 => /\ Talk
                  /\ peer.st = "idle" => Idle /\ Unchallenged
Answered == strays = 0 /\ Waits => ~Idle

\* A sequence of one packet.
LEMMA OneElement ==
    ASSUME NEW S, NEW s \in Seq(S)
    PROVE  /\ Len(s) = 1 => s # <<>> /\ Tail(s) = <<>> /\ Head(s) = s[1] /\ s[1] \in S
           /\ \A x \in S : Len(Append(<<>>, x)) = 1 /\ Append(<<>>, x)[1] = x
<1>1. ASSUME Len(s) = 1 PROVE s # <<>> /\ Tail(s) = <<>> /\ Head(s) = s[1] /\ s[1] \in S
  <2>1. s # <<>> /\ s[1] \in S
    BY <1>1, EmptySeq, ElementOfSeq
  <2>2. Tail(s) \in Seq(S) /\ Len(Tail(s)) = 0 /\ Head(s) = s[1]
    BY <1>1, <2>1, HeadTailProperties
  <2>3. Tail(s) = <<>>
    BY <2>2, EmptySeq
  <2> QED BY <2>1, <2>2, <2>3
<1>2. \A x \in S : Len(Append(<<>>, x)) = 1 /\ Append(<<>>, x)[1] = x
  OBVIOUS
<1> QED BY <1>1, <1>2

\* The packet that arrives is all there is; its chain is all there will be.
LEMMA BeginsAlone ==
    ASSUME TypeOK, Talk, toBridge # <<>>,
           NEW step \in Steps, NEW key \in Keys \cup {Bad}, Begin(step, key)
    PROVE  /\ toPeer = <<>> /\ Tells(Packet) /\ toBridge' = <<>> /\ peer' = peer
           /\ token' = token
           /\ step \in {"none", "done"} => Pending' = {}
           /\ step \notin {"none", "done"} =>
                 \E c \in Packets : Pending' = {c} /\ chain'[c] = [step |-> step, key |-> key]
<1>1. AtSocket
  BY DEF Talk, Idle, AtRemote, InChain
<1>2. toPeer = <<>> /\ Pending = {} /\ Len(toBridge) = 1 /\ Tells(toBridge[1])
  BY <1>1 DEF AtSocket
<1>3. Tail(toBridge) = <<>> /\ Packet = toBridge[1]
  BY <1>2, OneElement DEF TypeOK, Packet
<1>4. toBridge' = Tail(toBridge) /\ peer' = peer /\ token' = token
  BY DEF Begin
<1>5. /\ seen + 1 \in Packets /\ chain'[seen + 1] = [step |-> step, key |-> key]
      /\ \A p \in Packets : p # seen + 1 => chain'[p] = chain[p]
  BY BeginType
<1>6. step \in {"none", "done"} => Pending' = {}
  BY <1>2, <1>5 DEF Pending
<1>7. step \notin {"none", "done"} => Pending' = {seen + 1}
  BY <1>2, <1>5 DEF Pending
<1> QED BY <1>2, <1>3, <1>4, <1>5, <1>6, <1>7

\* The chain that goes on is all there is.
LEMMA GoesAlone ==
    ASSUME TypeOK, Talk, NEW p \in Packets, chain[p].step \notin {"none", "done"}
    PROVE  /\ toPeer = <<>> /\ toBridge = <<>> /\ Pending = {p} /\ Chains(p)
           /\ \A step \in Steps : Goto(p, step) =>
                 /\ chain'[p].step = step /\ chain'[p].key = chain[p].key
                 /\ Pending' = IF step \in {"none", "done"} THEN {} ELSE {p}
<1>1. p \in Pending
  BY DEF Pending
<1>2. InChain
  BY <1>1 DEF Talk, Idle, AtRemote, AtSocket
<1>3. toPeer = <<>> /\ toBridge = <<>> /\ Pending = {p} /\ Chains(p)
  BY <1>1, <1>2 DEF InChain
<1>4. ASSUME NEW step \in Steps, Goto(p, step)
      PROVE  /\ chain'[p].step = step /\ chain'[p].key = chain[p].key
             /\ Pending' = IF step \in {"none", "done"} THEN {} ELSE {p}
  <2>1. /\ chain'[p].step = step /\ chain'[p].key = chain[p].key
        /\ \A q \in Packets : q # p => chain'[q] = chain[q]
    BY <1>4, GotoType
  <2>2. \A q \in Packets : q # p => chain[q].step \in {"none", "done"}
    BY <1>3 DEF Pending
  <2>3. step \in {"none", "done"} => Pending' = {}
    BY <2>1, <2>2 DEF Pending
  <2>4. step \notin {"none", "done"} => Pending' = {p}
    BY <2>1, <2>2 DEF Pending
  <2> QED BY <2>1, <2>3, <2>4
<1> QED BY <1>3, <1>4

\* What the socket writes is then the only thing in progress.
LEMMA WritesAlone ==
    ASSUME TypeOK, NEW p \in OutPacket, Write(p), toPeer = <<>>,
           toBridge' = <<>>, Pending' = {}, Asks(p)'
    PROVE  Talk'
<1>1. CASE ended
  BY <1>1 DEF Write, Talk, Idle
<1>2. CASE ~ended
  <2>1. toPeer' = Append(<<>>, p)
    BY <1>2 DEF Write
  <2>2. Len(toPeer') = 1 /\ toPeer'[1] = p
    BY ONLY <2>1, OneElement, p \in OutPacket, EmptySeq
  <2> QED BY <2>2 DEF Talk, AtRemote, Asks
<1> QED BY <1>1, <1>2

\* Nothing is in progress at first.
LEMMA DialogueInit == Init => DialogueInv
BY DEF Init, DialogueInv, Talk, Idle, Pending, Unchallenged

\* A packet from the remote is handled.
LEMMA TalkPackets ==
    ASSUME TypeOK, Talk, HandlePacket PROVE Talk'
<1>0. /\ toBridge # <<>> /\ toBridge \in Seq(InPacket) /\ toPeer \in Seq(OutPacket)
      /\ {"token", "props", "failed", "done", "verify", "mismatch"} \subseteq Steps
      /\ Bad \in Keys \cup {Bad} /\ 1 \in Keys /\ 1 # Bad /\ token \in Nat /\ peer.tried \in Nat
  BY AuthAssumption
     DEF HandlePacket, Discard, HandleConnection, SignatureTooEarly, SignatureKnown, SignatureThrows,
         ChallengeAgain, HandlePublicKey, HandleOpen, Arrives, TypeOK, Steps, Keys, Bad,
         AuthAssumption, Peer
<1>1. ASSUME NEW step \in {"props", "failed"}, Begin(step, Bad), toPeer' = toPeer
      PROVE  Talk'
  <2>1. /\ toPeer = <<>> /\ toBridge' = <<>>
        /\ \E c \in Packets : Pending' = {c} /\ chain'[c] = [step |-> step, key |-> Bad]
    BY <1>0, <1>1, BeginsAlone
  <2> QED BY <1>1, <2>1 DEF Talk, InChain, Chains
<1>2. CASE Discard
  <2>1. AtSocket /\ toBridge' = Tail(toBridge) /\ UNCHANGED <<toPeer, chain>>
    BY <1>0, <1>2 DEF Discard, Talk, Idle, AtRemote, InChain
  <2>2. Tail(toBridge) = <<>>
    BY <1>0, <2>1, OneElement DEF AtSocket
  <2> QED BY <2>1, <2>2 DEF AtSocket, Talk, Idle, Pending
<1>3. CASE HandleConnection
  <2>1. Begin("token", Bad) /\ UNCHANGED <<signature, toPeer>> /\ Packet.cmd = "CNXN"
    BY <1>3 DEF HandleConnection, Arrives
  <2>2. /\ toPeer = <<>> /\ toBridge' = <<>> /\ Tells(Packet) /\ peer' = peer /\ token' = token
        /\ \E c \in Packets : Pending' = {c} /\ chain'[c] = [step |-> "token", key |-> Bad]
    BY <1>0, <2>1, BeginsAlone
  <2>3. Unchallenged
    BY <2>1, <2>2 DEF Tells, In
  <2>4. Unchallenged'
    BY <2>1, <2>2, <2>3 DEF Unchallenged
  <2> QED BY <2>1, <2>2, <2>4 DEF Talk, InChain, Chains
<1>4. CASE SignatureTooEarly
  BY <1>1, <1>4 DEF SignatureTooEarly
<1>5. CASE SignatureKnown
  BY <1>1, <1>5 DEF SignatureKnown
<1>6. CASE SignatureThrows
  BY <1>1, <1>6 DEF SignatureThrows
<1>7. CASE ChallengeAgain
  <2>1. /\ Begin("done", Bad) /\ Write(Out("TOKEN", token)) /\ Packet.cmd = "SIGNATURE"
        /\ signature' = Stored
    BY <1>7 DEF ChallengeAgain, Arrives
  <2>2. /\ toPeer = <<>> /\ toBridge' = <<>> /\ Tells(Packet) /\ peer' = peer /\ token' = token
        /\ Pending' = {}
    BY <1>0, <2>1, BeginsAlone
  <2>3. /\ Packet = In("SIGNATURE", peer.tried, token) /\ token # 0 /\ peer.tried # 0
        /\ peer.tried = 1 => signature = NoSignature
        /\ peer.tried # 1 => FirstStored
    BY <2>1, <2>2 DEF Tells, In
  <2>4. Stored = [key |-> 1, token |-> token]
    <3>1. CASE peer.tried = 1
      BY <2>3, <3>1 DEF Stored, In
    <3>2. CASE peer.tried # 1
      <4>1. signature = [key |-> 1, token |-> token] /\ NoSignature.key = Bad
        BY <2>3, <3>2 DEF FirstStored, NoSignature
      <4>2. signature # NoSignature
        BY <1>0, <4>1
      <4> QED BY <4>1, <4>2 DEF Stored
    <3> QED BY <3>1, <3>2
  <2>5. Out("TOKEN", token) \in OutPacket
    BY Tokens
  <2>6. Asks(Out("TOKEN", token))'
    BY <2>1, <2>2, <2>3, <2>4 DEF Asks, Challenge, FirstStored
  <2> QED BY <2>1, <2>2, <2>5, <2>6, WritesAlone
<1>8. CASE HandlePublicKey
  <2>1. /\ UNCHANGED <<signature, toPeer>> /\ Packet.cmd = "RSAPUBLICKEY"
        /\ \E step \in {"mismatch", "failed", "verify"}, key \in {Bad, Packet.key} : Begin(step, key)
    BY <1>8 DEF HandlePublicKey, Arrives
  <2>2. Packet.key \in Keys \cup {Bad}
    BY <1>0, ArrivalType DEF InPacket
  <2>3. Tells(Packet)
    BY <1>0, <2>1, <2>2, BeginsAlone
  <2>4. Packet = In("RSAPUBLICKEY", 1, 0) /\ FirstStored
    BY <2>1, <2>3 DEF Tells, In
  <2>5. Packet.key = 1 /\ signature # NoSignature
    <3>1. signature.key = 1 /\ NoSignature.key = Bad
      BY <2>4 DEF FirstStored, NoSignature
    <3> QED BY <1>0, <2>4, <3>1 DEF In
  <2>6. Begin("verify", 1)
    BY <1>0, <1>8, <2>5 DEF HandlePublicKey
  <2>7. /\ toPeer = <<>> /\ toBridge' = <<>> /\ token' = token
        /\ \E c \in Packets : Pending' = {c} /\ chain'[c] = [step |-> "verify", key |-> 1]
    BY <1>0, <2>6, BeginsAlone
  <2>8. FirstStored'
    BY <2>1, <2>4, <2>7 DEF FirstStored
  <2> QED BY <2>1, <2>7, <2>8 DEF Talk, InChain, Chains
<1>9. CASE HandleOpen
  <2>1. Packet.cmd = "OPEN" /\ \E step \in {"done", "mismatch"} : Begin(step, Bad)
    BY <1>9 DEF HandleOpen, Arrives
  <2>2. Tells(Packet)
    BY <1>0, <2>1, BeginsAlone
  <2> QED BY <2>1, <2>2 DEF Tells, In
<1> QED BY <1>2, <1>3, <1>4, <1>5, <1>6, <1>7, <1>8, <1>9 DEF HandlePacket

\* A chain goes on.
LEMMA TalkChains ==
    ASSUME TypeOK, Talk, NEW p \in Packets, ChainStep(p) PROVE Talk'
<1>0. /\ chain[p].step \notin {"none", "done"}
      /\ {"token", "props", "failed", "done", "auth", "mismatch", "rejected"} \subseteq Steps
      /\ token \in Nat /\ Elsewhere
  BY DEF ChainStep, TokenCreated, ChainFails, Verify, Approve, Reject, Accept, Refuse, Fail,
         TypeOK, Steps
<1>1. /\ toPeer = <<>> /\ toBridge = <<>> /\ Pending = {p} /\ Chains(p)
      /\ \A step \in Steps : Goto(p, step) =>
            /\ chain'[p].step = step /\ chain'[p].key = chain[p].key
            /\ Pending' = IF step \in {"none", "done"} THEN {} ELSE {p}
      /\ toBridge' = toBridge /\ peer' = peer
  BY <1>0, GoesAlone DEF Elsewhere
<1>2. ASSUME NEW step \in {"auth", "props", "rejected", "failed"}, Goto(p, step), toPeer' = toPeer
      PROVE  Talk'
  <2>1. chain'[p].step = step /\ Pending' = {p}
    BY <1>0, <1>1, <1>2
  <2> QED BY <1>1, <1>2, <2>1 DEF Talk, InChain, Chains
<1>3. ASSUME Goto(p, "done"), toPeer' = toPeer
      PROVE  Talk'
  BY <1>0, <1>1, <1>3 DEF Talk, Idle
<1>4. CASE TokenCreated(p)
  <2>1. Goto(p, "done") /\ Write(Out("TOKEN", token + 1)) /\ token' = token + 1
        /\ signature' = signature /\ chain[p].step = "token"
    BY <1>4 DEF TokenCreated, Remember
  <2>2. Unchallenged
    BY <1>1, <2>1 DEF Chains
  <2>3. Challenge'
    BY <1>0, <1>1, <2>1, <2>2 DEF Challenge, Unchallenged
  <2>4. PICK q : q = Out("TOKEN", token + 1)
    OBVIOUS
  <2>5. Asks(q)'
    BY <2>1, <2>3, <2>4 DEF Asks
  <2>6. q \in OutPacket /\ Write(q) /\ Pending' = {} /\ toBridge' = <<>>
    BY <1>0, <1>1, <2>1, <2>4, Tokens
  <2> HIDE <2>4
  <2> QED BY <1>1, <2>5, <2>6, WritesAlone
<1>5. CASE ChainFails(p)
  BY <1>2, <1>5 DEF ChainFails
<1>6. CASE Verify(p)
  <2>1. /\ chain[p].step = "verify" /\ toPeer' = toPeer
        /\ \E step \in Verdicts(chain[p].key) : Goto(p, step)
    BY <1>6 DEF Verify
  <2>2. chain[p].key = 1 /\ FirstStored
    BY <1>1, <2>1 DEF Chains
  <2>3. Verdicts(chain[p].key) = {"auth"}
    BY <2>2 DEF Verdicts, Verifies, FirstStored
  <2> QED BY <1>2, <2>1, <2>3
<1>7. CASE Approve(p)
  BY <1>2, <1>7 DEF Approve
<1>8. CASE Reject(p)
  BY <1>2, <1>8 DEF Reject
<1>9. CASE Accept(p)
  <2>1. Goto(p, "done") /\ Write(Out("CNXN", 0))
    BY <1>9 DEF Accept
  <2>2. Asks(Out("CNXN", 0))'
    BY DEF Asks, Out
  <2>3. Out("CNXN", 0) \in OutPacket /\ Pending' = {} /\ toBridge' = <<>>
    BY <1>0, <1>1, <2>1, Tokens
  <2> QED BY <1>1, <2>1, <2>2, <2>3, WritesAlone
<1>10. CASE Refuse(p)
  BY <1>3, <1>10 DEF Refuse
<1>11. CASE Fail(p)
  BY <1>3, <1>11 DEF Fail
<1> QED BY <1>4, <1>5, <1>6, <1>7, <1>8, <1>9, <1>10, <1>11 DEF ChainStep

\* The remote answers.
LEMMA TalkAnswers ==
    ASSUME TypeOK, Talk, PeerAnswers PROVE Talk'
<1>0. /\ toPeer # <<>> /\ Head(toPeer).cmd = "TOKEN" /\ toPeer' = Tail(toPeer)
      /\ UNCHANGED <<conf, chain>>
      /\ toPeer \in Seq(OutPacket) /\ peer \in Peer /\ NumKeys \in Nat \ {0} /\ token \in Nat
  BY AuthAssumption DEF PeerAnswers, TypeOK, AuthAssumption
<1>1. AtRemote
  BY <1>0 DEF Talk, Idle, AtSocket, InChain
<1>2. /\ toPeer' = <<>> /\ Head(toPeer) = toPeer[1] /\ Asks(toPeer[1])
      /\ toBridge = <<>> /\ Pending = {}
  BY <1>0, <1>1, OneElement DEF AtRemote
<1>3. Head(toPeer) = Out("TOKEN", token) /\ Challenge
  BY <1>0, <1>2 DEF Asks
<1>4. Head(toPeer).token = token /\ peer.tried \in Nat /\ peer.tried <= NumKeys
  BY <1>0, <1>3 DEF Out, Peer
<1>5. Pending' = {} /\ token' = token /\ signature' = signature
  BY <1>0, <1>2 DEF Pending, conf
<1>6. ASSUME NEW q \in InPacket, Send(q), Tells(q)'
      PROVE  Talk'
  <2>1. toBridge' = Append(<<>>, q)
    BY <1>2, <1>6 DEF Send
  <2>2. Len(toBridge') = 1 /\ toBridge'[1] = q
    BY ONLY <2>1, OneElement, q \in InPacket, EmptySeq
  <2> QED BY <1>2, <1>5, <1>6, <2>2 DEF Talk, AtSocket, Tells
<1>7. CASE peer.tried < NumKeys
  <2>1. peer' = [peer EXCEPT !.tried = @ + 1, !.challenge = token]
        /\ Send(In("SIGNATURE", peer.tried + 1, token))
    BY <1>4, <1>7 DEF PeerAnswers
  <2>2. peer'.tried = peer.tried + 1
    BY <1>0, <2>1 DEF Peer
  <2>3. In("SIGNATURE", peer.tried + 1, token) \in InPacket
    <3>1. peer.tried + 1 \in Keys
      BY <1>0, <1>4, <1>7 DEF Keys
    <3> QED BY <1>0, <3>1 DEF In, InPacket
  <2>4. /\ peer'.tried # 0
        /\ peer'.tried = 1 => signature' = NoSignature
        /\ peer'.tried # 1 => FirstStored'
    BY <1>3, <1>4, <1>5, <2>2 DEF Challenge, FirstStored
  <2>5. PICK q : q = In("SIGNATURE", peer.tried + 1, token)
    OBVIOUS
  <2>6. Tells(q)'
    BY <1>3, <1>5, <2>2, <2>4, <2>5 DEF Tells, Challenge
  <2>7. q \in InPacket /\ Send(q)
    BY <2>1, <2>3, <2>5
  <2> HIDE <2>5
  <2> QED BY <1>6, <2>6, <2>7
<1>8. CASE ~(peer.tried < NumKeys)
  <2>1. Send(In("RSAPUBLICKEY", 1, 0))
    BY <1>8 DEF PeerAnswers
  <2>2. In("RSAPUBLICKEY", 1, 0) \in InPacket
    <3>1. 1 \in Keys
      BY <1>0 DEF Keys
    <3> QED BY <3>1 DEF In, InPacket
  <2>3. FirstStored
    BY <1>0, <1>3, <1>4, <1>8 DEF Challenge
  <2>4. Tells(In("RSAPUBLICKEY", 1, 0))'
    BY <1>5, <2>3 DEF Tells, FirstStored
  <2> QED BY <1>6, <2>1, <2>2, <2>4
<1> QED BY <1>7, <1>8

\* Every step keeps one thing in progress, as long as no stray packet is sent.
LEMMA DialogueNext == TypeOK /\ TypeOK' /\ DialogueInv /\ [Next]_vars => DialogueInv'
<1> SUFFICES ASSUME TypeOK, TypeOK', DialogueInv, [Next]_vars, strays' = 0
             PROVE  Talk' /\ (peer'.st = "idle" => (Idle /\ Unchallenged)')
  BY DEF DialogueInv
<1>0. /\ toPeer \in Seq(OutPacket) /\ toBridge \in Seq(InPacket) /\ peer \in Peer
      /\ strays \in Nat
  BY AuthAssumption DEF TypeOK, AuthAssumption
<1>1. strays = 0
  <2>1. strays' = strays \/ strays' = strays + 1
    BY DEF Next, HandlePacket, Discard, HandleConnection, SignatureTooEarly, SignatureKnown,
           SignatureThrows, ChallengeAgain, HandlePublicKey, HandleOpen, Begin, ChainStep,
           TokenCreated, ChainFails, Verify, Approve, Reject, Accept, Refuse, Fail, Elsewhere,
           SocketEnds, PeerConnects, PeerAnswers, PeerOnline, PeerStrays, vars
  <2> QED BY ONLY <1>0, <2>1, strays' = 0
<1>2. Talk /\ (peer.st = "idle" => Idle /\ Unchallenged)
  BY <1>1 DEF DialogueInv
\* As long as the remote is idle nothing happens.
<1>3. ASSUME Talk', peer.st # "idle", peer'.st # "idle"
      PROVE  Talk' /\ (peer'.st = "idle" => (Idle /\ Unchallenged)')
  BY <1>3
<1>4. CASE HandlePacket
  <2>1. toBridge # <<>> /\ peer' = peer
    BY <1>4 DEF HandlePacket, Discard, HandleConnection, SignatureTooEarly, SignatureKnown,
           SignatureThrows, ChallengeAgain, HandlePublicKey, HandleOpen, Begin, Arrives
  <2>2. peer.st # "idle"
    BY <1>2, <2>1 DEF Idle
  <2> QED BY <1>2, <1>3, <1>4, <2>1, <2>2, TalkPackets
<1>5. ASSUME NEW p \in Packets, ChainStep(p)
      PROVE  Talk' /\ (peer'.st = "idle" => (Idle /\ Unchallenged)')
  <2>1. chain[p].step \notin {"none", "done"} /\ peer' = peer
    BY <1>5 DEF ChainStep, TokenCreated, ChainFails, Verify, Approve, Reject, Accept, Refuse, Fail,
           Elsewhere
  <2>2. peer.st # "idle"
    BY <1>2, <2>1 DEF Idle, Pending
  <2> QED BY <1>2, <1>3, <1>5, <2>1, <2>2, TalkChains
<1>6. CASE UNCHANGED <<token, signature, chain, toPeer, toBridge, peer>>
  <2>1. Pending' = Pending
    BY <1>6 DEF Pending
  <2>2. Idle' = Idle /\ AtRemote' = AtRemote /\ AtSocket' = AtSocket /\ InChain' = InChain
        /\ Unchallenged' = Unchallenged
    BY <1>6, <2>1 DEF Idle, AtRemote, AtSocket, InChain, Asks, Tells, Chains, Unchallenged,
           FirstStored, Challenge
  <2> QED BY <1>2, <1>6, <2>2 DEF Talk
<1>7. CASE SocketEnds
  BY <1>6, <1>7 DEF SocketEnds, Elsewhere
<1>8. CASE PeerConnects
  <2>1. /\ peer.st = "idle" /\ peer' = [peer EXCEPT !.st = "waiting"]
        /\ toBridge' = Append(toBridge, In("CNXN", Bad, 0)) /\ UNCHANGED <<conf, chain, toPeer>>
    BY <1>8 DEF PeerConnects, Send
  <2>2. Idle /\ Unchallenged /\ peer'.st = "waiting" /\ peer'.tried = peer.tried
    BY <1>0, <1>2, <2>1 DEF Peer
  <2>3. In("CNXN", Bad, 0) \in InPacket
    BY DEF In, InPacket
  <2>4. Len(toBridge') = 1 /\ toBridge'[1] = In("CNXN", Bad, 0)
    BY <1>0, <2>1, <2>2, <2>3, OneElement DEF Idle
  <2>5. Tells(In("CNXN", Bad, 0))'
    BY <2>1, <2>2 DEF Tells, Unchallenged, conf
  <2>6. toPeer' = <<>> /\ Pending' = {}
    BY <2>1, <2>2 DEF Idle, Pending
  <2> QED BY <2>2, <2>4, <2>5, <2>6 DEF Talk, AtSocket
<1>9. CASE PeerAnswers
  <2>1. toPeer # <<>> /\ peer'.st = peer.st
    BY <1>0, <1>9 DEF PeerAnswers, Peer
  <2>2. peer.st # "idle"
    BY <1>2, <2>1 DEF Idle
  <2> QED BY <1>2, <1>3, <1>9, <2>1, <2>2, TalkAnswers
<1>10. CASE PeerOnline
  <2>1. /\ toPeer # <<>> /\ toPeer' = Tail(toPeer) /\ UNCHANGED <<conf, chain, toBridge>>
        /\ peer' = [peer EXCEPT !.st = "online"]
    BY <1>10 DEF PeerOnline
  <2>2. AtRemote
    BY <1>2, <2>1 DEF Talk, Idle, AtSocket, InChain
  <2>3. toPeer' = <<>> /\ toBridge' = <<>> /\ Pending' = {}
    BY <1>0, <2>1, <2>2, OneElement DEF AtRemote, Pending
  <2>4. peer'.st = "online"
    BY <1>0, <2>1 DEF Peer
  <2> QED BY <2>3, <2>4 DEF Talk, Idle
<1>11. CASE PeerStrays
  BY <1>0, <1>1, <1>11 DEF PeerStrays
<1>12. CASE UNCHANGED vars
  BY <1>6, <1>12 DEF vars, conf
<1> QED BY <1>4, <1>5, <1>7, <1>8, <1>9, <1>10, <1>11, <1>12 DEF Next

\* DialogueInv is an invariant.
LEMMA DialogueInvariance == Spec => []DialogueInv
BY Typing, DialogueInit, DialogueNext, PTL DEF Spec

\* What the socket writes before it is ended is in progress.
LEMMA WrittenInProgress ==
    ASSUME TypeOK, NEW p \in OutPacket, Write(p), ~ended
    PROVE  ~Idle'
<1>1. toPeer' = Append(toPeer, p) /\ toPeer \in Seq(OutPacket)
  BY DEF Write, TypeOK
<1>2. toPeer' # <<>>
  BY ONLY <1>1, p \in OutPacket
<1> QED BY <1>2 DEF Idle

\* A packet of a remote that waits leads to a chain or to a packet.
LEMMA AnswersPackets ==
    ASSUME TypeOK, Talk, HandlePacket, ~ended PROVE ~Idle'
<1>0. /\ toBridge # <<>> /\ Bad \in Keys \cup {Bad}
      /\ {"token", "props", "failed", "done", "verify", "mismatch"} \subseteq Steps
  BY DEF HandlePacket, Discard, HandleConnection, SignatureTooEarly, SignatureKnown,
         SignatureThrows, ChallengeAgain, HandlePublicKey, HandleOpen, Arrives, Steps
<1>1. ASSUME NEW step \in Steps \ {"none", "done"}, NEW key \in Keys \cup {Bad}, Begin(step, key)
      PROVE  ~Idle'
  <2>1. \E c \in Packets : Pending' = {c}
    BY <1>0, <1>1, BeginsAlone
  <2> QED BY <2>1 DEF Idle
<1>2. CASE ChallengeAgain
  BY <1>2, Tokens, WrittenInProgress DEF ChallengeAgain
<1>3. CASE HandlePublicKey
  <2>1. Packet.key \in Keys \cup {Bad}
    BY <1>0, ArrivalType DEF InPacket
  <2> QED BY <1>0, <1>1, <1>3, <2>1 DEF HandlePublicKey
<1>4. CASE HandleOpen
  <2>1. Packet.cmd = "OPEN" /\ \E step \in {"done", "mismatch"} : Begin(step, Bad)
    BY <1>4 DEF HandleOpen, Arrives
  <2>2. Tells(Packet)
    BY <1>0, <2>1, BeginsAlone
  <2> QED BY <2>1, <2>2 DEF Tells, In
<1>5. CASE HandleConnection \/ SignatureTooEarly \/ SignatureKnown \/ SignatureThrows
  BY <1>0, <1>1, <1>5 DEF HandleConnection, SignatureTooEarly, SignatureKnown, SignatureThrows
<1> QED BY <1>2, <1>3, <1>4, <1>5 DEF HandlePacket, Discard

\* A chain goes on, writes a packet, or ends the connection.
LEMMA AnswersChains ==
    ASSUME TypeOK, Talk, NEW p \in Packets, ChainStep(p), ~ended', ErrorHeard PROVE ~Idle'
<1>0. /\ chain[p].step \notin {"none", "done"} /\ ended \in BOOLEAN
      /\ {"props", "failed", "auth", "mismatch", "rejected"} \subseteq Steps
  BY DEF ChainStep, TokenCreated, ChainFails, Verify, Approve, Reject, Accept, Refuse, Fail,
         TypeOK, Steps
<1>1. ASSUME NEW step \in {"props", "failed", "auth", "mismatch", "rejected"}, Goto(p, step)
      PROVE  ~Idle'
  <2>1. Pending' = {p}
    BY <1>0, <1>1, GoesAlone
  <2> QED BY <2>1 DEF Idle
<1>2. CASE TokenCreated(p)
  <2>1. Write(Out("TOKEN", token + 1)) /\ ~ended
    BY <1>2 DEF TokenCreated
  <2> QED BY <2>1, Tokens, WrittenInProgress
<1>3. CASE Accept(p)
  <2>1. Write(Out("CNXN", 0)) /\ ~ended
    BY <1>3 DEF Accept
  <2> QED BY <2>1, Tokens, WrittenInProgress
<1>4. CASE ChainFails(p) \/ Approve(p) \/ Reject(p)
  BY <1>1, <1>4 DEF ChainFails, Approve, Reject
<1>5. CASE Verify(p)
  <2>1. \E step \in {"failed", "auth", "mismatch"} : Goto(p, step)
    BY <1>5 DEF Verify, Verdicts
  <2> QED BY <1>1, <2>1
<1>6. CASE Refuse(p) \/ Fail(p)
  BY <1>6 DEF Refuse, Fail, Reports
<1> QED BY <1>2, <1>3, <1>4, <1>5, <1>6 DEF ChainStep

\* Nothing leaves the remote without an answer.
LEMMA AnsweredNext ==
    TypeOK /\ TypeOK' /\ DialogueInv /\ Answered /\ [Next]_vars => Answered'
<1> SUFFICES ASSUME TypeOK, TypeOK', DialogueInv, Answered, [Next]_vars, strays' = 0, Waits'
             PROVE  ~Idle'
  BY DEF Answered
<1>0. /\ toPeer \in Seq(OutPacket) /\ toBridge \in Seq(InPacket) /\ peer \in Peer
      /\ strays \in Nat /\ ended \in BOOLEAN /\ ~ended' /\ ErrorHeard /\ peer'.st = "waiting"
  BY AuthAssumption DEF TypeOK, AuthAssumption, Waits
<1>1. strays = 0
  <2>1. strays' = strays \/ strays' = strays + 1
    BY DEF Next, HandlePacket, Discard, HandleConnection, SignatureTooEarly, SignatureKnown,
           SignatureThrows, ChallengeAgain, HandlePublicKey, HandleOpen, Begin, ChainStep,
           TokenCreated, ChainFails, Verify, Approve, Reject, Accept, Refuse, Fail, Elsewhere,
           SocketEnds, PeerConnects, PeerAnswers, PeerOnline, PeerStrays, vars
  <2> QED BY ONLY <1>0, <2>1, strays' = 0
<1>2. Talk
  BY <1>1 DEF DialogueInv
<1>3. CASE HandlePacket
  <2>1. ended' = ended
    BY <1>3 DEF HandlePacket, Discard, HandleConnection, SignatureTooEarly, SignatureKnown,
           SignatureThrows, ChallengeAgain, HandlePublicKey, HandleOpen, Begin, conf
  <2> QED BY <1>0, <1>2, <1>3, <2>1, AnswersPackets
<1>4. ASSUME NEW p \in Packets, ChainStep(p) PROVE ~Idle'
  BY <1>0, <1>2, <1>4, AnswersChains
<1>5. CASE SocketEnds
  BY <1>0, <1>5 DEF SocketEnds
<1>6. CASE PeerConnects \/ PeerAnswers
  <2>1. \E q : toBridge' = Append(toBridge, q)
    BY <1>6 DEF PeerConnects, PeerAnswers, Send
  <2>2. toBridge' # <<>>
    BY ONLY <1>0, <2>1
  <2> QED BY <2>2 DEF Idle
<1>7. CASE PeerOnline
  BY <1>0, <1>7 DEF PeerOnline, Peer
<1>8. CASE PeerStrays
  BY <1>0, <1>1, <1>8 DEF PeerStrays
<1>9. CASE UNCHANGED vars
  <2>1. ~Idle
    BY <1>0, <1>1, <1>9 DEF Answered, Waits, vars, conf
  <2> QED BY <1>9, <2>1 DEF vars, Idle, Pending
<1> QED BY <1>3, <1>4, <1>5, <1>6, <1>7, <1>8, <1>9 DEF Next

\* Answered is an invariant.
LEMMA AnsweredInvariance == Spec => []Answered
<1>1. Init => Answered
  BY DEF Init, Answered, Waits
<1> QED BY <1>1, Typing, DialogueInvariance, AnsweredNext, PTL DEF Spec

(***************************************************************************)
(* With a remote that keeps to the handshake, of packets to it, packets    *)
(* from it and chains in progress there is one at most; and as long as it  *)
(* waits there is one, unless its connection is ended.                     *)
(***************************************************************************)
THEOREM OneAtATime == Spec => []Dialogue
<1>1. TypeOK /\ DialogueInv /\ Answered => Dialogue
  <2> SUFFICES ASSUME TypeOK, Talk
               PROVE  InProgress = IF Idle THEN 0 ELSE 1
    BY DEF DialogueInv, Dialogue, Answered
  <2>1. Len(<<>>) = 0 /\ Cardinality({}) = 0 /\ \A c : Cardinality({c}) = 1
    BY EmptySeq, FS_EmptySet, FS_Singleton
  <2>2. CASE Idle
    BY <2>1, <2>2 DEF Idle, InProgress
  <2>3. CASE AtRemote
    BY <2>1, <2>3 DEF AtRemote, InProgress, Idle
  <2>4. CASE AtSocket
    BY <2>1, <2>4 DEF AtSocket, InProgress, Idle
  <2>5. CASE InChain
    <3>1. PICK c \in Packets : Pending = {c}
      BY <2>5 DEF InChain
    <3>2. Cardinality(Pending) = 1 /\ Pending # {}
      BY <2>1, <3>1, Zenon
    <3> QED BY <2>1, <2>5, <3>2 DEF InChain, InProgress, Idle
  <2> QED BY <2>2, <2>3, <2>4, <2>5 DEF Talk
<1> QED BY <1>1, Typing, DialogueInvariance, AnsweredInvariance, PTL

(***************************************************************************)
(* "Store first signature, ignore the rest": however many keys a remote    *)
(* that keeps to the handshake has tried, its public key matches.          *)
(***************************************************************************)
THEOREM KeyMatches == Spec => []ConformingMatches
<1>1. DialogueInv => ConformingMatches
  <2> SUFFICES ASSUME Talk, NEW p \in Packets, chain[p].step = "mismatch" PROVE FALSE
    BY DEF DialogueInv, ConformingMatches
  <2>1. p \in Pending
    BY DEF Pending
  <2>2. InChain
    BY <2>1 DEF Talk, Idle, AtRemote, AtSocket
  <2>3. Chains(p)
    BY <2>1, <2>2 DEF InChain
  <2> QED BY <2>3 DEF Chains
<1> QED BY <1>1, DialogueInvariance, PTL
==============================================================================
