------------------------- MODULE ConversationsProofs -------------------------
(***************************************************************************)
(* Proofs about Conversations, for any length of a command's output: every *)
(* variable keeps its type, and a continuation only ever acts on what was  *)
(* said to the command it belongs to.                                      *)
(***************************************************************************)
EXTENDS Conversations, SequenceTheorems, TLAPS

\* TypeOK, wherever a read stands.  The trackers and operations that go on with
\* a connection have reads of their own.
Typed ==
    /\ todo \in {<<c>> : c \in Commands} \cup {<<Transport, c>> : c \in Commands}
    /\ asked \in 1 .. 2 /\ answered \in 0 .. asked
    /\ sent \in Seq(Token) /\ fin \in BOOLEAN
    /\ arrived \in 0 .. Len(sent) /\ taken \in 0 .. arrived
    /\ broken \in BOOLEAN /\ destroyed \in BOOLEAN /\ shut \in BOOLEAN
    /\ phase \in {"waiting", "gap"} /\ token \in Token /\ ended \in BOOLEAN
    /\ verdict \in Verdicts \cup {"none"}

(***************************************************************************)
(* The inductive invariant.  Two requests share a connection one after the *)
(* other.  Turn: the transport request is the first.  Empty and Fresh:     *)
(* until the server has answered a request, nothing is unread.  Tagged:    *)
(* what is unread belongs to the running command.  OkayLast: nothing       *)
(* follows the OKAY of the transport request, so that nothing is left when *)
(* the next request is sent.  JustRead: a continuation has the last token  *)
(* that was read.                                                          *)
(***************************************************************************)
Turn == Len(todo) = 2 => asked = 1
Empty == answered = 0 => sent = <<>>
Fresh == answered < asked => taken = Len(sent)
Tagged == \A i \in 1 .. Len(sent) : i > taken => sent[i].of = asked
OkayLast == Len(todo) = 2 =>
               \A i \in 1 .. Len(sent) : sent[i].kind = "OKAY" => i = Len(sent)
JustRead == phase = "gap" /\ token.kind \notin Lost =>
               taken \in 1 .. Len(sent) /\ token = sent[taken] /\ token.of = asked

IInv == Typed /\ Turn /\ Empty /\ Fresh /\ Tagged /\ OkayLast /\ JustRead

------------------------------------------------------------------------------
\* The records are commands, and their answers sequences of kinds.
ReadKinds == {"nothing", "value", "reply", "all", "bytes", "search"}
CommandType ==
    [on : {"server", "device"}, reads : ReadKinds,
     accept : SUBSET Texts, refuse : SUBSET Texts,
     gives : {"ok", "handed"}, eof : Verdicts, drain : {"none", "end", "all"},
     timer : BOOLEAN, lenient : BOOLEAN]

\* The plain commands are of the type.
LEMMA ServerType ==
    ASSUME NEW r \in ReadKinds
    PROVE  Server(r) \in CommandType /\ Device(r) \in CommandType
BY DEF Server, Device, CommandType, Verdicts

\* A command that hands its connection over is of the type.
LEMMA HandingType ==
    ASSUME NEW c \in CommandType
    PROVE  Handing(c) \in CommandType
BY DEF Handing, CommandType

\* So is one that accepts further texts.
LEMMA AcceptingType ==
    ASSUME NEW c \in CommandType, NEW s \in SUBSET Texts
    PROVE  Accepting(c, s) \in CommandType
BY DEF Accepting, CommandType

\* So is a search.
LEMMA SearchingType ==
    ASSUME NEW a \in SUBSET Texts, NEW s \in SUBSET Texts,
           NEW d \in {"none", "end", "all"}
    PROVE  Searching(a, s, d) \in CommandType
<1>1. Device("search") \in CommandType
  BY ServerType DEF ReadKinds
<1>2. Accepting(Device("search"), a) \in CommandType
  BY <1>1, AcceptingType
<1> QED
  BY <1>2 DEF Searching, CommandType

\* All commands are of the type.
LEMMA CommandsType == Commands \subseteq CommandType
<1>1. \A r \in ReadKinds : /\ Server(r) \in CommandType /\ Handing(Server(r)) \in CommandType
                           /\ Device(r) \in CommandType /\ Handing(Device(r)) \in CommandType
  BY ServerType, HandingType
<1>2. \A r \in ReadKinds : /\ Accepting(Server(r), {"good"}) \in CommandType
                           /\ Accepting(Server(r), {"good", "empty"}) \in CommandType
                           /\ Accepting(Device(r), {"good"}) \in CommandType
  <2>1. {"good"} \in SUBSET Texts
        /\ {"good", "empty"} \in SUBSET Texts
    BY DEF Texts
  <2> QED
    BY <2>1, ServerType, AcceptingType
<1>3. /\ Kill \in CommandType /\ Transport \in CommandType /\ Attach \in CommandType
      /\ Detach \in CommandType /\ Remount \in CommandType /\ TrackDevices \in CommandType
      /\ Local \in CommandType /\ Log \in CommandType /\ Logcat \in CommandType
      /\ Shell \in CommandType /\ SyncService \in CommandType /\ Tcp \in CommandType
      /\ TrackJdwp \in CommandType /\ Screencap \in CommandType
  BY <1>1 DEF ReadKinds, Kill, Transport, Attach, Detach, Remount, TrackDevices, Local, Log,
              Logcat, Shell, SyncService, Tcp, TrackJdwp, Screencap
<1>4. /\ Devices \in CommandType /\ DevicesWithPaths \in CommandType
      /\ Forward \in CommandType /\ WaitForDevice \in CommandType
      /\ GetDevicePath \in CommandType /\ GetSerialNo \in CommandType
      /\ GetState \in CommandType /\ ListForwards \in CommandType /\ Reverse \in CommandType
      /\ ListReverses \in CommandType /\ Reboot \in CommandType /\ GetFeatures \in CommandType
      /\ GetPackages \in CommandType /\ GetProperties \in CommandType
  BY <1>1 DEF ReadKinds, Devices, DevicesWithPaths, Forward, WaitForDevice, GetDevicePath,
              GetSerialNo, GetState, ListForwards, Reverse, ListReverses, Reboot, GetFeatures,
              GetPackages, GetProperties
<1>5. /\ Connect \in CommandType /\ Disconnect \in CommandType /\ Root \in CommandType
      /\ TcpIp \in CommandType /\ Usb \in CommandType
  BY <1>2 DEF ReadKinds, Connect, Disconnect, Root, TcpIp, Usb
<1>6. Version \in CommandType
  <2>1. Server("value") \in CommandType
    BY <1>1 DEF ReadKinds
  <2> QED
    BY <2>1 DEF Version, CommandType
<1>7. FrameBuffer \in CommandType
  <2>1. Handing(Device("bytes")) \in CommandType
    BY <1>1 DEF ReadKinds
  <2> QED
    BY <2>1 DEF FrameBuffer, CommandType, Texts
<1>8. IsInstalled \in CommandType
  <2>1. Accepting(Device("bytes"), {"good"}) \in CommandType
    BY <1>2 DEF ReadKinds
  <2> QED
    BY <2>1 DEF IsInstalled, CommandType, Verdicts
<1>9. /\ Clear \in CommandType /\ WaitBootComplete \in CommandType
      /\ Install \in CommandType /\ Uninstall \in CommandType
  BY SearchingType DEF Texts, Clear, WaitBootComplete, Install, Uninstall
<1>10. StartActivity \in CommandType /\ StartService \in CommandType
  <2>1. Searching({}, {"bad"}, "end") \in CommandType
    BY SearchingType DEF Texts
  <2> QED
    BY <2>1 DEF StartActivity, StartService, CommandType, Verdicts
<1>11. Monkey \in CommandType
  <2>1. Handing(Searching({"good"}, {}, "none")) \in CommandType
    BY SearchingType, HandingType DEF Texts
  <2> QED
    BY <2>1 DEF Monkey, CommandType
<1> QED
  BY <1>3, <1>4, <1>5, <1>6, <1>7, <1>8, <1>9, <1>10, <1>11 DEF Commands

\* What a token of an answer can be.
Spoken == Kinds \ Lost

\* What may follow an OKAY is spoken by the server.
LEMMA BodyKinds ==
    ASSUME NEW c \in CommandType, NEW b \in Bodies(c)
    PROVE  b \in Seq(Spoken)
<1>0. /\ "OKAY" \in Spoken /\ "FAIL" \in Spoken /\ "JUNK" \in Spoken /\ "LEN" \in Spoken /\ "ZERO" \in Spoken
      /\ "good" \in Spoken /\ "bad" \in Spoken /\ "noise" \in Spoken /\ "payload" \in Spoken
      /\ Texts \subseteq Spoken
  BY DEF Spoken, Lost, Kinds, Texts
<1>1. Refusals \subseteq Seq(Spoken)
  BY <1>0 DEF Refusals
<1>a. /\ <<>> \in Seq(Spoken) /\ <<"payload">> \in Seq(Spoken) /\ <<"good">> \in Seq(Spoken)
      /\ <<"bad">> \in Seq(Spoken) /\ <<"noise">> \in Seq(Spoken) /\ <<"ZERO">> \in Seq(Spoken)
      /\ <<"OKAY">> \in Seq(Spoken) /\ <<"JUNK">> \in Seq(Spoken)
  BY <1>0
<1>b. /\ <<"LEN", "good">> \in Seq(Spoken) /\ <<"LEN", "bad">> \in Seq(Spoken)
      /\ <<"noise", "good">> \in Seq(Spoken) /\ <<"good", "payload">> \in Seq(Spoken)
  BY <1>0
<1>2. Payload(c) \subseteq Seq(Spoken)
  BY ONLY <1>a, Zenon DEF Payload
<1>3. Lines(c) \subseteq Seq(Spoken)
  <2>1. c.accept \cup c.refuse \cup {"noise"} \subseteq Spoken
    BY <1>0 DEF CommandType
  <2> SUFFICES ASSUME NEW n \in 0 .. MaxLines,
                      NEW l \in [1 .. n -> c.accept \cup c.refuse \cup {"noise"}]
               PROVE  l \in Seq(Spoken)
    BY DEF Lines
  <2>2. n \in Nat /\ l \in [1 .. n -> Spoken]
    BY <2>1, ConversationsAssumption DEF ConversationsAssumption
  <2> QED
    BY <2>2
<1>4. \A l \in Lines(c), p \in Payload(c) : l \o <<"good">> \o p \in Seq(Spoken)
  <2> SUFFICES ASSUME NEW l \in Lines(c), NEW p \in Payload(c)
               PROVE  l \o <<"good">> \o p \in Seq(Spoken)
    OBVIOUS
  <2>1. l \in Seq(Spoken) /\ <<"good">> \in Seq(Spoken) /\ p \in Seq(Spoken)
    BY <1>0, <1>2, <1>3
  <2> QED
    BY <2>1, ConcatProperties
<1>5. CASE c.reads = "nothing"
  <2>1. Bodies(c) = Payload(c)
    BY <1>5 DEF Bodies
  <2> QED
    BY <2>1, <1>2
<1>6. CASE c.reads = "value"
  <2>1. Bodies(c) = {<<"LEN", "good">>, <<"LEN", "bad">>, <<"ZERO">>}
    BY <1>6 DEF Bodies
  <2> QED
    BY ONLY <2>1, <1>a, <1>b, b \in Bodies(c), Zenon
<1>7. CASE c.reads = "reply"
  <2>1. Bodies(c) = {<<"OKAY">>, <<"JUNK">>} \cup Refusals
    BY <1>7 DEF Bodies
  <2> QED
    BY ONLY <2>1, <1>a, <1>1, b \in Bodies(c), Zenon
<1>8. CASE c.reads = "all"
  <2>1. Bodies(c) = {<<>>, <<"good">>, <<"noise">>, <<"noise", "good">>}
    BY <1>8 DEF Bodies
  <2> QED
    BY ONLY <2>1, <1>a, <1>b, b \in Bodies(c), Zenon
<1>9. CASE c.reads = "bytes"
  <2>1. Bodies(c) = {<<>>, <<"bad">>, <<"good">>, <<"good", "payload">>}
    BY <1>9 DEF Bodies
  <2> QED
    BY ONLY <2>1, <1>a, <1>b, b \in Bodies(c), Zenon
<1>10. CASE c.reads = "search"
  <2>1. Bodies(c) = Lines(c) \cup {l \o <<"good">> \o p : l \in Lines(c), p \in Payload(c)}
    BY <1>10 DEF Bodies
  <2>2. CASE b \in Lines(c)
    BY <2>2, <1>3
  <2>3. CASE b \in {l \o <<"good">> \o p : l \in Lines(c), p \in Payload(c)}
    <3>1. PICK l \in Lines(c), p \in Payload(c) : b = l \o <<"good">> \o p
      BY <2>3, SMTT(20)
    <3> QED
      BY <3>1, <1>4, Zenon
  <2> QED
    BY <2>1, <2>2, <2>3
<1> QED
  BY <1>5, <1>6, <1>7, <1>8, <1>9, <1>10 DEF CommandType, ReadKinds

\* An answer holds no EOF and no ERROR.
LEMMA AnswerKinds ==
    ASSUME NEW c \in CommandType, NEW a \in Answers(c)
    PROVE  a \in Seq(Kinds) /\ \A i \in 1 .. Len(a) : a[i] \notin Lost
<1> SUFFICES a \in Seq(Spoken)
  BY DEF Spoken
<1>0. /\ "OKAY" \in Spoken /\ "FAIL" \in Spoken /\ "JUNK" \in Spoken
      /\ "LEN" \in Spoken /\ "ZERO" \in Spoken /\ "noise" \in Spoken
  BY DEF Spoken, Lost, Kinds, Texts
<1>1. CASE a \in Refusals
  <2>1. <<"FAIL", "LEN", "noise">> \in Seq(Spoken) /\ <<"FAIL", "ZERO">> \in Seq(Spoken)
    BY <1>0
  <2> QED
    BY ONLY <1>1, <2>1, Zenon DEF Refusals
<1>2. CASE a = <<"JUNK">>
  BY <1>0, <1>2
<1>3. CASE a \in {<<"OKAY">> \o b : b \in Bodies(c)}
  <2>1. PICK b \in Bodies(c) : a = <<"OKAY">> \o b
    BY <1>3, Zenon
  <2>2. b \in Seq(Spoken) /\ <<"OKAY">> \in Seq(Spoken)
    BY <1>0, BodyKinds
  <2> QED
    BY <2>1, <2>2, ConcatProperties
<1> QED
  BY <1>1, <1>2, <1>3, Zenon DEF Answers

\* Nothing follows the OKAY of a transport request.
LEMMA TransportAnswer ==
    ASSUME NEW a \in Answers(Transport), NEW i \in 1 .. Len(a), a[i] = "OKAY"
    PROVE  i = Len(a)
<1>1. Transport.reads = "nothing" /\ Transport.gives = "ok"
  BY DEF Transport, Server
<1>2. Bodies(Transport) = {<<>>}
  BY <1>1 DEF Bodies, Payload
<1>3. CASE a \in Refusals
  BY <1>3 DEF Refusals
<1>4. CASE a = <<"JUNK">>
  BY <1>4
<1>5. CASE a = <<"OKAY">> \o <<>>
  <2>1. Len(a) = 1
    BY <1>5
  <2> QED
    BY <2>1
<1> QED
  BY <1>2, <1>3, <1>4, <1>5, Zenon DEF Answers

------------------------------------------------------------------------------
\* What the steps need to know of the state.
LEMMA CmdType ==
    ASSUME Typed
    PROVE  /\ cmd \in CommandType /\ Len(todo) \in 1 .. 2
           /\ Len(todo) = 2 => cmd = Transport
<1>1. Transport \in CommandType /\ Commands \subseteq CommandType
  BY CommandsType DEF Commands
<1>2. \/ \E c \in Commands : todo = <<c>>
      \/ \E c \in Commands : todo = <<Transport, c>>
  BY Zenon DEF Typed
<1>3. CASE \E c \in Commands : todo = <<c>>
  BY <1>1, <1>3 DEF cmd
<1>4. CASE \E c \in Commands : todo = <<Transport, c>>
  BY <1>1, <1>4 DEF cmd
<1> QED
  BY <1>2, <1>3, <1>4, Zenon

\* What the server sends is typed, tagged for the running command, and ends
\* with its OKAY if that is the transport request.
LEMMA ServerStep ==
    ASSUME IInv, ServerAnswers
    PROVE  IInv'
<1> USE DEF IInv
<1>1. PICK a \in Answers(cmd) :
          sent' = sent \o [i \in 1 .. Len(a) |-> Tok(a[i], asked)]
  BY DEF ServerAnswers
<1> DEFINE b == [i \in 1 .. Len(a) |-> Tok(a[i], asked)]
<1>2. a \in Seq(Kinds)
  BY CmdType, AnswerKinds
<1>3. asked \in Nat
  BY DEF Typed
<1>4. b \in Seq(Token) /\ Len(b) = Len(a)
  <2>1. \A i \in 1 .. Len(a) : Tok(a[i], asked) \in Token
    BY <1>2, <1>3 DEF Tok, Token
  <2> QED
    BY <2>1, <1>2
<1>5. \A i \in 1 .. Len(a) : b[i].of = asked /\ b[i].kind = a[i]
  BY <1>2 DEF Tok
<1>6. sent \in Seq(Token) /\ sent' = sent \o b
  BY <1>1 DEF Typed
<1> HIDE DEF b
<1>7. /\ sent' \in Seq(Token) /\ Len(sent') = Len(sent) + Len(b)
      /\ \A i \in 1 .. Len(sent) : sent'[i] = sent[i]
      /\ \A i \in 1 .. Len(b) : sent'[Len(sent) + i] = b[i]
  <2>1. /\ sent' \in Seq(Token) /\ Len(sent') = Len(sent) + Len(b)
        /\ \A i \in 1 .. Len(sent) + Len(b) :
              sent'[i] = IF i <= Len(sent) THEN sent[i] ELSE b[i - Len(sent)]
    BY <1>4, <1>6, ConcatProperties, ZenonT(30)
  <2> QED
    BY <2>1, <1>4, <1>6
<1>8. /\ answered < asked /\ answered' = asked /\ asked' = asked /\ todo' = todo
      /\ fin' = fin /\ arrived' = arrived /\ broken' = broken /\ destroyed' = destroyed
      /\ shut' = shut /\ taken' = taken /\ at' = at /\ phase' = phase /\ token' = token
      /\ ended' = ended /\ verdict' = verdict
  BY DEF ServerAnswers, socket, parser
<1>9. Typed'
  <2>1. Len(sent) \in Nat /\ Len(b) \in Nat
    BY <1>4, <1>6
  <2>2. arrived \in 0 .. Len(sent')
    BY <1>7, <2>1 DEF Typed
  <2> QED
    BY <1>7, <1>8, <2>2, <1>3 DEF Typed
<1>10. Turn' /\ Fresh' /\ Empty'
  BY <1>8, <1>3 DEF Turn, Fresh, Empty, Typed
<1>11. taken = Len(sent)
  BY <1>8 DEF Fresh
<1>12. \A i \in 1 .. Len(sent') : i > Len(sent) =>
          i - Len(sent) \in 1 .. Len(b) /\ sent'[i] = b[i - Len(sent)]
  <2>1. Len(sent) \in Nat /\ Len(b) \in Nat
    BY <1>4, <1>6
  <2> QED
    BY <1>7, <2>1
<1>13. Tagged'
  BY <1>4, <1>5, <1>8, <1>11, <1>12 DEF Tagged
<1>14. OkayLast'
  <2> SUFFICES ASSUME Len(todo) = 2, NEW i \in 1 .. Len(sent'), sent'[i].kind = "OKAY"
               PROVE  i = Len(sent')
    BY <1>8 DEF OkayLast
  <2>1. sent = <<>> /\ cmd = Transport
    BY <1>8, CmdType DEF Turn, Empty, Typed
  <2>2. i \in 1 .. Len(a) /\ a[i] = "OKAY" /\ Len(sent') = Len(a)
    BY <2>1, <1>4, <1>5, <1>7, <1>12
  <2> QED
    BY <2>1, <2>2, TransportAnswer
<1>15. JustRead'
  BY <1>7, <1>8, <1>4, <1>6 DEF JustRead
<1> QED
  BY <1>9, <1>10, <1>13, <1>14, <1>15

\* A close cuts off what has not arrived, and nothing that was read.
LEMMA CloseStep ==
    ASSUME IInv, ServerCloses
    PROVE  IInv'
<1> USE DEF IInv
<1>1. /\ sent \in Seq(Token) /\ arrived \in 0 .. Len(sent) /\ taken \in 0 .. arrived
      /\ Len(sent) \in Nat
  BY DEF Typed
<1>2. sent' = SubSeq(sent, 1, arrived) /\ fin' = TRUE
  BY DEF ServerCloses
<1>3. /\ answered' = answered /\ asked' = asked /\ todo' = todo
      /\ arrived' = arrived /\ broken' = broken /\ destroyed' = destroyed
      /\ shut' = shut /\ taken' = taken /\ at' = at /\ phase' = phase /\ token' = token
      /\ ended' = ended /\ verdict' = verdict
  BY DEF ServerCloses, socket, parser
<1>4. /\ sent' \in Seq(Token) /\ Len(sent') = arrived
      /\ \A i \in 1 .. arrived : sent'[i] = sent[i]
  BY <1>1, <1>2, SubSeqProperties
<1>5. Typed'
  BY <1>1, <1>2, <1>3, <1>4 DEF Typed
<1>6. Turn' /\ Empty'
  <2>1. sent = <<>> => sent' = <<>>
    BY <1>1, <1>4
  <2> QED
    BY <2>1, <1>3 DEF Turn, Empty
<1>7. Fresh' /\ Tagged' /\ OkayLast'
  BY <1>1, <1>3, <1>4 DEF Fresh, Tagged, OkayLast
<1>8. JustRead'
  BY <1>1, <1>3, <1>4 DEF JustRead
<1> QED
  BY <1>5, <1>6, <1>7, <1>8

\* Bytes that arrive preserve IInv.
LEMMA ArriveStep ==
    ASSUME IInv, Arrive
    PROVE  IInv'
<1> USE DEF IInv
<1>1. arrived' \in (arrived + 1) .. Len(sent)
  BY DEF Arrive
<1>2. /\ sent' = sent /\ fin' = fin /\ answered' = answered /\ asked' = asked /\ todo' = todo
      /\ broken' = broken /\ destroyed' = destroyed
      /\ shut' = shut /\ taken' = taken /\ at' = at /\ phase' = phase /\ token' = token
      /\ ended' = ended /\ verdict' = verdict
  BY DEF Arrive, server, parser
<1>3. Typed'
  <2>1. arrived' \in 0 .. Len(sent) /\ taken \in 0 .. arrived'
    BY <1>1 DEF Typed
  <2> QED
    BY <1>2, <2>1 DEF Typed
<1> QED
  BY <1>2, <1>3 DEF Turn, Empty, Fresh, Tagged, OkayLast, JustRead

\* What a read does, case by case.
LEMMA StartReadCases ==
    ASSUME NEW w, StartRead(w)
    PROVE  /\ at' = w
           /\ \/ /\ arrived > taken
                 /\ taken' = taken + 1 /\ token' = sent[taken + 1] /\ phase' = "gap"
              \/ /\ arrived = taken /\ taken' = taken
                 /\ \/ phase' = "gap" /\ token' = Eof
                    \/ phase' = "waiting" /\ token' = token
<1>1. CASE arrived > taken /\ taken' = taken + 1 /\ token' = sent[taken + 1] /\ phase' = "gap"
  BY <1>1, Zenon DEF StartRead
<1>2. CASE arrived = taken /\ ended /\ token' = Eof /\ phase' = "gap" /\ UNCHANGED taken
  BY <1>2, Zenon DEF StartRead
<1>3. CASE arrived = taken /\ ~ended /\ phase' = "waiting" /\ UNCHANGED <<taken, token>>
  BY <1>3, Zenon DEF StartRead
<1> QED
  BY <1>1, <1>2, <1>3, Zenon DEF StartRead

\* A read takes the next token, which was said to the running command.
LEMMA ReadStep ==
    ASSUME IInv, NEW w, StartRead(w), verdict' \in Verdicts \cup {"none"},
           UNCHANGED <<todo, asked, server, socket, ended>>
    PROVE  IInv'
<1> USE DEF IInv
<1>1. /\ sent' = sent /\ fin' = fin /\ answered' = answered /\ asked' = asked /\ todo' = todo
      /\ arrived' = arrived /\ broken' = broken /\ destroyed' = destroyed
      /\ shut' = shut /\ ended' = ended /\ verdict' \in Verdicts \cup {"none"}
  BY DEF server, socket
<1>2. /\ sent \in Seq(Token) /\ arrived \in 0 .. Len(sent) /\ taken \in 0 .. arrived
      /\ Len(sent) \in Nat
  BY DEF Typed
<1>4. CASE arrived > taken
  <2>1. taken' = taken + 1 /\ token' = sent[taken + 1] /\ phase' = "gap"
    <3>1. ~(arrived = taken)
      BY <1>2, <1>4
    <3> QED
      BY <3>1, StartReadCases, Zenon
  <2>2. taken' \in 1 .. Len(sent) /\ taken' \in 0 .. arrived /\ sent[taken + 1] \in Token
    BY <1>2, <1>4, <2>1
  <2>3. Typed'
    BY <1>1, <2>1, <2>2 DEF Typed
  <2>4. ~(answered < asked)
    BY <1>2, <1>4 DEF Fresh
  <2>5. Turn' /\ Empty' /\ Fresh' /\ OkayLast'
    BY <1>1, <2>4 DEF Turn, Empty, Fresh, OkayLast
  <2>6. sent[taken + 1].of = asked
    BY <1>2, <2>1, <2>2 DEF Tagged
  <2>7. Tagged' /\ JustRead'
    BY <1>1, <1>2, <2>1, <2>2, <2>6 DEF Tagged, JustRead
  <2> QED
    BY <2>3, <2>5, <2>7
<1>5. CASE arrived = taken
  <2>1. taken' = taken /\ ((phase' = "gap" /\ token' = Eof) \/ (phase' = "waiting" /\ token' = token))
    <3>1. ~(arrived > taken)
      BY <1>2, <1>5
    <3> QED
      BY <3>1, StartReadCases, Zenon
  <2>2. Eof \in Token /\ Eof.kind \in Lost
    BY DEF Eof, Tok, Token, Kinds, Lost
  <2>3. Typed'
    BY <1>1, <2>1, <2>2 DEF Typed
  <2>4. Turn' /\ Empty' /\ Fresh' /\ OkayLast' /\ Tagged'
    BY <1>1, <2>1 DEF Turn, Empty, Fresh, OkayLast, Tagged
  <2>5. JustRead'
    BY <1>1, <2>1, <2>2 DEF JustRead
  <2> QED
    BY <2>3, <2>4, <2>5
<1> QED
  BY <1>2, <1>4, <1>5

\* The second request is sent when nothing of the first answer is unread.
LEMMA TransportStep ==
    ASSUME IInv, Transported
    PROVE  IInv'
<1> USE DEF IInv
<1>1. /\ sent' = sent /\ fin' = fin /\ answered' = answered /\ asked' = asked + 1
      /\ todo' = Tail(todo) /\ arrived' = arrived /\ broken' = broken
      /\ destroyed' = destroyed /\ shut' = shut /\ ended' = ended /\ verdict' = verdict
  BY DEF Transported, server, socket
<1>2. /\ sent \in Seq(Token) /\ arrived \in 0 .. Len(sent) /\ taken \in 0 .. arrived
      /\ Len(sent) \in Nat
  BY DEF Typed
<1>3. Len(todo) = 2 /\ asked = 1
  BY DEF Transported, Turn
<1>4. \E c \in Commands : todo' = <<c>>
  <2>1. \/ \E c \in Commands : todo = <<c>>
        \/ \E c \in Commands : todo = <<Transport, c>>
    BY Zenon DEF Typed
  <2>2. PICK c \in Commands : todo = <<Transport, c>>
    BY <2>1, <1>3
  <2> QED
    BY <1>1, <2>2
<1>5. Len(todo') = 1
  BY <1>4
<1>6. taken = Len(sent) /\ arrived = taken
  <2>1. phase = "gap" /\ token.kind = "OKAY"
    BY DEF Transported, Got
  <2>2. taken \in 1 .. Len(sent) /\ sent[taken].kind = "OKAY"
    BY <2>1 DEF JustRead, Lost
  <2>3. taken = Len(sent)
    BY <1>3, <2>2 DEF OkayLast
  <2> QED
    BY <1>2, <2>3
<1>7. at' = "reply" /\ taken' = taken
      /\ ((phase' = "gap" /\ token' = Eof) \/ (phase' = "waiting" /\ token' = token))
  <2>1. ~(arrived > taken)
    BY <1>2, <1>6
  <2>2. StartRead("reply")
    BY Zenon DEF Transported
  <2> QED
    BY <2>1, <2>2, StartReadCases, Zenon
<1>8. Eof \in Token /\ Eof.kind \in Lost
  BY DEF Eof, Tok, Token, Kinds, Lost
<1>9. Typed'
  <2>1. todo' \in {<<c>> : c \in Commands} \cup {<<Transport, c>> : c \in Commands}
    BY <1>4, Zenon
  <2>2. asked' \in 1 .. 2 /\ answered' \in 0 .. asked'
    BY <1>1, <1>3 DEF Typed
  <2> QED
    BY <1>1, <1>7, <1>8, <2>1, <2>2 DEF Typed
<1>10. Turn' /\ Empty' /\ Fresh' /\ OkayLast' /\ Tagged'
  <2>1. Turn' /\ OkayLast'
    BY <1>5 DEF Turn, OkayLast
  <2>2. Empty' /\ Fresh'
    BY <1>1, <1>6, <1>7 DEF Empty, Fresh
  <2>3. Tagged'
    BY <1>1, <1>2, <1>6, <1>7 DEF Tagged
  <2> QED
    BY <2>1, <2>2, <2>3
<1>11. JustRead'
  BY <1>7, <1>8 DEF JustRead
<1> QED
  BY <1>9, <1>10, <1>11

\* Every other step reads to the end of the buffer or not at all, and changes
\* neither the requests nor the answers.
Quiet ==
    /\ UNCHANGED <<todo, asked, server, arrived>>
    /\ taken' \in {taken, arrived}
    /\ broken' \in BOOLEAN /\ destroyed' \in BOOLEAN /\ shut' \in BOOLEAN
    /\ ended' \in BOOLEAN /\ verdict' \in Verdicts \cup {"none"}
    /\ \/ phase' = "waiting" /\ token' = token
       \/ phase' = "gap" /\ token' \in {Eof, Failed}
       \/ taken' = taken /\ phase' = phase /\ token' = token

\* A step that reads no token preserves IInv.
LEMMA QuietStep ==
    ASSUME IInv, Quiet
    PROVE  IInv'
<1> USE DEF IInv
<1>1. /\ sent' = sent /\ fin' = fin /\ answered' = answered /\ asked' = asked /\ todo' = todo
      /\ arrived' = arrived
  BY DEF Quiet, server
<1>2. /\ sent \in Seq(Token) /\ arrived \in 0 .. Len(sent) /\ taken \in 0 .. arrived
      /\ Len(sent) \in Nat
  BY DEF Typed
<1>3. {Eof, Failed} \subseteq Token /\ Eof.kind \in Lost /\ Failed.kind \in Lost
  BY DEF Eof, Failed, Tok, Token, Kinds, Lost
<1>4. taken' \in 0 .. arrived /\ taken' >= taken
  BY <1>2 DEF Quiet
<1>5. Typed'
  BY <1>1, <1>3, <1>4 DEF Quiet, Typed
<1>6. Turn' /\ Empty' /\ OkayLast'
  BY <1>1 DEF Turn, Empty, OkayLast
<1>7. Fresh' /\ Tagged'
  BY <1>1, <1>2, <1>4 DEF Fresh, Tagged
<1>8. JustRead'
  BY <1>1, <1>3 DEF Quiet, JustRead
<1> QED
  BY <1>5, <1>6, <1>7, <1>8

\* How a continuation ends: the promise settles, or the rest of the connection
\* is read.
LEMMA SettleStep ==
    ASSUME IInv, NEW v \in Verdicts \cup {"none"}, Settle(v),
           UNCHANGED <<todo, asked, server, arrived, broken, shut>>,
           destroyed' \in BOOLEAN
    PROVE  IInv'
<1>1. /\ at' = "over" /\ verdict' = v
      /\ taken' = taken /\ phase' = phase /\ token' = token /\ ended' = ended
  BY DEF Settle
<1>2. Quiet
  BY <1>1 DEF Quiet, IInv, Typed, server
<1> QED
  BY <1>2, QuietStep

\* Reading all preserves IInv.
LEMMA ReadAllStep ==
    ASSUME IInv, NEW w, StartReadAll(w), UNCHANGED <<todo, asked, server, socket>>,
           ended' = ended, verdict' \in Verdicts \cup {"none"}
    PROVE  IInv'
<1>1. /\ at' = w /\ taken' = arrived
      /\ \/ phase' = "waiting" /\ token' = token
         \/ phase' = "gap" /\ token' = Eof
  BY Zenon DEF StartReadAll, ReadOut
<1>2. Quiet
  BY <1>1 DEF Quiet, IInv, Typed, server, socket
<1> QED
  BY <1>2, QuietStep

\* Settling preserves IInv.
LEMMA FinishStep ==
    ASSUME IInv, NEW v \in Verdicts, Finish(v),
           UNCHANGED <<todo, asked, server, arrived, broken, destroyed>>
    PROVE  IInv'
<1>1. destroyed' \in BOOLEAN
  BY DEF IInv, Typed
<1>2. CASE Settle(v) /\ UNCHANGED shut
  BY <1>1, <1>2, SettleStep
<1>3. CASE verdict' = v /\ StartEnd /\ UNCHANGED ended
  <2>1. /\ at' = "drainEnd" /\ taken' = taken
        /\ \/ phase' = "waiting" /\ token' = token /\ shut' = TRUE
           \/ phase' = "gap" /\ token' = Eof /\ shut' = shut
    BY <1>3, Zenon DEF StartEnd, HalfClose
  <2>2. shut' \in BOOLEAN /\ ended' \in BOOLEAN /\ broken' \in BOOLEAN
    BY <1>3, <2>1 DEF IInv, Typed
  <2>3. /\ verdict' \in Verdicts \cup {"none"}
        /\ taken' \in {taken, arrived}
    BY <1>1, <1>3, <2>1
  <2>4. \/ phase' = "waiting" /\ token' = token
        \/ phase' = "gap" /\ token' \in {Eof, Failed}
    BY <2>1, Zenon
  <2>5. UNCHANGED <<todo, asked, server, arrived>>
    OBVIOUS
  <2>6. Quiet
    BY <1>1, <2>2, <2>3, <2>4, <2>5, Zenon DEF Quiet
  <2> QED
    BY <2>6, QuietStep
<1>4. CASE verdict' = v /\ StartReadAll("drainAll") /\ UNCHANGED <<shut, ended>>
  <2>1. UNCHANGED <<todo, asked, server, socket>> /\ verdict' \in Verdicts \cup {"none"}
    BY <1>4 DEF socket
  <2> QED
    BY <1>1, <1>4, <2>1, ReadAllStep
<1> QED
  BY <1>2, <1>3, <1>4, Zenon DEF Finish

------------------------------------------------------------------------------
\* The reads of the stream and its events.
LEMMA StreamStep ==
    ASSUME IInv, Readable \/ StreamEnds \/ StreamBreaks \/ SocketTimesOut
    PROVE  IInv'
<1>1. CASE Readable
  <2>1. UNCHANGED <<todo, asked, server, socket, ended, verdict>>
    BY <1>1, Zenon DEF Readable
  <2>2. CASE ReadMore /\ UNCHANGED at
    <3>1. taken' = arrived /\ phase' = phase /\ token' = token /\ at' = at /\ phase = "waiting"
      BY <1>1, <2>2 DEF Readable, ReadMore, ReadOut
    <3>2. Quiet
      BY <2>1, <3>1 DEF Quiet, IInv, Typed, server, socket
    <3> QED
      BY <3>2, QuietStep
  <2>3. CASE at \notin Drains /\ StartRead(at)
    <3>1. verdict' \in Verdicts \cup {"none"}
      BY <2>1 DEF IInv, Typed
    <3> QED
      BY <2>1, <2>3, <3>1, ReadStep
  <2> QED
    BY <1>1, <2>2, <2>3, Zenon DEF Readable
<1>2. CASE StreamEnds
  <2>1. /\ UNCHANGED <<todo, asked, server, socket>> /\ verdict' = verdict
        /\ taken' = taken /\ at' = at /\ ended' = TRUE
        /\ \/ phase' = "gap" /\ token' = Eof
           \/ phase' = phase /\ token' = token
    BY <1>2, Zenon DEF StreamEnds
  <2>2. Quiet
    BY <2>1 DEF Quiet, IInv, Typed, server, socket
  <2> QED
    BY <2>2, QuietStep
<1>3. CASE StreamBreaks
  <2>1. /\ UNCHANGED <<todo, asked, server, arrived>> /\ verdict' = verdict
        /\ taken' = taken /\ at' = at /\ ended' = ended /\ shut' = shut
        /\ broken' = TRUE /\ destroyed' = TRUE
        /\ \/ phase' = "gap" /\ token' = Failed
           \/ phase' = phase /\ token' = token
    BY <1>3, Zenon DEF StreamBreaks
  <2>2. Quiet
    BY <2>1 DEF Quiet, IInv, Typed, server
  <2> QED
    BY <2>2, QuietStep
<1>4. CASE SocketTimesOut
  <2>1. /\ UNCHANGED <<todo, asked, server, arrived>> /\ verdict' = verdict
        /\ taken' = taken /\ ended' = ended /\ destroyed' = destroyed
        /\ broken' = TRUE /\ shut' = TRUE /\ phase' = "gap" /\ token' = Failed
    BY <1>4, Zenon DEF SocketTimesOut
  <2>2. Quiet
    BY <2>1 DEF Quiet, IInv, Typed, server
  <2> QED
    BY <2>2, QuietStep
<1> QED
  BY <1>1, <1>2, <1>3, <1>4

------------------------------------------------------------------------------
\* The continuations that start the next read.
LEMMA ReadOnStep ==
    ASSUME IInv, NEW w, ReadOn(w), UNCHANGED server
    PROVE  IInv'
<1>1. StartRead(w) /\ UNCHANGED <<todo, asked, server, socket, ended, verdict>>
  BY DEF ReadOn
<1>2. verdict' \in Verdicts \cup {"none"}
  BY <1>1 DEF IInv, Typed
<1> QED
  BY <1>1, <1>2, ReadStep

\* OKAY, which may send the next request, preserves IInv.
LEMMA AcceptedStep ==
    ASSUME IInv, Accepted
    PROVE  IInv'
<1>1. cmd.gives \in Verdicts /\ destroyed \in BOOLEAN
  BY CmdType DEF IInv, Typed, CommandType, Verdicts
<1>3. UNCHANGED server
  BY Zenon DEF Accepted
<1>4. CASE Settle(cmd.gives) /\ UNCHANGED <<todo, asked, socket>>
  <2>1. UNCHANGED <<todo, asked, server, arrived, broken, shut>> /\ destroyed' = destroyed
    BY <1>3, <1>4 DEF socket
  <2> QED
    BY <1>1, <1>4, <2>1, SettleStep
<1>5. CASE \E w \in {"valueLength", "secondReply", "bytes", "line"} : ReadOn(w)
  BY <1>3, <1>5, ReadOnStep
<1>6. CASE StartReadAll("all") /\ UNCHANGED <<todo, asked, socket, ended, verdict>>
  <2>1. UNCHANGED <<todo, asked, server, socket>> /\ ended' = ended
    BY <1>3, <1>6
  <2>2. verdict' \in Verdicts \cup {"none"}
    BY <1>6 DEF IInv, Typed
  <2> QED
    BY <1>6, <2>1, <2>2, ReadAllStep
<1>7. \/ Settle(cmd.gives) /\ UNCHANGED <<todo, asked, socket>>
      \/ ReadOn("valueLength") \/ ReadOn("secondReply") \/ ReadOn("bytes") \/ ReadOn("line")
      \/ StartReadAll("all") /\ UNCHANGED <<todo, asked, socket, ended, verdict>>
  BY Zenon DEF Accepted
<1> QED
  BY <1>4, <1>5, <1>6, <1>7, Zenon

\* A continuation that goes on reading preserves IInv.
LEMMA ReadsOnStep ==
    ASSUME IInv, Refused \/ ReadsFailure \/ ReadsValue \/ SkipsLine \/ MatchesException
    PROVE  IInv'
<1>1. UNCHANGED server /\ \E w \in {"failLength", "failText", "valueText", "line", "exceptionLine"} :
                              ReadOn(w)
  BY Zenon DEF Refused, ReadsFailure, ReadsValue, SkipsLine, MatchesException
<1> QED
  BY <1>1, ReadOnStep

\* The continuations that settle the promise.
LEMMA SettlesStep ==
    ASSUME IInv,
           \/ AcceptedAgain \/ Fails \/ Unexpected \/ HasValue \/ HasAll
           \/ HasBytes \/ Rejects \/ Drained \/ TimesOut
    PROVE  IInv'
<1>1. /\ cmd.gives \in Verdicts /\ "ok" \in Verdicts /\ "error" \in Verdicts
      /\ "handed" \in Verdicts
      /\ destroyed \in BOOLEAN /\ verdict \in Verdicts \cup {"none"}
  BY CmdType DEF IInv, Typed, CommandType, Verdicts
<1>2. \E v \in Verdicts \cup {"none"} : Settle(v)
  <2>1. CASE HasValue \/ HasAll
    <3>1. Settle("ok") \/ Settle("error")
      BY <2>1, Zenon DEF HasValue, HasAll
    <3> QED
      BY <1>1, <3>1, Zenon
  <2>2. CASE \/ AcceptedAgain \/ Fails \/ Unexpected \/ HasBytes \/ Rejects
             \/ Drained \/ TimesOut
    <3>1. \/ Settle("ok") \/ Settle("error") \/ Settle("handed") \/ Settle(cmd.gives)
          \/ Settle(verdict)
      BY <2>2, Zenon DEF AcceptedAgain, Fails, Unexpected, HasBytes, Rejects, Drained, TimesOut
    <3> QED
      BY <1>1, <3>1, Zenon
  <2> QED
    BY <2>1, <2>2, Zenon
<1>3. UNCHANGED <<todo, asked, server, arrived, broken, shut>> /\ destroyed' \in BOOLEAN
  <2>1. CASE \/ AcceptedAgain \/ HasValue \/ HasAll \/ Rejects \/ Drained \/ TimesOut
    <3>1. UNCHANGED <<todo, asked, server, socket>>
      BY <2>1, Zenon DEF AcceptedAgain, HasValue, HasAll, Rejects, Drained, TimesOut
    <3> QED
      BY <1>1, <3>1 DEF socket
  <2>2. CASE Fails \/ Unexpected \/ HasBytes
    <3>1. /\ UNCHANGED <<todo, asked, server, arrived, broken, shut>>
          /\ destroyed' = destroyed \/ destroyed' = TRUE
      BY <2>2, Zenon DEF Fails, Unexpected, HasBytes, GiveUp
    <3> QED
      BY <1>1, <3>1
  <2> QED
    BY <2>1, <2>2, Zenon
<1> QED
  BY <1>2, <1>3, SettleStep

\* A continuation of a search that settles preserves IInv.
LEMMA FinishesStep ==
    ASSUME IInv, Matches \/ HasException \/ BreaksOff
    PROVE  IInv'
<1>1. cmd.gives \in Verdicts /\ cmd.eof \in Verdicts /\ "error" \in Verdicts
  BY CmdType DEF IInv, CommandType, Verdicts
<1>2. Finish(cmd.gives) \/ Finish(cmd.eof) \/ Finish("error")
  BY Zenon DEF Matches, HasException, BreaksOff
<1>3. UNCHANGED <<todo, asked, server, arrived, broken, destroyed>>
  BY Zenon DEF Matches, HasException, BreaksOff
<1> QED
  BY <1>1, <1>2, <1>3, FinishStep

\* Every continuation preserves IInv.
LEMMA ContinueStep ==
    ASSUME IInv, Continue
    PROVE  IInv'
<1>1. CASE Accepted
  BY <1>1, AcceptedStep
<1>2. CASE Transported
  BY <1>2, TransportStep
<1>3. CASE Refused \/ ReadsFailure \/ ReadsValue \/ SkipsLine \/ MatchesException
  BY <1>3, ReadsOnStep
<1>4. CASE \/ AcceptedAgain \/ Fails \/ Unexpected \/ HasValue \/ HasAll
           \/ HasBytes \/ Rejects \/ Drained
  BY <1>4, SettlesStep
<1>5. CASE Matches \/ HasException \/ BreaksOff
  BY <1>5, FinishesStep
<1> QED
  BY <1>1, <1>2, <1>3, <1>4, <1>5, Zenon DEF Continue

------------------------------------------------------------------------------
\* The first state satisfies IInv.
LEMMA InitIInv == Init => IInv
<1> SUFFICES ASSUME Init PROVE IInv
  OBVIOUS
<1>1. todo \in {<<c>> : c \in Commands} \cup {<<Transport, c>> : c \in Commands}
  BY Zenon DEF Init
<1>2. Eof \in Token /\ <<>> \in Seq(Token) /\ Len(<<>>) = 0
  BY DEF Eof, Tok, Token, Kinds
<1>3. /\ asked = 1 /\ answered = 0 /\ sent = <<>> /\ fin = FALSE
      /\ arrived = 0 /\ broken = FALSE /\ destroyed = FALSE /\ shut = FALSE
      /\ taken = 0 /\ at = "reply" /\ phase = "waiting" /\ token = Eof
      /\ ended = FALSE /\ verdict = "none"
  BY Zenon DEF Init
<1>4. /\ asked \in 1 .. 2 /\ answered \in 0 .. asked /\ sent \in Seq(Token)
      /\ arrived \in 0 .. Len(sent) /\ taken \in 0 .. arrived
  BY ONLY <1>2, <1>3
<1>5. /\ verdict \in Verdicts \cup {"none"} /\ token \in Token
      /\ phase \in {"waiting", "gap"}
  BY ONLY <1>2, <1>3 DEF Verdicts
<1>6. Typed
  BY ONLY <1>1, <1>3, <1>4, <1>5, Zenon DEF Typed
<1> QED
  BY <1>2, <1>3, <1>6 DEF IInv, Turn, Empty, Fresh, Tagged, OkayLast, JustRead

\* Every step preserves IInv.
LEMMA StepIInv == IInv /\ [Next]_vars => IInv'
<1> SUFFICES ASSUME IInv, [Next]_vars PROVE IInv'
  OBVIOUS
<1>1. CASE ServerAnswers
  BY <1>1, ServerStep
<1>2. CASE ServerCloses
  BY <1>2, CloseStep
<1>3. CASE Arrive
  BY <1>3, ArriveStep
<1>4. CASE Readable \/ StreamEnds \/ StreamBreaks \/ SocketTimesOut
  BY <1>4, StreamStep
<1>5. CASE Continue
  BY <1>5, ContinueStep
<1>6. CASE TimesOut
  BY <1>6, SettlesStep
<1>7. CASE UNCHANGED vars
  BY <1>7 DEF vars, server, socket, parser, IInv, Typed, Turn, Empty, Fresh, Tagged, OkayLast,
              JustRead
<1> QED
  BY <1>1, <1>2, <1>3, <1>4, <1>5, <1>6, <1>7, Zenon DEF Next

\* The reads of a command lead to nothing but reads of commands.
AtOK == at \in Reads \cup {"over"}

\* A read that starts is the read in progress.
LEMMA ReadStays ==
    ASSUME NEW w, StartRead(w) \/ StartReadAll(w)
    PROVE  at' = w
BY Zenon DEF StartRead, StartReadAll

\* A command that settles is over or reads the connection out.
LEMMA FinishStays ==
    ASSUME NEW v, Finish(v)
    PROVE  at' \in {"over", "drainEnd", "drainAll"}
<1>1. at' = "over" \/ at' = "drainEnd" \/ at' = "drainAll"
  BY ReadStays, Zenon DEF Finish, Settle, StartEnd
<1> QED
  BY <1>1

\* The read in progress is one of the command's.
LEMMA StepAtOK == AtOK /\ [Next]_vars => AtOK'
<1> SUFFICES ASSUME AtOK, [Next]_vars PROVE AtOK'
  OBVIOUS
<1>1. {"reply", "secondReply", "failLength", "failText", "valueLength", "valueText", "line",
       "exceptionLine", "all", "drainEnd", "drainAll", "bytes", "over"} \subseteq Reads \cup {"over"}
  BY DEF Reads, Replies, FailReads, ValueReads, LineReads, Drains
<1>2. CASE at' = at
  BY <1>2 DEF AtOK
<1>3. CASE \/ ServerAnswers \/ ServerCloses \/ Arrive
           \/ Readable \/ StreamEnds \/ StreamBreaks \/ SocketTimesOut
  <2>1. at' = at
    BY <1>3, ReadStays, Zenon
       DEF ServerAnswers, ServerCloses, Arrive, Readable, StreamEnds, StreamBreaks,
           SocketTimesOut, parser
  <2> QED
    BY <1>2, <2>1
<1>4. CASE Matches \/ HasException \/ BreaksOff
  <2>1. \E v : Finish(v)
    BY <1>4, Zenon DEF Matches, HasException, BreaksOff
  <2> QED
    BY <1>1, <2>1, FinishStays DEF AtOK
<1>5. CASE \/ AcceptedAgain \/ Fails \/ Unexpected \/ HasValue \/ HasAll
           \/ HasBytes \/ Rejects \/ Drained \/ TimesOut
  <2>1. at' = "over"
    BY <1>5, Zenon DEF AcceptedAgain, Fails, Unexpected, HasValue, HasAll, HasBytes, Rejects,
                       Drained, TimesOut, Settle
  <2> QED
    BY <1>1, <2>1 DEF AtOK
<1>6. CASE Refused \/ ReadsFailure \/ ReadsValue \/ SkipsLine \/ MatchesException \/ Transported
  <2>1. \/ at' = "failLength" \/ at' = "failText" \/ at' = "valueText" \/ at' = "line"
        \/ at' = "exceptionLine" \/ at' = "reply"
    BY <1>6, ReadStays, Zenon DEF Refused, ReadsFailure, ReadsValue, SkipsLine,
                                  MatchesException, Transported, ReadOn
  <2> QED
    BY <1>1, <2>1 DEF AtOK
<1>7. CASE Accepted
  <2>1. \/ at' = "valueLength" \/ at' = "secondReply" \/ at' = "bytes" \/ at' = "line"
        \/ at' = "all" \/ at' = "over"
    BY <1>7, ReadStays, Zenon DEF Accepted, ReadOn, Settle
  <2> QED
    BY <1>1, <2>1 DEF AtOK
<1>8. CASE UNCHANGED vars
  BY <1>2, <1>8 DEF vars, parser
<1> QED
  BY <1>3, <1>4, <1>5, <1>6, <1>7, <1>8, Zenon DEF Next, Continue

\* Every variable of the conversation keeps its type: a read never goes beyond
\* what has arrived, and a promise settles as one of the verdicts (Parser).
THEOREM Typing == Spec => []TypeOK
<1>1. Init => AtOK
  <2>1. Init => at = "reply"
    BY Zenon DEF Init
  <2> QED
    BY <2>1 DEF AtOK, Reads, Replies
<1>2. IInv /\ AtOK => TypeOK
  BY DEF IInv, Typed, AtOK, TypeOK
<1> QED
  BY <1>1, <1>2, InitIInv, StepIInv, StepAtOK, PTL DEF Spec

\* A continuation acts only on what was said to its command: the answer of the
\* transport request is read to its end before the device command is sent
\* (DeviceClient.transport).
THEOREM Own == Spec => []OwnAnswer
<1>1. IInv => OwnAnswer
  BY DEF IInv, JustRead, OwnAnswer
<1> QED
  BY <1>1, InitIInv, StepIInv, PTL DEF Spec
=============================================================================
