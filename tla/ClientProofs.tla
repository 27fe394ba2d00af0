---------------------------- MODULE ClientProofs ----------------------------
(***************************************************************************)
(* Proofs about Client: what a call of the client comes to, for every      *)
(* command, any length of its output and any number of lists a tracker is  *)
(* told.                                                                   *)
(***************************************************************************)
EXTENDS Client, ConversationsProofs

(***************************************************************************)
(* The running command.  Its answer lies behind the OKAY of the transport  *)
(* request, if there was one.  Split: where its answer begins.  Told: the  *)
(* server has said nothing to it before it was asked.                      *)
(***************************************************************************)
Split ==
    /\ asked - 1 <= taken
    /\ \A i \in 1 .. Len(sent) : i >= asked => sent[i].of = asked
    /\ asked = 2 => sent[1] = Tok("OKAY", 1)
    /\ \A i \in 1 .. Len(sent) : sent[i].kind \notin Lost
Told == answered < asked => Len(sent) = asked - 1

HasToken == phase = "gap" /\ token.kind \notin Lost
SoFar == taken + 1 - asked
Before == IF HasToken THEN SoFar - 1 ELSE SoFar

PrefixOf(said, a) == Len(said) <= Len(a) /\ \A i \in 1 .. Len(said) : said[i] = a[i]
\* A tracker has the connection; its lists are sent beyond the answer.
Followed == at \in {"list", "gone", "idle"} \/ (at = "drainEnd" /\ verdict = "handed")
Answered == ~Followed /\ answered = asked => \E a \in Answers(cmd) : PrefixOf(Said, a)

\* Which reads there are, and when a verdict is decided.
Places ==
    /\ at \in Reads \cup {"over", "list", "gone", "idle"}
    /\ at \in Reads \ {"drainEnd", "drainAll"} => verdict = "none"
    /\ at \in {"list", "gone", "idle"} => verdict = "handed"
    /\ at \in {"drainEnd", "drainAll", "over"} => verdict # "none"
    /\ verdict = "handed" => answered = asked /\ Len(todo) = 1
    /\ verdict = "handed" => at # "drainAll"

\* No more is read: the socket is destroyed, or a 'timeout' has half-closed it.
Left == destroyed \/ (broken /\ shut)

\* What a continuation is given when the stream is over or has failed.
Closed ==
    /\ ended => fin /\ taken = Len(sent)
    /\ fin => arrived = Len(sent)
    /\ broken => Left
    /\ phase = "gap" /\ token.kind = "EOF" => ended
    /\ phase = "gap" /\ token.kind = "ERROR" => broken

\* Where command c stands when n tokens of its answer lie before the pending read,
\* and h of them were read.
Unmatched(c, said, n) == \A i \in 2 .. n : said[i] \notin c.accept \cup c.refuse
Doomed(c, said, h) ==
    \/ h >= 1 /\ said[1] = "FAIL"
    \/ h >= 2 /\ said[1] = "OKAY" /\ said[2] = "FAIL" /\ c.reads = "reply"
Standing(read, c, said, n, h) ==
    /\ read = "reply" => n = 0
    /\ read = "secondReply" => c.reads = "reply" /\ n = 1 /\ said[1] = "OKAY"
    /\ read = "valueLength" => c.reads = "value" /\ n = 1 /\ said[1] = "OKAY"
    /\ read = "valueText" =>
          c.reads = "value" /\ n = 2 /\ said[1] = "OKAY" /\ said[2] = "LEN"
    /\ read = "bytes" => c.reads = "bytes" /\ n = 1 /\ said[1] = "OKAY"
    /\ read = "all" => c.reads = "all" /\ h >= 1 /\ said[1] = "OKAY"
    /\ read = "line" =>
          c.reads = "search" /\ n >= 1 /\ said[1] = "OKAY" /\ Unmatched(c, said, n)
    /\ read = "exceptionLine" =>
          /\ c.reads = "search" /\ n >= 2 /\ said[1] = "OKAY" /\ Unmatched(c, said, n - 1)
          /\ said[n] = "exception" /\ "exception" \in c.refuse
    /\ read \in FailReads => Doomed(c, said, h)

\* A verdict that follows from the h tokens that were read, whatever else is said
\* or cut off.
Firm(c, said, h, v) == \A n \in h .. Len(said) : Outcome(c, SubSeq(said, 1, n)) = v
Decided(c, said, h, v, failed) ==
    Firm(c, said, h, v) \/ (failed /\ v = "error") \/ (c.timer /\ v = "handed")

Winding(c, said, h) == c.reads = "search" /\ h >= 1 /\ said[1] = "OKAY"

Accounted(c, said, h, v, gone) ==
    /\ v = "handed" /\ ~c.timer =>
          \A i \in 1 .. Len(said) : (i > h) <=> (said[i] = "payload")
    /\ v = "handed" => \A i \in 1 .. h : said[i] # "payload"
    /\ v # "handed" => gone \/ h = Len(said) \/ LeavesUnread(c)
    /\ (\E i \in 1 .. h : said[i] = "FAIL" \/ (said[i] = "JUNK" /\ ~c.lenient)) => gone

\* A 'timeout' gives up what is still to be read, unless the answer was a refusal.
NoRefusal(said, h) == \A i \in 1 .. h : said[i] \notin {"FAIL", "JUNK"}
GivenUp(said, h, v) == broken /\ shut /\ v = "error" /\ NoRefusal(said, h)

Settling ==
    /\ at \in {"drainEnd", "drainAll"} /\ verdict # "handed" =>
          Winding(cmd, Said, SoFar) /\ Decided(cmd, Said, SoFar, verdict, broken)
    /\ Over =>
          /\ Decided(cmd, Said, SoFar, verdict, broken)
          /\ Accounted(cmd, Said, SoFar, verdict, destroyed) \/ GivenUp(Said, SoFar, verdict)
          /\ answered = asked \/ fin \/ destroyed \/ GivenUp(Said, SoFar, verdict)

(***************************************************************************)
(* The tracker and the retry.                                              *)
(***************************************************************************)
ViewInv ==
    /\ view = last
    /\ TracksDevices => known = last
    /\ at = "list" => TracksDevices \/ TracksPids
    /\ at = "list" /\ ~TracksDevices => known = Nobody /\ last = Nobody
    /\ verdict # "handed" => known = Nobody /\ last = Nobody
RunsInv ==
    /\ runs \in 1 .. 3 /\ service \in BOOLEAN
    /\ ~service => runs <= 2 /\ (user => runs = 1)

------------------------------------------------------------------------------
(***************************************************************************)
(* What the answers to a command look like, and what they mean.            *)
(***************************************************************************)
\* What the commands have in common, beyond their types.
CommandFacts(c) ==
    /\ c.eof # "handed" /\ c.accept \cap c.refuse = {} /\ "payload" \notin c.accept \cup c.refuse
    /\ "exception" \in c.refuse => c.eof = "error"
    /\ c.lenient => c.reads = "value"
    /\ c.gives = "handed" => c.reads \in {"nothing", "bytes", "search"}
    /\ c.drain # "none" => c.reads = "search" /\ c.gives = "ok"
    /\ c.reads = "search" /\ c.drain = "none" =>
          c.gives = "handed" /\ c.timer /\ c.accept = {"good"} /\ c.refuse = {}
    /\ c.timer => c.reads = "search" /\ c.drain = "none"
    /\ c.reads = "bytes" =>
          \/ c.gives = "handed" /\ c.accept = {} /\ c.refuse = {}
          \/ LeavesUnread(c)

\* The commands that read one thing and judge it by its text.
LEMMA PlainFacts ==
    ASSUME NEW r \in ReadKinds \ {"search"},
           NEW c \in {Server(r), Device(r), Accepting(Server(r), {"good"}),
                      Accepting(Device(r), {"good"}),
                      Accepting(Server(r), {"good", "empty"})},
           r # "bytes"
    PROVE  CommandFacts(c)
<1>0. \E o \in {"server", "device"}, a \in {{}, {"good"}, {"good", "empty"}} :
         c = [on |-> o, reads |-> r, accept |-> a, refuse |-> {}, gives |-> "ok",
              eof |-> "error", drain |-> "none", timer |-> FALSE, lenient |-> FALSE]
  <2>1. CASE c = Server(r)
    BY <2>1 DEF Server
  <2>2. CASE c = Device(r)
    BY <2>2 DEF Server, Device
  <2>3. CASE c = Accepting(Server(r), {"good"})
    BY <2>3 DEF Server, Accepting
  <2>4. CASE c = Accepting(Device(r), {"good"})
    BY <2>4 DEF Server, Device, Accepting
  <2>5. CASE c = Accepting(Server(r), {"good", "empty"})
    BY <2>5 DEF Server, Accepting
  <2> QED
    BY <2>1, <2>2, <2>3, <2>4, <2>5
<1>1. ~LeavesUnread(c)
  <2>1. c.reads = r
    BY <1>0
  <2>2. IsInstalled.reads = "bytes" /\ FrameBuffer.reads = "bytes"
    BY DEF IsInstalled, FrameBuffer, Server, Device, Accepting, Handing
  <2> QED
    BY <2>1, <2>2 DEF LeavesUnread
<1> QED
  BY <1>0, <1>1 DEF CommandFacts, ReadKinds

\* Every command of the client has these facts.
LEMMA CommandsFacts == \A c \in Commands : CommandFacts(c)
<1>0. \A c \in Commands : c.reads # "bytes" => ~LeavesUnread(c)
  BY DEF LeavesUnread, IsInstalled, FrameBuffer, Server, Device, Accepting, Handing
<1>1. \A c \in {Kill, Transport, Attach, Detach, Remount, Connect, Disconnect, Devices,
                DevicesWithPaths, Forward, WaitForDevice, GetDevicePath, GetSerialNo, GetState,
                ListForwards, Reverse, ListReverses, Reboot, GetFeatures, GetPackages,
                GetProperties, Root, TcpIp, Usb} : CommandFacts(c)
  <2>1. {"nothing", "value", "reply", "all"} \subseteq ReadKinds \ {"search", "bytes"}
    BY DEF ReadKinds
  <2> QED
    BY <2>1, PlainFacts DEF Kill, Transport, Attach, Detach, Remount, Connect, Disconnect, Devices,
                DevicesWithPaths, Forward, WaitForDevice, GetDevicePath, GetSerialNo, GetState,
                ListForwards, Reverse, ListReverses, Reboot, GetFeatures, GetPackages,
                GetProperties, Root, TcpIp, Usb
<1>2. \A c \in {TrackDevices, Local, Log, Logcat, Shell, SyncService, Tcp, TrackJdwp} :
         CommandFacts(c)
  <2>1. \A c \in {Handing(Server("nothing")), Handing(Device("nothing"))} : CommandFacts(c)
    BY DEF CommandFacts, LeavesUnread, IsInstalled, FrameBuffer, Handing, Server, Device, Accepting
  <2> QED
    BY <2>1 DEF TrackDevices, Local, Log, Logcat, Shell, SyncService, Tcp, TrackJdwp
<1>3. CommandFacts(Version)
  BY DEF Version, CommandFacts, LeavesUnread, IsInstalled, FrameBuffer, Handing, Server, Device,
         Accepting
<1>4. CommandFacts(Screencap)
  BY DEF Screencap, CommandFacts, LeavesUnread, IsInstalled, FrameBuffer, Handing, Server, Device,
         Accepting
<1>5. CommandFacts(FrameBuffer) /\ CommandFacts(IsInstalled)
  BY DEF CommandFacts, LeavesUnread, IsInstalled, FrameBuffer, Handing, Server, Device, Accepting
<1>6. /\ CommandFacts(Clear) /\ CommandFacts(WaitBootComplete) /\ CommandFacts(Install)
      /\ CommandFacts(Uninstall)
  BY DEF CommandFacts, LeavesUnread, IsInstalled, FrameBuffer, Handing, Server, Device, Accepting,
         Searching, Clear, WaitBootComplete, Install, Uninstall
<1>7. CommandFacts(StartActivity) /\ CommandFacts(StartService)
  BY DEF CommandFacts, LeavesUnread, IsInstalled, FrameBuffer, Handing, Server, Device, Accepting,
         Searching, StartActivity, StartService
<1>8. CommandFacts(Monkey)
  BY DEF CommandFacts, LeavesUnread, IsInstalled, FrameBuffer, Handing, Server, Device, Accepting,
         Searching, Monkey
<1> QED
  BY <1>1, <1>2, <1>3, <1>4, <1>5, <1>6, <1>7, <1>8 DEF Commands

\* After OKAY comes a body.
LEMMA AnswerShape ==
    ASSUME NEW c \in CommandType, NEW a \in Answers(c)
    PROVE  /\ a \in Seq(Kinds) /\ Len(a) >= 1
           /\ \/ a[1] = "FAIL" /\ \A i \in 2 .. Len(a) : a[i] \in {"LEN", "ZERO", "noise"}
              \/ a[1] = "JUNK" /\ Len(a) = 1
              \/ a[1] = "OKAY" /\ \E b \in Bodies(c) :
                    /\ b \in Seq(Kinds) /\ Len(a) = Len(b) + 1
                    /\ \A i \in 2 .. Len(a) : a[i] = b[i - 1]
<1>0. a \in Seq(Kinds)
  BY AnswerKinds
<1>1. CASE a \in Refusals
  <2>1. a = <<"FAIL", "LEN", "noise">> \/ a = <<"FAIL", "ZERO">>
    BY <1>1 DEF Refusals
  <2>2. Len(a) >= 1 /\ a[1] = "FAIL" /\ \A i \in 2 .. Len(a) : a[i] \in {"LEN", "ZERO", "noise"}
    BY <2>1
  <2> QED
    BY <1>0, <2>2
<1>2. CASE a = <<"JUNK">>
  BY <1>0, <1>2
<1>3. CASE a \in {<<"OKAY">> \o b : b \in Bodies(c)}
  <2>1. PICK b \in Bodies(c) : a = <<"OKAY">> \o b
    BY <1>3, Zenon
  <2>2. b \in Seq(Kinds)
    BY BodyKinds DEF Spoken
  <2>3. <<"OKAY">> \in Seq(Kinds) /\ Len(<<"OKAY">>) = 1 /\ <<"OKAY">>[1] = "OKAY"
    BY DEF Kinds
  <2>4. Len(a) = 1 + Len(b) /\ \A i \in 1 .. 1 + Len(b) :
           a[i] = IF i <= 1 THEN <<"OKAY">>[i] ELSE b[i - 1]
    BY <2>1, <2>2, <2>3, ConcatProperties
  <2>5. Len(a) = Len(b) + 1 /\ Len(a) >= 1 /\ a[1] = "OKAY" /\ \A i \in 2 .. Len(a) : a[i] = b[i - 1]
    BY <2>2, <2>3, <2>4
  <2> QED
    BY <1>0, <2>2, <2>5
<1> QED
  BY <1>1, <1>2, <1>3, Zenon DEF Answers

OkayBody(c, a) ==
    /\ c.reads = "nothing" =>
          /\ \A i \in 2 .. Len(a) : a[i] = "payload"
          /\ c.gives # "handed" => Len(a) = 1
    /\ c.reads = "reply" =>
          /\ Len(a) >= 2
          /\ \/ a[2] \in {"OKAY", "JUNK"} /\ Len(a) = 2
             \/ a[2] = "FAIL"
    /\ c.reads = "value" => \/ Len(a) = 3 /\ a[2] = "LEN" /\ a[3] \in {"good", "bad"}
                            \/ Len(a) = 2 /\ a[2] = "ZERO"
    /\ c.reads = "all" => \A i \in 2 .. Len(a) : a[i] \in {"good", "noise"}
    /\ c.reads = "bytes" =>
          /\ Len(a) <= 3
          /\ Len(a) >= 2 => a[2] \in {"good", "bad"}
          /\ Len(a) = 3 => a[3] = "payload"
    /\ c.reads = "search" =>
          \A i \in 2 .. Len(a) : a[i] \in Texts /\ (a[i] = "payload" => i > 2 /\ a[i - 1] = "good")

\* What follows an OKAY in an answer fits the command's reads.
LEMMA OkayShape ==
    ASSUME NEW c \in CommandType, "payload" \notin c.accept \cup c.refuse,
           NEW a \in Answers(c), a[1] = "OKAY"
    PROVE  OkayBody(c, a)
<1>1. PICK b \in Bodies(c) : /\ b \in Seq(Kinds) /\ Len(a) = Len(b) + 1
                             /\ \A i \in 2 .. Len(a) : a[i] = b[i - 1]
  BY AnswerShape
<1>2. Len(b) \in Nat /\ Len(a) \in Nat
  BY <1>1
<1>3. c.reads = "nothing" => /\ \A i \in 2 .. Len(a) : a[i] = "payload"
                             /\ c.gives # "handed" => Len(a) = 1
  <2> SUFFICES ASSUME c.reads = "nothing"
               PROVE  /\ \A i \in 2 .. Len(a) : a[i] = "payload"
                      /\ c.gives # "handed" => Len(a) = 1
    OBVIOUS
  <2>1. b \in Payload(c)
    BY <1>1 DEF Bodies
  <2>2. b = <<>> \/ (b = <<"payload">> /\ c.gives = "handed")
    <3>1. CASE c.gives = "handed"
      <4>1. Payload(c) = {<<>>, <<"payload">>}
        BY <3>1, Zenon DEF Payload
      <4> QED
        BY <2>1, <3>1, <4>1, Zenon
    <3>2. CASE c.gives # "handed"
      <4>1. Payload(c) = {<<>>}
        BY <3>2, Zenon DEF Payload
      <4> QED
        BY <2>1, <4>1, Zenon
    <3> QED
      BY <3>1, <3>2
  <2>3. Len(b) <= 1 /\ (Len(b) = 1 => b[1] = "payload" /\ c.gives = "handed")
    <3>1. CASE b = <<>>
      BY <3>1
    <3>2. CASE b = <<"payload">> /\ c.gives = "handed"
      BY <3>2
    <3> QED
      BY <2>2, <3>1, <3>2
  <2> DEFINE k == Len(b)
  <2> DEFINE m == Len(a)
  <2>a. k \in Nat /\ k <= 1 /\ m = k + 1
    BY <1>1, <1>2, <2>3
  <2>b. Len(a) = m /\ Len(b) = k
    OBVIOUS
  <2> HIDE DEF k, m
  <2>c. m <= 2 /\ (m = 2 => k = 1) /\ (m # 1 => m = 2) /\ \A i \in 2 .. m : i = 2 /\ m = 2
    BY <2>a
  <2>4. Len(a) <= 2 /\ (Len(a) = 2 => Len(b) = 1) /\ (Len(a) # 1 => Len(a) = 2)
    BY <2>b, <2>c, Zenon
  <2>5. \A i \in 2 .. Len(a) : i = 2 /\ Len(a) = 2
    BY <2>b, <2>c, Zenon
  <2>6. Len(a) = 2 => a[2] = b[1]
    <3>1. Len(a) = 2 => 2 \in 2 .. Len(a) /\ 2 - 1 = 1
      OBVIOUS
    <3> QED
      BY <1>1, <3>1
  <2>7. \A i \in 2 .. Len(a) : a[i] = "payload"
    BY <2>3, <2>4, <2>5, <2>6
  <2> QED
    BY <2>3, <2>4, <2>7
<1>4. c.reads = "reply" => /\ Len(a) >= 2
                           /\ \/ a[2] \in {"OKAY", "JUNK"} /\ Len(a) = 2
                              \/ a[2] = "FAIL"
  <2> SUFFICES ASSUME c.reads = "reply"
               PROVE  Len(a) >= 2 /\ ((a[2] \in {"OKAY", "JUNK"} /\ Len(a) = 2) \/ a[2] = "FAIL")
    OBVIOUS
  <2>1. b \in {<<"OKAY">>, <<"JUNK">>} \cup Refusals
    BY <1>1 DEF Bodies
  <2>2. \/ Len(b) = 1 /\ b[1] \in {"OKAY", "JUNK"}
        \/ Len(b) >= 2 /\ b[1] = "FAIL"
    BY <2>1 DEF Refusals
  <2> QED
    BY <1>1, <1>2, <2>2
<1>5. c.reads = "value" => \/ Len(a) = 3 /\ a[2] = "LEN" /\ a[3] \in {"good", "bad"}
                           \/ Len(a) = 2 /\ a[2] = "ZERO"
  <2> SUFFICES ASSUME c.reads = "value"
               PROVE  \/ Len(a) = 3 /\ a[2] = "LEN" /\ a[3] \in {"good", "bad"}
                      \/ Len(a) = 2 /\ a[2] = "ZERO"
    OBVIOUS
  <2>1. b \in {<<"LEN", "good">>, <<"LEN", "bad">>, <<"ZERO">>}
    BY <1>1 DEF Bodies
  <2>2. \/ Len(b) = 2 /\ b[1] = "LEN" /\ b[2] \in {"good", "bad"}
        \/ Len(b) = 1 /\ b[1] = "ZERO"
    BY <2>1
  <2> QED
    BY <1>1, <1>2, <2>2
<1>6. c.reads = "all" => \A i \in 2 .. Len(a) : a[i] \in {"good", "noise"}
  <2> SUFFICES ASSUME c.reads = "all"
               PROVE  \A i \in 2 .. Len(a) : a[i] \in {"good", "noise"}
    OBVIOUS
  <2>1. b \in {<<>>, <<"good">>, <<"noise">>, <<"noise", "good">>}
    BY <1>1 DEF Bodies
  <2>2. \A i \in 1 .. Len(b) : b[i] \in {"good", "noise"}
    BY <2>1
  <2> QED
    BY <1>1, <1>2, <2>2
<1>7. c.reads = "bytes" => /\ Len(a) <= 3
                           /\ Len(a) >= 2 => a[2] \in {"good", "bad"}
                           /\ Len(a) = 3 => a[3] = "payload"
  <2> SUFFICES ASSUME c.reads = "bytes"
               PROVE  /\ Len(a) <= 3
                      /\ Len(a) >= 2 => a[2] \in {"good", "bad"}
                      /\ Len(a) = 3 => a[3] = "payload"
    OBVIOUS
  <2>1. b \in {<<>>, <<"bad">>, <<"good">>, <<"good", "payload">>}
    BY <1>1 DEF Bodies
  <2>2. /\ Len(b) <= 2 /\ (Len(b) >= 1 => b[1] \in {"good", "bad"})
        /\ Len(b) = 2 => b[2] = "payload"
    BY <2>1
  <2>3. /\ Len(a) >= 2 => a[2] = b[1] /\ Len(b) >= 1
        /\ Len(a) = 3 => a[3] = b[2] /\ Len(b) = 2
    <3>1. \A i \in 2 .. Len(a) : a[i] = b[i - 1]
      BY <1>1
    <3>2. Len(a) = Len(b) + 1
      BY <1>1
    <3>3. Len(a) >= 2 => 2 \in 2 .. Len(a) /\ 2 - 1 = 1
      BY <1>2
    <3>4. Len(a) = 3 => 3 \in 2 .. Len(a) /\ 3 - 1 = 2
      OBVIOUS
    <3>5. Len(a) >= 2 => a[2] = b[1] /\ Len(b) >= 1
      BY <1>2, <3>1, <3>2, <3>3
    <3>6. Len(a) = 3 => a[3] = b[2] /\ Len(b) = 2
      <4>1. Len(a) = 3 => a[3] = b[3 - 1]
        BY <3>1, <3>4
      <4>2. Len(a) = 3 => a[3] = b[2]
        BY <3>4, <4>1
      <4> DEFINE k == Len(b)
      <4>3. k \in Nat /\ Len(a) = k + 1
        BY <1>2, <3>2
      <4> HIDE DEF k
      <4>a. k + 1 = 3 => k = 2
        BY <4>3
      <4>4. Len(a) = 3 => k = 2
        BY <4>3, <4>a, Zenon
      <4> QED
        BY <4>2, <4>4 DEF k
    <3> QED
      BY <3>5, <3>6
  <2> QED
    BY <1>1, <1>2, <2>2, <2>3
<1>8. c.reads = "search" =>
        \A i \in 2 .. Len(a) : a[i] \in Texts /\ (a[i] = "payload" => i > 2 /\ a[i - 1] = "good")
  <2> SUFFICES ASSUME c.reads = "search"
               PROVE  \A i \in 1 .. Len(b) :
                         b[i] \in Texts /\ (b[i] = "payload" => i > 1 /\ b[i - 1] = "good")
    BY <1>1, <1>2
  <2>1. \A l \in Lines(c) : /\ l \in Seq(Texts)
                            /\ \A i \in 1 .. Len(l) : l[i] # "payload"
    <3>1. c.accept \cup c.refuse \cup {"noise"} \subseteq Texts \ {"payload"}
      BY DEF CommandType, Texts
    <3> SUFFICES ASSUME NEW n \in 0 .. MaxLines,
                        NEW l \in [1 .. n -> c.accept \cup c.refuse \cup {"noise"}]
                 PROVE  l \in Seq(Texts) /\ \A i \in 1 .. Len(l) : l[i] # "payload"
      BY DEF Lines
    <3>2. n \in Nat /\ l \in [1 .. n -> Texts \ {"payload"}]
      BY <3>1, ConversationsAssumption DEF ConversationsAssumption
    <3> QED
      BY <3>2
  <2>2. CASE b \in Lines(c)
    BY <2>1, <2>2
  <2>3. CASE b \in {l \o <<"good">> \o p : l \in Lines(c), p \in Payload(c)}
    <3>1. PICK l \in Lines(c), p \in Payload(c) : b = l \o <<"good">> \o p
      BY <2>3
    <3>2. p = <<>> \/ p = <<"payload">>
      BY Zenon DEF Payload
    <3>a. l \in Seq(Texts) /\ <<"good">> \in Seq(Texts) /\ "payload" \in Texts
          /\ <<>> \in Seq(Texts) /\ <<"payload">> \in Seq(Texts)
      BY <2>1 DEF Texts
    <3>b. p \in Seq(Texts)
      BY <3>2, <3>a, Zenon
    <3>c. Len(p) <= 1 /\ (Len(p) = 1 => p[1] = "payload")
          /\ Len(<<"good">>) = 1 /\ <<"good">>[1] = "good"
      <4>1. CASE p = <<>>
        BY <4>1
      <4>2. CASE p = <<"payload">>
        BY <4>2
      <4> QED
        BY <3>2, <4>1, <4>2
    <3>3. p \in Seq(Texts) /\ <<"good">> \in Seq(Texts) /\ l \in Seq(Texts)
          /\ Len(p) <= 1 /\ (Len(p) = 1 => p[1] = "payload")
          /\ Len(<<"good">>) = 1 /\ <<"good">>[1] = "good" /\ Len(l) \in Nat /\ Len(p) \in Nat
      BY <3>a, <3>b, <3>c
    <3> DEFINE m == l \o <<"good">>
    <3>4. m \in Seq(Texts) /\ Len(m) = Len(l) + 1
          /\ \A i \in 1 .. Len(l) + 1 : m[i] = IF i <= Len(l) THEN l[i] ELSE <<"good">>[i - Len(l)]
      BY <3>3, ConcatProperties
    <3>5. /\ m[Len(l) + 1] = "good"
          /\ \A i \in 1 .. Len(l) : m[i] = l[i]
      BY <3>3, <3>4
    <3>6. b = m \o p
      BY <3>1
    <3> HIDE DEF m
    <3>7. b \in Seq(Texts) /\ Len(b) = Len(m) + Len(p)
          /\ \A i \in 1 .. Len(m) + Len(p) : b[i] = IF i <= Len(m) THEN m[i] ELSE p[i - Len(m)]
      BY <3>3, <3>4, <3>6, ConcatProperties
    <3>8. \A i \in 1 .. Len(l) + 1 : b[i] = m[i]
      BY <3>3, <3>4, <3>7
    <3>9. \A i \in 1 .. Len(b) : i <= Len(l) + 1 => b[i] # "payload"
      <4> SUFFICES ASSUME NEW i \in 1 .. Len(b), i <= Len(l) + 1 PROVE b[i] # "payload"
        OBVIOUS
      <4>1. CASE i <= Len(l)
        <5>1. i \in 1 .. Len(l) /\ i \in 1 .. Len(l) + 1
          BY <3>3, <4>1
        <5> QED
          BY <2>1, <3>5, <3>8, <5>1
      <4>2. CASE i = Len(l) + 1
        BY <3>3, <3>5, <3>8, <4>2
      <4> QED
        BY <3>3, <4>1, <4>2
    <3>10. \A i \in 1 .. Len(b) : i > Len(l) + 1 => i - 1 = Len(l) + 1
      BY <3>3, <3>4, <3>7
    <3>11. b[Len(l) + 1] = "good"
      BY <3>3, <3>5, <3>8
    <3>12. Len(l) + 1 > 0
      BY <3>3
    <3>13. \A i \in 1 .. Len(b) : b[i] \in Texts
      BY <3>7
    <3>14. \A i \in 1 .. Len(b) : b[i] = "payload" => i > 1 /\ b[i - 1] = "good"
      BY <3>3, <3>9, <3>10, <3>11
    <3> QED
      BY <3>13, <3>14
  <2> DEFINE S == {l \o <<"good">> \o p : l \in Lines(c), p \in Payload(c)}
  <2>4. Bodies(c) = Lines(c) \cup S
    BY DEF Bodies
  <2>a. b \in S => \A i \in 1 .. Len(b) :
                      b[i] \in Texts /\ (b[i] = "payload" => i > 1 /\ b[i - 1] = "good")
    BY <2>3
  <2> HIDE DEF S
  <2>5. b \in Lines(c) \/ b \in S
    BY <1>1, <2>4
  <2> QED
    BY <2>2, <2>5, <2>a
<1> QED
  BY <1>3, <1>4, <1>5, <1>6, <1>7, <1>8 DEF OkayBody

\* The outcome, from the tokens of the answer themselves.
LEMMA OutcomeRefused ==
    ASSUME NEW c, NEW t \in Seq(Kinds)
    PROVE  /\ t = <<>> \/ t[1] = "FAIL" => Outcome(c, t) = "error"
           /\ t # <<>> /\ t[1] = "JUNK" => Outcome(c, t) = IF c.lenient THEN "ok" ELSE "error"
<1>1. t = <<>> => Outcome(c, t) = "error"
  BY DEF Outcome
<1>2. t # <<>> /\ t[1] = "FAIL" => Outcome(c, t) = "error"
  BY DEF Outcome
<1>3. t # <<>> /\ t[1] = "JUNK" => Outcome(c, t) = IF c.lenient THEN "ok" ELSE "error"
  BY DEF Outcome
<1> QED
  BY <1>1, <1>2, <1>3, Zenon

\* After OKAY the outcome is what the rest means to the command.
LEMMA OutcomeOkay ==
    ASSUME NEW c, NEW t \in Seq(Kinds), Len(t) >= 1, t[1] = "OKAY"
    PROVE  \E b \in Seq(Kinds) : /\ Outcome(c, t) = Meaning(c, b) /\ Len(b) = Len(t) - 1
                                 /\ \A i \in 1 .. Len(b) : b[i] = t[i + 1]
<1>1. t # <<>>
  OBVIOUS
<1>2. Outcome(c, t) = Meaning(c, Tail(t))
  BY <1>1 DEF Outcome
<1>3. Tail(t) \in Seq(Kinds) /\ Len(Tail(t)) = Len(t) - 1
      /\ \A i \in 1 .. Len(Tail(t)) : Tail(t)[i] = t[i + 1]
  BY <1>1
<1> QED
  BY <1>2, <1>3

\* A command that reads nothing has its outcome with the OKAY.
LEMMA OutcomeNothing ==
    ASSUME NEW c, NEW t \in Seq(Kinds), Len(t) >= 1, t[1] = "OKAY", c.reads = "nothing"
    PROVE  Outcome(c, t) = c.gives
<1>1. PICK b \in Seq(Kinds) : Outcome(c, t) = Meaning(c, b)
  BY OutcomeOkay
<1> QED
  BY <1>1 DEF Meaning

\* A command with a second reply resolves on a second OKAY only.
LEMMA OutcomeReply ==
    ASSUME NEW c, NEW t \in Seq(Kinds), Len(t) >= 1, t[1] = "OKAY", c.reads = "reply"
    PROVE  /\ Len(t) >= 2 /\ t[2] = "OKAY" => Outcome(c, t) = "ok"
           /\ Len(t) = 1 \/ t[2] # "OKAY" => Outcome(c, t) = "error"
<1>1. PICK b \in Seq(Kinds) : /\ Outcome(c, t) = Meaning(c, b) /\ Len(b) = Len(t) - 1
                              /\ \A i \in 1 .. Len(b) : b[i] = t[i + 1]
  BY OutcomeOkay
<1>2. Meaning(c, b) = IF b # <<>> /\ b[1] = "OKAY" THEN "ok" ELSE "error"
  BY DEF Meaning
<1>3. Len(t) = 1 => b = <<>>
  BY <1>1
<1>4. Len(t) >= 2 => b # <<>> /\ b[1] = t[2]
  <2> SUFFICES ASSUME Len(t) >= 2 PROVE b # <<>> /\ b[1] = t[2]
    OBVIOUS
  <2>1. Len(b) >= 1
    BY <1>1
  <2>2. 1 \in 1 .. Len(b) /\ 1 + 1 = 2
    BY <2>1
  <2> QED
    BY <1>1, <2>1, <2>2
<1>5. Len(t) = 1 \/ Len(t) >= 2
  <2> DEFINE k == Len(t)
  <2>1. k \in Nat /\ k >= 1
    OBVIOUS
  <2> HIDE DEF k
  <2>2. k = 1 \/ k >= 2
    BY <2>1
  <2> QED
    BY <2>2 DEF k
<1> QED
  BY <1>1, <1>2, <1>3, <1>4, <1>5

\* A command that reads a value resolves if the whole value is good.
LEMMA OutcomeValue ==
    ASSUME NEW c, NEW t \in Seq(Kinds), Len(t) >= 1, t[1] = "OKAY", c.reads = "value"
    PROVE  /\ Len(t) = 3 => Outcome(c, t) = IF Good(c, {t[3]}) THEN "ok" ELSE "error"
           /\ Len(t) = 2 /\ t[2] = "ZERO" =>
                 Outcome(c, t) = IF Good(c, {"empty"}) THEN "ok" ELSE "error"
           /\ Len(t) = 1 \/ (Len(t) = 2 /\ t[2] # "ZERO") => Outcome(c, t) = "error"
<1>1. PICK b \in Seq(Kinds) : /\ Outcome(c, t) = Meaning(c, b) /\ Len(b) = Len(t) - 1
                              /\ \A i \in 1 .. Len(b) : b[i] = t[i + 1]
  BY OutcomeOkay
<1>2. Meaning(c, b) = IF \/ Len(b) = 2 /\ Good(c, {b[2]})
                         \/ b = <<"ZERO">> /\ Good(c, {"empty"})
                      THEN "ok" ELSE "error"
  BY DEF Meaning
<1>3. Len(b) = 1 => (b = <<"ZERO">> <=> b[1] = "ZERO")
  OBVIOUS
<1>4. Len(b) # 1 => b # <<"ZERO">>
  OBVIOUS
<1>5. Len(t) = 3 => Len(b) = 2 /\ b[2] = t[3]
  <2>1. Len(t) = 3 => Len(b) = 2
    BY <1>1
  <2>2. Len(t) = 3 => 2 \in 1 .. Len(b) /\ 2 + 1 = 3
    BY <2>1
  <2> QED
    BY <1>1, <2>1, <2>2
<1>6. Len(t) = 2 => Len(b) = 1 /\ b[1] = t[2]
  <2>1. Len(t) = 2 => Len(b) = 1
    BY <1>1
  <2>2. Len(t) = 2 => 1 \in 1 .. Len(b) /\ 1 + 1 = 2
    BY <2>1, SMTT(20)
  <2> QED
    BY <1>1, <2>1, <2>2
<1>7. Len(t) = 1 => Len(b) = 0
  BY <1>1
<1>8. CASE Len(t) = 3
  <2>1. Len(b) = 2 /\ Len(b) # 1 /\ Len(t) # 2 /\ Len(t) # 1
    BY <1>5, <1>8
  <2>2. b # <<"ZERO">> /\ b[2] = t[3]
    BY <1>4, <1>5, <1>8, <2>1, Zenon
  <2>3. Meaning(c, b) = IF Good(c, {t[3]}) THEN "ok" ELSE "error"
    BY <1>2, <2>1, <2>2, Zenon
  <2> QED
    BY <1>1, <1>8, <2>1, <2>3, Zenon
<1>9. CASE Len(t) = 2
  <2>1. Len(b) # 2
    BY <1>6, <1>9
  <2> QED
    BY <1>1, <1>2, <1>3, <1>6, <1>9, <2>1
<1>10. CASE Len(t) = 1
  <2>1. Len(b) # 2 /\ Len(b) # 1
    BY <1>7, <1>10
  <2> QED
    BY <1>1, <1>2, <1>4, <1>10, <2>1
<1> QED
  BY <1>8, <1>9, <1>10

\* A command that reads all judges all the texts together.
LEMMA OutcomeAll ==
    ASSUME NEW c, NEW t \in Seq(Kinds), Len(t) >= 1, t[1] = "OKAY", c.reads = "all"
    PROVE  Outcome(c, t) = IF Good(c, {t[i] : i \in 2 .. Len(t)}) THEN "ok" ELSE "error"
<1>1. PICK b \in Seq(Kinds) : /\ Outcome(c, t) = Meaning(c, b) /\ Len(b) = Len(t) - 1
                              /\ \A i \in 1 .. Len(b) : b[i] = t[i + 1]
  BY OutcomeOkay
<1>2. Meaning(c, b) = IF Good(c, {b[i] : i \in 1 .. Len(b)}) THEN "ok" ELSE "error"
  BY DEF Meaning
<1>3. {b[i] : i \in 1 .. Len(b)} = {t[i] : i \in 2 .. Len(t)}
  <2>1. \A i \in 1 .. Len(b) : i + 1 \in 2 .. Len(t) /\ b[i] = t[i + 1]
    BY <1>1
  <2>2. \A i \in 2 .. Len(t) : i - 1 \in 1 .. Len(b) /\ b[i - 1] = t[i]
    <3> SUFFICES ASSUME NEW i \in 2 .. Len(t) PROVE i - 1 \in 1 .. Len(b) /\ b[i - 1] = t[i]
      OBVIOUS
    <3>1. i - 1 \in 1 .. Len(b) /\ (i - 1) + 1 = i
      BY <1>1
    <3> QED
      BY <1>1, <3>1
  <2> QED
    BY <2>1, <2>2, SMTT(20)
<1> QED
  BY <1>1, <1>2, <1>3

\* A command that reads bytes judges the first of them.
LEMMA OutcomeBytes ==
    ASSUME NEW c, NEW t \in Seq(Kinds), Len(t) >= 1, t[1] = "OKAY", c.reads = "bytes"
    PROVE  /\ Len(t) = 1 => Outcome(c, t) = c.eof
           /\ Len(t) >= 2 => Outcome(c, t) = IF t[2] \in c.refuse \/ ~Good(c, {t[2]})
                                             THEN "error" ELSE c.gives
<1>1. PICK b \in Seq(Kinds) : /\ Outcome(c, t) = Meaning(c, b) /\ Len(b) = Len(t) - 1
                              /\ \A i \in 1 .. Len(b) : b[i] = t[i + 1]
  BY OutcomeOkay
<1>2. Meaning(c, b) = IF b = <<>> THEN c.eof
                      ELSE IF b[1] \in c.refuse \/ ~Good(c, {b[1]}) THEN "error" ELSE c.gives
  BY DEF Meaning
<1>3. Len(t) = 1 => b = <<>>
  BY <1>1
<1>4. Len(t) >= 2 => b # <<>> /\ b[1] = t[2]
  <2> SUFFICES ASSUME Len(t) >= 2 PROVE b # <<>> /\ b[1] = t[2]
    OBVIOUS
  <2>1. Len(b) >= 1
    BY <1>1
  <2>2. 1 \in 1 .. Len(b) /\ 1 + 1 = 2
    BY <2>1
  <2> QED
    BY <1>1, <2>1, <2>2
<1> QED
  BY <1>1, <1>2, <1>3, <1>4

\* A search takes the first line that matches, or ends without one.
LEMMA OutcomeSearch ==
    ASSUME NEW c, NEW t \in Seq(Kinds), Len(t) >= 1, t[1] = "OKAY", c.reads = "search"
    PROVE  /\ Unmatched(c, t, Len(t)) => Outcome(c, t) = c.eof
           /\ \A f \in 2 .. Len(t) :
                 Unmatched(c, t, f - 1) /\ t[f] \in c.accept \cup c.refuse =>
                    Outcome(c, t) = IF t[f] \in c.accept THEN c.gives ELSE "error"
<1>1. PICK b \in Seq(Kinds) : /\ Outcome(c, t) = Meaning(c, b) /\ Len(b) = Len(t) - 1
                              /\ \A i \in 1 .. Len(b) : b[i] = t[i + 1]
  BY OutcomeOkay
<1> DEFINE hits == {i \in 1 .. Len(b) : b[i] \in c.accept \cup c.refuse}
<1>2. Meaning(c, b) = IF hits = {} THEN c.eof
                      ELSE IF \E i \in hits : (\A j \in hits : i <= j) /\ b[i] \in c.accept
                      THEN c.gives ELSE "error"
  BY DEF Meaning
<1>3. /\ hits \subseteq 1 .. Len(b)
      /\ \A i \in 1 .. Len(b) : i \in hits <=> t[i + 1] \in c.accept \cup c.refuse
  BY <1>1
<1> HIDE DEF hits
<1>4. Unmatched(c, t, Len(t)) => hits = {}
  <2>1. \A i \in 1 .. Len(b) : i + 1 \in 2 .. Len(t)
    BY <1>1
  <2> QED
    BY <1>3, <2>1 DEF Unmatched
<1>5. ASSUME NEW f \in 2 .. Len(t), Unmatched(c, t, f - 1), t[f] \in c.accept \cup c.refuse
      PROVE  Outcome(c, t) = IF t[f] \in c.accept THEN c.gives ELSE "error"
  <2> DEFINE e == f - 1
  <2>1. e \in 1 .. Len(b) /\ e + 1 = f
    BY <1>1
  <2>2. e \in hits /\ b[e] = t[f]
    BY <1>1, <1>3, <1>5, <2>1
  <2>3. \A j \in hits : e <= j
    <3> SUFFICES ASSUME NEW j \in hits, j < e PROVE FALSE
      BY <1>1, <1>3, <2>1
    <3>1. j + 1 \in 2 .. f - 1 /\ j \in 1 .. Len(b)
      BY <1>1, <1>3, <2>1
    <3> QED
      BY <1>3, <1>5, <3>1 DEF Unmatched
  <2> HIDE DEF e
  <2>4. \A i \in hits : (\A j \in hits : i <= j) => i = e
    <3>1. \A i \in hits : i \in Int
      BY <1>3
    <3>2. e \in Int
      BY <2>1
    <3> QED
      BY <2>2, <2>3, <3>1, <3>2
  <2>5. (\E i \in hits : (\A j \in hits : i <= j) /\ b[i] \in c.accept) <=> t[f] \in c.accept
    BY <2>2, <2>3, <2>4, Zenon
  <2>6. hits # {}
    BY <2>2
  <2> QED
    BY <1>1, <1>2, <2>5, <2>6
<1> QED
  BY <1>1, <1>2, <1>4, <1>5

------------------------------------------------------------------------------
(***************************************************************************)
(* What a command may conclude from h tokens of its answer.                *)
(***************************************************************************)
Speech(c, said, h) ==
    /\ c \in CommandType /\ CommandFacts(c) /\ said \in Seq(Kinds) /\ h \in 0 .. Len(said)
    /\ h >= 1 => \E a \in Answers(c) : PrefixOf(said, a)

\* A longer or shorter part of what was said.
IsPart(t, said) == t \in Seq(Kinds) /\ Len(t) <= Len(said) /\ \A i \in 1 .. Len(t) : t[i] = said[i]

\* A prefix is a part of what was said.
LEMMA Clip ==
    ASSUME NEW said \in Seq(Kinds), NEW n \in 0 .. Len(said)
    PROVE  IsPart(SubSeq(said, 1, n), said) /\ Len(SubSeq(said, 1, n)) = n
<1>1. SubSeq(said, 1, n) \in Seq(Kinds) /\ Len(SubSeq(said, 1, n)) = n
  OBVIOUS
<1>2. \A i \in 1 .. n : SubSeq(said, 1, n)[i] = said[i]
  OBVIOUS
<1> DEFINE t == SubSeq(said, 1, n)
<1>3. t \in Seq(Kinds) /\ Len(t) = n /\ \A i \in 1 .. n : t[i] = said[i]
  BY <1>1, <1>2
<1> HIDE DEF t
<1>4. IsPart(t, said)
  BY <1>3 DEF IsPart
<1> QED
  BY <1>3, <1>4 DEF t

\* An outcome is firm if every longer part of the answer has it.
LEMMA FirmIf ==
    ASSUME NEW c, NEW said \in Seq(Kinds), NEW h \in 0 .. Len(said), NEW v,
           \A t : IsPart(t, said) /\ Len(t) >= h => Outcome(c, t) = v
    PROVE  Firm(c, said, h, v)
<1> SUFFICES ASSUME NEW n \in h .. Len(said)
             PROVE  Outcome(c, SubSeq(said, 1, n)) = v
  BY Zenon DEF Firm
<1>1. n \in 0 .. Len(said) /\ n >= h
  OBVIOUS
<1>2. IsPart(SubSeq(said, 1, n), said) /\ Len(SubSeq(said, 1, n)) = n
  BY <1>1, Clip, Zenon
<1> QED
  BY <1>1, <1>2

\* A verdict stays firm when more is read and when the rest is cut off.
LEMMA FirmMore ==
    ASSUME NEW c, NEW said \in Seq(Kinds), NEW h \in Nat, NEW k \in Nat, h <= k, NEW v,
           Firm(c, said, h, v)
    PROVE  Firm(c, said, k, v)
BY DEF Firm

\* A firm outcome is firm for a part that holds what it follows from.
LEMMA FirmCut ==
    ASSUME NEW c, NEW said \in Seq(Kinds), NEW h \in Nat, NEW m \in h .. Len(said), NEW v,
           Firm(c, said, h, v)
    PROVE  Firm(c, SubSeq(said, 1, m), h, v)
<1> DEFINE t == SubSeq(said, 1, m)
<1>1. Len(t) = m
  OBVIOUS
<1>2. \A n \in h .. m : SubSeq(t, 1, n) = SubSeq(said, 1, n)
  OBVIOUS
<1>3. \A n \in h .. m : n \in h .. Len(said)
  OBVIOUS
<1> HIDE DEF t
<1>4. Firm(c, t, h, v)
  BY <1>1, <1>2, <1>3 DEF Firm
<1> QED
  BY <1>4 DEF t

\* The parts of an answer that begins with OKAY are in order.
LEMMA Orderly ==
    ASSUME NEW c, NEW said, NEW h, Speech(c, said, h), h >= 1
    PROVE  /\ said[1] \in {"OKAY", "FAIL", "JUNK"}
           /\ said[1] = "JUNK" => Len(said) = 1
           /\ said[1] = "OKAY" =>
                \E a \in Seq(Kinds) : PrefixOf(said, a) /\ OkayBody(c, a) /\ a[1] = "OKAY"
<1>1. PICK a \in Answers(c) : PrefixOf(said, a)
  BY DEF Speech
<1>2. Len(said) >= 1 /\ said \in Seq(Kinds) /\ c \in CommandType
  BY DEF Speech
<1>3. /\ a \in Seq(Kinds) /\ a[1] \in {"OKAY", "FAIL", "JUNK"} /\ (a[1] = "JUNK" => Len(a) = 1)
  <2>1. a \in Seq(Kinds)
        /\ \/ a[1] = "FAIL"
           \/ a[1] = "JUNK" /\ Len(a) = 1
           \/ a[1] = "OKAY"
    BY <1>2, AnswerShape
  <2> QED
    BY <2>1
<1>4. said[1] = a[1]
  BY <1>1, <1>2 DEF PrefixOf
<1>5. said[1] = "JUNK" => Len(said) = 1
  <2> DEFINE k == Len(said)
  <2>1. k \in Nat /\ k >= 1
    BY <1>2
  <2>2. k <= Len(a)
    BY <1>1 DEF PrefixOf
  <2> HIDE DEF k
  <2>3. Len(a) = 1 => k = 1
    BY <2>1, <2>2
  <2> QED
    BY <1>3, <1>4, <2>3 DEF k
<1>6. said[1] = "OKAY" => OkayBody(c, a) /\ a[1] = "OKAY"
  BY <1>2, <1>4, OkayShape DEF Speech, CommandFacts
<1> QED
  BY <1>1, <1>3, <1>4, <1>5, <1>6

\* After OKAY a second reply is the only place for a refusal.
LEMMA Clean ==
    ASSUME NEW c, NEW said, NEW h, Speech(c, said, h), h >= 1, said[1] = "OKAY",
           c.reads # "reply"
    PROVE  \A i \in 1 .. Len(said) : said[i] \notin {"FAIL", "JUNK"}
<1>1. PICK a \in Seq(Kinds) : PrefixOf(said, a) /\ OkayBody(c, a) /\ a[1] = "OKAY"
  BY Orderly
<1>2. SUFFICES \A i \in 1 .. Len(a) : a[i] \notin {"FAIL", "JUNK"}
  <2>1. \A i \in 1 .. Len(said) : i \in 1 .. Len(a) /\ said[i] = a[i]
    BY <1>1 DEF PrefixOf, Speech
  <2> QED
    BY <1>2, <2>1
<1>3. \A i \in 1 .. Len(a) : i # 1 => i \in 2 .. Len(a)
  OBVIOUS
<1>4. c.reads \in {"nothing", "value", "all", "bytes", "search"}
  BY DEF Speech, CommandType, ReadKinds
<1>5. SUFFICES \A i \in 2 .. Len(a) : a[i] \notin {"FAIL", "JUNK"}
  BY <1>1, <1>3, <1>5
<1>6. CASE c.reads = "nothing"
  BY <1>1, <1>6 DEF OkayBody
<1>7. CASE c.reads = "value"
  <2>1. \/ Len(a) = 3 /\ a[2] = "LEN" /\ a[3] \in {"good", "bad"}
        \/ Len(a) = 2 /\ a[2] = "ZERO"
    BY <1>1, <1>7 DEF OkayBody
  <2>2. Len(a) = 3 => \A i \in 2 .. Len(a) : i = 2 \/ i = 3
    OBVIOUS
  <2>3. Len(a) = 2 => \A i \in 2 .. Len(a) : i = 2
    OBVIOUS
  <2> QED
    BY <2>1, <2>2, <2>3
<1>8. CASE c.reads = "all"
  BY <1>1, <1>8 DEF OkayBody
<1>9. CASE c.reads = "bytes"
  <2>1. /\ Len(a) <= 3
        /\ Len(a) >= 2 => a[2] \in {"good", "bad"}
        /\ Len(a) = 3 => a[3] = "payload"
    BY <1>1, <1>9 DEF OkayBody
  <2>a. \A k \in Nat : k <= 3 => \A i \in 2 .. k : i = 2 \/ (i = 3 /\ k = 3)
    OBVIOUS
  <2>2. Len(a) <= 3 => \A i \in 2 .. Len(a) : i = 2 \/ (i = 3 /\ Len(a) = 3)
    <3>1. Len(a) \in Nat
      OBVIOUS
    <3> QED
      BY <2>a, <3>1, Zenon
  <2>3. \A i \in 2 .. Len(a) : Len(a) >= 2
    OBVIOUS
  <2> QED
    BY <2>1, <2>2, <2>3
<1>10. CASE c.reads = "search"
  BY <1>1, <1>10 DEF OkayBody, Texts
<1> QED
  BY <1>4, <1>6, <1>7, <1>8, <1>9, <1>10

\* A promise that does not hand the connection over.
LEMMA AccountedPlain ==
    ASSUME NEW c, NEW said, NEW h, NEW v, NEW gone, v # "handed",
           gone \/ h = Len(said) \/ LeavesUnread(c),
           gone \/ \A i \in 1 .. h : said[i] # "FAIL" /\ (said[i] = "JUNK" => c.lenient)
    PROVE  Accounted(c, said, h, v, gone)
BY Zenon DEF Accounted

------------------------------------------------------------------------------
(***************************************************************************)
(* The verdicts of the continuations.                                      *)
(***************************************************************************)
Concludes(c, said, h, v, gone) == Firm(c, said, h, v) /\ Accounted(c, said, h, v, gone)

\* The OKAY concludes a command that reads nothing.
LEMMA NothingMore ==
    ASSUME NEW c, NEW said, NEW gone, Speech(c, said, 1), said[1] = "OKAY", c.reads = "nothing"
    PROVE  Concludes(c, said, 1, c.gives, gone)
<1>0. said \in Seq(Kinds) /\ 1 \in 0 .. Len(said)
  BY DEF Speech
<1>1. Firm(c, said, 1, c.gives)
  <2>1. \A t : IsPart(t, said) /\ Len(t) >= 1 => Outcome(c, t) = c.gives
    BY <1>0, OutcomeNothing DEF IsPart
  <2> QED
    BY <1>0, <2>1, FirmIf
<1>2. PICK a \in Seq(Kinds) : PrefixOf(said, a) /\ OkayBody(c, a)
  BY Orderly
<1>3. /\ \A i \in 1 .. Len(said) : i > 1 => said[i] = "payload"
      /\ c.gives # "handed" => Len(said) = 1
  <2>1. /\ \A i \in 2 .. Len(a) : a[i] = "payload"
        /\ c.gives # "handed" => Len(a) = 1
    BY <1>2 DEF OkayBody
  <2>2. \A i \in 1 .. Len(said) : i > 1 => i \in 2 .. Len(a) /\ said[i] = a[i]
    BY <1>0, <1>2 DEF PrefixOf
  <2>3. Len(a) = 1 => Len(said) = 1
    <3> DEFINE k == Len(said)
    <3>1. k \in Nat /\ k >= 1 /\ k <= Len(a)
      BY <1>0, <1>2 DEF PrefixOf
    <3> HIDE DEF k
    <3>2. Len(a) = 1 => k = 1
      BY <3>1
    <3> QED
      BY <3>2 DEF k
  <2> QED
    BY <2>1, <2>2, <2>3
<1>4. \A i \in 1 .. 1 : i = 1
  OBVIOUS
<1>5. Accounted(c, said, 1, c.gives, gone)
  <2>1. said[1] \notin {"payload", "FAIL", "JUNK"}
    OBVIOUS
  <2>2. \A i \in 1 .. Len(said) : (i > 1) <=> (said[i] = "payload")
    BY <1>0, <1>3, <2>1
  <2> QED
    BY <1>3, <1>4, <2>1, <2>2, Zenon DEF Accounted
<1> QED
  BY <1>1, <1>5 DEF Concludes

\* The second OKAY concludes a command with two replies.
LEMMA SecondReply ==
    ASSUME NEW c, NEW said, NEW gone, Speech(c, said, 2), said[1] = "OKAY", said[2] = "OKAY",
           c.reads = "reply"
    PROVE  Concludes(c, said, 2, "ok", gone)
<1>0. said \in Seq(Kinds) /\ 2 \in 0 .. Len(said)
  BY DEF Speech
<1>1. Firm(c, said, 2, "ok")
  <2>1. \A t : IsPart(t, said) /\ Len(t) >= 2 => Outcome(c, t) = "ok"
    <3> SUFFICES ASSUME NEW t, IsPart(t, said), Len(t) >= 2 PROVE Outcome(c, t) = "ok"
      OBVIOUS
    <3>1. t \in Seq(Kinds) /\ t[1] = "OKAY" /\ t[2] = "OKAY" /\ Len(t) >= 1
      BY DEF IsPart
    <3> QED
      BY <3>1, OutcomeReply
  <2> QED
    BY <1>0, <2>1, FirmIf
<1>2. PICK a \in Seq(Kinds) : PrefixOf(said, a) /\ OkayBody(c, a)
  BY Speech(c, said, 2), 2 >= 1, Orderly
<1>3. a[2] = "OKAY"
  BY <1>0, <1>2 DEF PrefixOf
<1>4. Len(a) = 2
  BY <1>2, <1>3 DEF OkayBody
<1>5. 2 = Len(said)
  <2> DEFINE k == Len(said)
  <2>1. k \in Nat /\ k >= 2 /\ k <= Len(a)
    BY <1>0, <1>2 DEF PrefixOf
  <2> HIDE DEF k
  <2>2. Len(a) = 2 => 2 = k
    BY <2>1
  <2> QED
    BY <1>4, <2>2 DEF k
<1>6. \A i \in 1 .. 2 : said[i] # "FAIL" /\ said[i] # "JUNK"
  OBVIOUS
<1>7. Accounted(c, said, 2, "ok", gone)
  BY <1>5, <1>6, AccountedPlain
<1> QED
  BY <1>1, <1>7 DEF Concludes

\* What makes a failure certain concludes with an error.
LEMMA DoomedFails ==
    ASSUME NEW c, NEW said, NEW h, Speech(c, said, h), Doomed(c, said, h)
    PROVE  Concludes(c, said, h, "error", TRUE)
<1>0. said \in Seq(Kinds) /\ h \in 0 .. Len(said)
  BY DEF Speech
<1>1. Firm(c, said, h, "error")
  <2>1. \A t : IsPart(t, said) /\ Len(t) >= h => Outcome(c, t) = "error"
    <3> SUFFICES ASSUME NEW t, IsPart(t, said), Len(t) >= h PROVE Outcome(c, t) = "error"
      OBVIOUS
    <3>1. CASE h >= 1 /\ said[1] = "FAIL"
      <4>1. t \in Seq(Kinds) /\ t[1] = "FAIL"
        BY <1>0, <3>1 DEF IsPart
      <4> QED
        BY <4>1, OutcomeRefused
    <3>2. CASE h >= 2 /\ said[1] = "OKAY" /\ said[2] = "FAIL" /\ c.reads = "reply"
      <4>1. t \in Seq(Kinds) /\ t[1] = "OKAY" /\ t[2] = "FAIL" /\ Len(t) >= 1
        BY <1>0, <3>2 DEF IsPart
      <4> QED
        BY <3>2, <4>1, OutcomeReply
    <3> QED
      BY <3>1, <3>2 DEF Doomed
  <2> QED
    BY <1>0, <2>1, FirmIf
<1>2. Accounted(c, said, h, "error", TRUE)
  BY AccountedPlain
<1> QED
  BY <1>1, <1>2 DEF Concludes

\* A reply that is none of OKAY and FAIL concludes at once.
LEMMA JunkFirst ==
    ASSUME NEW c, NEW said, NEW gone, Speech(c, said, 1), said[1] = "JUNK", c.lenient \/ gone
    PROVE  Concludes(c, said, 1, IF c.lenient THEN "ok" ELSE "error", gone)
<1> DEFINE v == IF c.lenient THEN "ok" ELSE "error"
<1>0. said \in Seq(Kinds) /\ 1 \in 0 .. Len(said)
  BY DEF Speech
<1>1. Firm(c, said, 1, v)
  <2>1. \A t : IsPart(t, said) /\ Len(t) >= 1 => Outcome(c, t) = v
    <3> SUFFICES ASSUME NEW t, IsPart(t, said), Len(t) >= 1 PROVE Outcome(c, t) = v
      OBVIOUS
    <3>1. t \in Seq(Kinds) /\ t[1] = "JUNK" /\ t # <<>>
      BY <1>0 DEF IsPart
    <3> QED
      BY <3>1, OutcomeRefused
  <2> HIDE DEF v
  <2> QED
    BY <1>0, <2>1, FirmIf
<1>2. 1 = Len(said)
  BY Orderly
<1>3. \A i \in 1 .. 1 : said[i] = "JUNK"
  OBVIOUS
<1>4. v # "handed"
  OBVIOUS
<1>5. gone \/ \A i \in 1 .. 1 : said[i] # "FAIL" /\ (said[i] = "JUNK" => c.lenient)
  BY <1>3
<1> HIDE DEF v
<1>6. Accounted(c, said, 1, v, gone)
  BY <1>2, <1>4, <1>5, AccountedPlain
<1>7. Concludes(c, said, 1, v, gone)
  BY <1>1, <1>6 DEF Concludes
<1> QED
  BY <1>7 DEF v

\* So does a second one.
LEMMA JunkSecond ==
    ASSUME NEW c, NEW said, Speech(c, said, 2), said[1] = "OKAY", said[2] = "JUNK",
           c.reads = "reply"
    PROVE  Concludes(c, said, 2, "error", TRUE)
<1>0. said \in Seq(Kinds) /\ 2 \in 0 .. Len(said)
  BY DEF Speech
<1>1. Firm(c, said, 2, "error")
  <2>1. \A t : IsPart(t, said) /\ Len(t) >= 2 => Outcome(c, t) = "error"
    <3> SUFFICES ASSUME NEW t, IsPart(t, said), Len(t) >= 2 PROVE Outcome(c, t) = "error"
      OBVIOUS
    <3>1. t \in Seq(Kinds) /\ t[1] = "OKAY" /\ t[2] = "JUNK" /\ Len(t) >= 1
      BY DEF IsPart
    <3> QED
      BY <3>1, OutcomeReply
  <2> QED
    BY <1>0, <2>1, FirmIf
<1>2. Accounted(c, said, 2, "error", TRUE)
  BY AccountedPlain
<1> QED
  BY <1>1, <1>2 DEF Concludes

\* A value of one text, or of none.
LEMMA TextValue ==
    ASSUME NEW c, NEW said, NEW gone, Speech(c, said, 3), said[1] = "OKAY", said[2] = "LEN",
           c.reads = "value"
    PROVE  Concludes(c, said, 3, IF Good(c, {said[3]}) THEN "ok" ELSE "error", gone)
<1> DEFINE v == IF Good(c, {said[3]}) THEN "ok" ELSE "error"
<1>0. said \in Seq(Kinds) /\ 3 \in 0 .. Len(said)
  BY DEF Speech
<1>2. PICK a \in Seq(Kinds) : PrefixOf(said, a) /\ OkayBody(c, a)
  BY Speech(c, said, 3), 3 >= 1, Orderly
<1>3. a[2] = "LEN"
  BY <1>0, <1>2 DEF PrefixOf
<1>4. Len(a) = 3
  BY <1>2, <1>3 DEF OkayBody
<1>5. 3 = Len(said)
  <2> DEFINE k == Len(said)
  <2>1. k \in Nat /\ k >= 3 /\ k <= Len(a)
    BY <1>0, <1>2 DEF PrefixOf
  <2> HIDE DEF k
  <2>2. Len(a) = 3 => 3 = k
    BY <2>1
  <2> QED
    BY <1>4, <2>2 DEF k
<1>1. Firm(c, said, 3, v)
  <2>1. \A t : IsPart(t, said) /\ Len(t) >= 3 => Outcome(c, t) = v
    <3> SUFFICES ASSUME NEW t, IsPart(t, said), Len(t) >= 3 PROVE Outcome(c, t) = v
      OBVIOUS
    <3>1. t \in Seq(Kinds) /\ t[1] = "OKAY" /\ t[3] = said[3] /\ Len(t) >= 1
      BY DEF IsPart
    <3>2. Len(t) = 3
      <4> DEFINE k == Len(t)
      <4>1. k \in Nat /\ k >= 3 /\ k <= Len(said)
        BY <3>1 DEF IsPart
      <4> HIDE DEF k
      <4>2. Len(said) = 3 => k = 3
        BY <4>1
      <4> QED
        BY <1>5, <4>2 DEF k
    <3>3. Outcome(c, t) = IF Good(c, {t[3]}) THEN "ok" ELSE "error"
      BY <3>1, <3>2, OutcomeValue
    <3> QED
      BY <3>1, <3>3
  <2> HIDE DEF v
  <2> QED
    BY <1>0, <2>1, FirmIf
<1>6. \A i \in 1 .. 3 : said[i] # "FAIL" /\ said[i] # "JUNK"
  <2>1. \A i \in 1 .. Len(said) : said[i] \notin {"FAIL", "JUNK"}
    BY Speech(c, said, 3), 3 >= 1, Clean
  <2> QED
    BY <1>5, <2>1
<1>7. v # "handed"
  OBVIOUS
<1> HIDE DEF v
<1>8. Accounted(c, said, 3, v, gone)
  BY <1>5, <1>6, <1>7, AccountedPlain
<1>9. Concludes(c, said, 3, v, gone)
  BY <1>1, <1>8 DEF Concludes
<1> QED
  BY <1>9 DEF v

\* An empty value concludes as an empty text.
LEMMA EmptyValue ==
    ASSUME NEW c, NEW said, NEW gone, Speech(c, said, 2), said[1] = "OKAY", said[2] = "ZERO",
           c.reads = "value"
    PROVE  Concludes(c, said, 2, IF Good(c, {"empty"}) THEN "ok" ELSE "error", gone)
<1> DEFINE v == IF Good(c, {"empty"}) THEN "ok" ELSE "error"
<1>0. said \in Seq(Kinds) /\ 2 \in 0 .. Len(said)
  BY DEF Speech
<1>2. PICK a \in Seq(Kinds) : PrefixOf(said, a) /\ OkayBody(c, a)
  BY Speech(c, said, 2), 2 >= 1, Orderly
<1>3. a[2] = "ZERO"
  BY <1>0, <1>2 DEF PrefixOf
<1>4. Len(a) = 2
  BY <1>2, <1>3 DEF OkayBody
<1>5. 2 = Len(said)
  <2> DEFINE k == Len(said)
  <2>1. k \in Nat /\ k >= 2 /\ k <= Len(a)
    BY <1>0, <1>2 DEF PrefixOf
  <2> HIDE DEF k
  <2>2. Len(a) = 2 => 2 = k
    BY <2>1
  <2> QED
    BY <1>4, <2>2 DEF k
<1>1. Firm(c, said, 2, v)
  <2>1. \A t : IsPart(t, said) /\ Len(t) >= 2 => Outcome(c, t) = v
    <3> SUFFICES ASSUME NEW t, IsPart(t, said), Len(t) >= 2 PROVE Outcome(c, t) = v
      OBVIOUS
    <3>1. t \in Seq(Kinds) /\ t[1] = "OKAY" /\ t[2] = "ZERO" /\ Len(t) >= 1
      BY DEF IsPart
    <3>2. Len(t) = 2
      <4> DEFINE k == Len(t)
      <4>1. k \in Nat /\ k >= 2 /\ k <= Len(said)
        BY <3>1 DEF IsPart
      <4> HIDE DEF k
      <4>2. Len(said) = 2 => k = 2
        BY <4>1
      <4> QED
        BY <1>5, <4>2 DEF k
    <3> QED
      BY <3>1, <3>2, OutcomeValue
  <2> HIDE DEF v
  <2> QED
    BY <1>0, <2>1, FirmIf
<1>6. \A i \in 1 .. 2 : said[i] # "FAIL" /\ said[i] # "JUNK"
  OBVIOUS
<1>7. v # "handed"
  OBVIOUS
<1> HIDE DEF v
<1>8. Accounted(c, said, 2, v, gone)
  BY <1>5, <1>6, <1>7, AccountedPlain
<1>9. Concludes(c, said, 2, v, gone)
  BY <1>1, <1>8 DEF Concludes
<1> QED
  BY <1>9 DEF v

\* A search that has found its line.
LEMMA LineMatches ==
    ASSUME NEW c, NEW said, NEW h, NEW f \in Nat, Speech(c, said, h), f \in 2 .. h,
           said[1] = "OKAY", c.reads = "search",
           Unmatched(c, said, f - 1), said[f] \in c.accept \cup c.refuse
    PROVE  Firm(c, said, h, IF said[f] \in c.accept THEN c.gives ELSE "error")
<1> DEFINE v == IF said[f] \in c.accept THEN c.gives ELSE "error"
<1>0. said \in Seq(Kinds) /\ h \in 0 .. Len(said)
  BY DEF Speech
<1>1. \A t : IsPart(t, said) /\ Len(t) >= h => Outcome(c, t) = v
  <2> SUFFICES ASSUME NEW t, IsPart(t, said), Len(t) >= h PROVE Outcome(c, t) = v
    OBVIOUS
  <2>1. t \in Seq(Kinds) /\ \A i \in 1 .. Len(t) : t[i] = said[i]
    BY DEF IsPart
  <2>2. /\ Len(t) >= 1 /\ f \in 2 .. Len(t) /\ 1 \in 1 .. Len(t) /\ f \in 1 .. Len(t)
        /\ 2 .. f - 1 \subseteq 1 .. Len(t)
    BY <1>0, <2>1
  <2>3. t[1] = "OKAY" /\ t[f] = said[f] /\ Unmatched(c, t, f - 1)
    BY <2>1, <2>2 DEF Unmatched
  <2>4. Outcome(c, t) = IF t[f] \in c.accept THEN c.gives ELSE "error"
    BY <2>1, <2>2, <2>3, OutcomeSearch
  <2> QED
    BY <2>3, <2>4
<1> HIDE DEF v
<1>2. Firm(c, said, h, v)
  BY <1>0, <1>1, FirmIf
<1> QED
  BY <1>2 DEF v

\* While a search has found nothing, no payload has been read: it lies behind a
\* line that the only command with a payload accepts.
LEMMA NoPayload ==
    ASSUME NEW c, NEW said, NEW h, NEW n \in Nat, Speech(c, said, h), h >= 1, n <= h, h <= n + 1,
           said[1] = "OKAY", c.reads = "search", "good" \in c.accept, Unmatched(c, said, n)
    PROVE  \A i \in 1 .. h : said[i] # "payload"
<1>0. said \in Seq(Kinds) /\ h \in 0 .. Len(said)
  BY DEF Speech
<1>1. PICK a \in Seq(Kinds) : PrefixOf(said, a) /\ OkayBody(c, a) /\ a[1] = "OKAY"
  BY Orderly
<1>2. \A i \in 2 .. Len(a) : a[i] = "payload" => i > 2 /\ a[i - 1] = "good"
  BY <1>1 DEF OkayBody
<1> SUFFICES ASSUME NEW i \in 1 .. h, said[i] = "payload" PROVE FALSE
  OBVIOUS
<1>3. said[i] = a[i] /\ i \in 1 .. Len(a)
  BY <1>0, <1>1 DEF PrefixOf
<1>4. i # 1
  OBVIOUS
<1>5. i > 2 /\ a[i - 1] = "good"
  <2>1. i \in 2 .. Len(a)
    BY <1>3, <1>4
  <2> QED
    BY <1>2, <1>3, <2>1
<1>6. said[i - 1] = "good" /\ i - 1 \in 2 .. n
  <2>1. i - 1 \in 1 .. Len(said)
    BY <1>0, <1>5
  <2>2. said[i - 1] = a[i - 1]
    BY <1>1, <2>1 DEF PrefixOf
  <2>3. i - 1 \in 2 .. n
    BY <1>0, <1>5
  <2> QED
    BY <1>5, <2>2, <2>3
<1> QED
  BY <1>6 DEF Unmatched

\* The bytes that isinstalled, framebuffer and screencap wait for.
LEMMA BytesGood ==
    ASSUME NEW c, NEW said, NEW gone, Speech(c, said, 2), said[1] = "OKAY", c.reads = "bytes",
           said[2] \notin c.refuse, Good(c, {said[2]})
    PROVE  Concludes(c, said, 2, c.gives, gone)
<1>0. said \in Seq(Kinds) /\ 2 \in 0 .. Len(said)
  BY DEF Speech
<1>1. Firm(c, said, 2, c.gives)
  <2>1. \A t : IsPart(t, said) /\ Len(t) >= 2 => Outcome(c, t) = c.gives
    <3> SUFFICES ASSUME NEW t, IsPart(t, said), Len(t) >= 2 PROVE Outcome(c, t) = c.gives
      OBVIOUS
    <3>1. t \in Seq(Kinds) /\ t[1] = "OKAY" /\ t[2] = said[2] /\ Len(t) >= 1
      BY DEF IsPart
    <3>2. Outcome(c, t) = IF t[2] \in c.refuse \/ ~Good(c, {t[2]}) THEN "error" ELSE c.gives
      BY <3>1, OutcomeBytes
    <3> QED
      BY <3>1, <3>2
  <2> QED
    BY <1>0, <2>1, FirmIf
<1>2. PICK a \in Seq(Kinds) : PrefixOf(said, a) /\ OkayBody(c, a)
  BY Speech(c, said, 2), 2 >= 1, Orderly
<1>3. /\ Len(a) <= 3 /\ Len(said) <= Len(a)
      /\ said[2] \in {"good", "bad"}
      /\ \A i \in 1 .. Len(said) : i > 2 => said[i] = "payload"
  <2>1. /\ Len(a) <= 3
        /\ Len(a) >= 2 => a[2] \in {"good", "bad"}
        /\ Len(a) = 3 => a[3] = "payload"
    BY <1>2 DEF OkayBody
  <2>2. Len(said) <= Len(a) /\ \A i \in 1 .. Len(said) : said[i] = a[i]
    BY <1>2 DEF PrefixOf
  <2>3. Len(a) >= 2 /\ said[2] = a[2]
    BY <1>0, <2>2
  <2>a. \A k, m \in Nat : k <= m /\ m <= 3 => \A i \in 1 .. k : i > 2 => i = 3 /\ m = 3
    OBVIOUS
  <2>b. Len(said) \in Nat /\ Len(a) \in Nat
    BY <1>0
  <2>4. \A i \in 1 .. Len(said) : i > 2 => i = 3 /\ Len(a) = 3
    BY <2>1, <2>2, <2>a, <2>b, Zenon
  <2> QED
    BY <2>1, <2>2, <2>3, <2>4
<1>4. \A i \in 1 .. 2 : i = 1 \/ i = 2
  OBVIOUS
<1>5. \A i \in 1 .. 2 : said[i] \notin {"payload", "FAIL", "JUNK"}
  BY <1>3, <1>4
<1>6. \A i \in 1 .. Len(said) : (i > 2) <=> (said[i] = "payload")
  <2>1. \A i \in 1 .. Len(said) : i > 2 \/ i \in 1 .. 2
    BY <1>0
  <2>2. \A i \in 1 .. 2 : ~(i > 2)
    OBVIOUS
  <2> QED
    BY <1>3, <1>5, <2>1, <2>2
<1>7. c.gives # "handed" => LeavesUnread(c)
  BY Zenon DEF Speech, CommandFacts
<1>8. Accounted(c, said, 2, c.gives, gone)
  <2>1. \A i \in 1 .. 2 : said[i] # "payload" /\ said[i] # "FAIL" /\ said[i] # "JUNK"
    BY <1>5
  <2> QED
    BY <1>6, <1>7, <2>1, Zenon DEF Accounted
<1> QED
  BY <1>1, <1>8 DEF Concludes

\* Bytes that are refused, or not good, conclude with an error.
LEMMA BytesBad ==
    ASSUME NEW c, NEW said, NEW gone, Speech(c, said, 2), said[1] = "OKAY", c.reads = "bytes",
           \/ said[2] \in c.refuse
           \/ said[2] \notin c.refuse /\ ~Good(c, {said[2]}) /\ gone
    PROVE  Concludes(c, said, 2, "error", gone)
<1>0. said \in Seq(Kinds) /\ 2 \in 0 .. Len(said)
  BY DEF Speech
<1>1. Firm(c, said, 2, "error")
  <2>1. \A t : IsPart(t, said) /\ Len(t) >= 2 => Outcome(c, t) = "error"
    <3> SUFFICES ASSUME NEW t, IsPart(t, said), Len(t) >= 2 PROVE Outcome(c, t) = "error"
      OBVIOUS
    <3>1. t \in Seq(Kinds) /\ t[1] = "OKAY" /\ t[2] = said[2] /\ Len(t) >= 1
      BY DEF IsPart
    <3>2. Outcome(c, t) = IF t[2] \in c.refuse \/ ~Good(c, {t[2]}) THEN "error" ELSE c.gives
      BY <3>1, OutcomeBytes
    <3> QED
      BY <3>1, <3>2
  <2> QED
    BY <1>0, <2>1, FirmIf
<1>2. gone \/ LeavesUnread(c)
  <2>1. said[2] \in c.refuse => c.refuse # {}
    OBVIOUS
  <2> QED
    BY <2>1, Zenon DEF Speech, CommandFacts
<1>3. \A i \in 1 .. Len(said) : said[i] \notin {"FAIL", "JUNK"}
  BY Speech(c, said, 2), 2 >= 1, Clean
<1>4. \A i \in 1 .. 2 : said[i] # "FAIL" /\ said[i] # "JUNK"
  BY <1>0, <1>3
<1>5. Accounted(c, said, 2, "error", gone)
  BY <1>2, <1>4, AccountedPlain
<1> QED
  BY <1>1, <1>5 DEF Concludes

\* Everything that was said is read.
LEMMA FirmWhole ==
    ASSUME NEW c, NEW said \in Seq(Kinds), NEW v, Outcome(c, said) = v
    PROVE  Firm(c, said, Len(said), v)
<1>1. SubSeq(said, 1, Len(said)) = said
  OBVIOUS
<1>2. \A n \in Len(said) .. Len(said) : n = Len(said)
  OBVIOUS
<1> QED
  BY <1>1, <1>2, Zenon DEF Firm

\* The end of the stream concludes a command that reads all.
LEMMA AllRead ==
    ASSUME NEW c, NEW said, NEW gone, Speech(c, said, Len(said)), Len(said) >= 1,
           said[1] = "OKAY", c.reads = "all"
    PROVE  Concludes(c, said, Len(said),
                     IF Good(c, {said[i] : i \in 1 .. Len(said)}) THEN "ok" ELSE "error", gone)
<1> DEFINE v == IF Good(c, {said[i] : i \in 1 .. Len(said)}) THEN "ok" ELSE "error"
<1>0. said \in Seq(Kinds) /\ c \in CommandType
  BY DEF Speech
<1>1. Outcome(c, said) = IF Good(c, {said[i] : i \in 2 .. Len(said)}) THEN "ok" ELSE "error"
  BY <1>0, OutcomeAll
<1>2. Good(c, {said[i] : i \in 1 .. Len(said)}) <=> Good(c, {said[i] : i \in 2 .. Len(said)})
  <2>1. \A x \in c.accept : x # "OKAY"
    BY <1>0 DEF CommandType, Texts
  <2>2. \A i \in 1 .. Len(said) : i = 1 \/ i \in 2 .. Len(said)
    BY <1>0
  <2>3. \A i \in 2 .. Len(said) : i \in 1 .. Len(said)
    BY <1>0
  <2>4. {said[i] : i \in 1 .. Len(said)} \cap c.accept
           = {said[i] : i \in 2 .. Len(said)} \cap c.accept
    BY <2>1, <2>2, <2>3
  <2> QED
    BY <2>4, Zenon DEF Good
<1>3. Outcome(c, said) = v
  BY <1>1, <1>2
<1>4. \A i \in 1 .. Len(said) : said[i] \notin {"FAIL", "JUNK"}
  BY Clean
<1>5. v # "handed"
  OBVIOUS
<1> HIDE DEF v
<1>6. Firm(c, said, Len(said), v)
  BY <1>0, <1>3, FirmWhole
<1>7. Accounted(c, said, Len(said), v, gone)
  BY <1>4, <1>5, AccountedPlain
<1>8. Concludes(c, said, Len(said), v, gone)
  BY <1>6, <1>7 DEF Concludes
<1> QED
  BY <1>8 DEF v

\* The stream is over before the read that follows OKAY has what it wants.
Awaits(c, said, read, n) ==
    \/ read = "line" /\ c.reads = "search" /\ Unmatched(c, said, n)
    \/ /\ read = "exceptionLine" /\ c.reads = "search" /\ n >= 2 /\ Unmatched(c, said, n - 1)
       /\ said[n] = "exception" /\ "exception" \in c.refuse
    \/ read = "bytes" /\ c.reads = "bytes" /\ n = 1

\* A stream that ends in the body gives the command's outcome for that.
LEMMA BodyEnds ==
    ASSUME NEW c, NEW said, NEW read, Speech(c, said, Len(said)), Len(said) >= 1,
           said[1] = "OKAY", Awaits(c, said, read, Len(said))
    PROVE  Firm(c, said, Len(said), c.eof)
<1>0. said \in Seq(Kinds) /\ c \in CommandType /\ CommandFacts(c)
  BY DEF Speech
<1>1. Outcome(c, said) = c.eof
  <2>1. CASE read = "line" /\ c.reads = "search" /\ Unmatched(c, said, Len(said))
    BY <1>0, <2>1, OutcomeSearch
  <2>2. CASE /\ read = "exceptionLine" /\ c.reads = "search" /\ Len(said) >= 2
             /\ Unmatched(c, said, Len(said) - 1)
             /\ said[Len(said)] = "exception" /\ "exception" \in c.refuse
    <3>1. Len(said) \in 2 .. Len(said)
      BY <1>0, <2>2
    <3>2. "exception" \notin c.accept /\ c.eof = "error"
      BY <1>0, <2>2 DEF CommandFacts
    <3> QED
      BY <1>0, <2>2, <3>1, <3>2, OutcomeSearch
  <2>3. CASE read = "bytes" /\ c.reads = "bytes" /\ Len(said) = 1
    BY <1>0, <2>3, OutcomeBytes
  <2> QED
    BY <2>1, <2>2, <2>3, Zenon DEF Awaits
<1> QED
  BY <1>0, <1>1, FirmWhole

\* A stream that ends in a reply or a length gives an error.
LEMMA ReplyEnds ==
    ASSUME NEW c, NEW said, NEW gone, Speech(c, said, Len(said)),
           \/ Len(said) = 0
           \/ Len(said) = 1 /\ said[1] = "OKAY" /\ c.reads \in {"reply", "value"}
           \/ Len(said) = 2 /\ said[1] = "OKAY" /\ c.reads = "value" /\ said[2] = "LEN"
    PROVE  Concludes(c, said, Len(said), "error", gone)
<1>0. said \in Seq(Kinds) /\ c \in CommandType
  BY DEF Speech
<1>1. Outcome(c, said) = "error"
  <2>1. CASE Len(said) = 0
    <3>1. said = <<>>
      BY <1>0, <2>1
    <3> QED
      BY <1>0, <3>1, OutcomeRefused
  <2>2. CASE Len(said) = 1 /\ said[1] = "OKAY" /\ c.reads = "reply"
    BY <1>0, <2>2, OutcomeReply
  <2>3. CASE Len(said) = 1 /\ said[1] = "OKAY" /\ c.reads = "value"
    <3>1. Len(said) >= 1
      BY <2>3
    <3>2. Len(said) = 1 => Outcome(c, said) = "error"
      BY <1>0, <2>3, <3>1, OutcomeValue, Zenon
    <3> QED
      BY <2>3, <3>2
  <2>4. CASE Len(said) = 2 /\ said[1] = "OKAY" /\ c.reads = "value" /\ said[2] = "LEN"
    <3>1. said[2] # "ZERO" /\ Len(said) >= 1
      BY <2>4
    <3> QED
      BY <1>0, <2>4, <3>1, OutcomeValue
  <2> QED
    BY <2>1, <2>2, <2>3, <2>4
<1>2. \A i \in 1 .. Len(said) : said[i] # "FAIL" /\ said[i] # "JUNK"
  <2>a. \A k \in 0 .. 2 : \A i \in 1 .. k : i = 1 \/ (i = 2 /\ k = 2)
    OBVIOUS
  <2>b. Len(said) \in 0 .. 2
    OBVIOUS
  <2>1. \A i \in 1 .. Len(said) : i = 1 \/ (i = 2 /\ Len(said) = 2)
    BY <2>a, <2>b, Zenon
  <2>2. \A i \in 1 .. Len(said) : Len(said) # 0
    OBVIOUS
  <2> QED
    BY <2>1, <2>2
<1>3. Firm(c, said, Len(said), "error")
  BY <1>0, <1>1, FirmWhole
<1>4. Accounted(c, said, Len(said), "error", gone)
  BY <1>2, AccountedPlain
<1> QED
  BY <1>3, <1>4 DEF Concludes

\* A promise that settles at the end of the stream, whatever it settles with.
LEMMA EndAccounted ==
    ASSUME NEW c, NEW said, NEW v, NEW gone, Speech(c, said, Len(said)), Len(said) >= 1,
           said[1] = "OKAY", c.reads # "reply", v # "handed"
    PROVE  Accounted(c, said, Len(said), v, gone)
<1>1. \A i \in 1 .. Len(said) : said[i] \notin {"FAIL", "JUNK"}
  BY Clean
<1> QED
  BY <1>1, AccountedPlain

\* The search hands the connection over, with the line or when the timer fires.
LEMMA SearchHands ==
    ASSUME NEW c, NEW said, NEW h, NEW n \in Nat, NEW gone, Speech(c, said, h), h >= 1,
           n <= h, h <= n + 1, said[1] = "OKAY", c.reads = "search", c.drain = "none",
           Unmatched(c, said, n)
    PROVE  Accounted(c, said, h, "handed", gone)
<1>1. c.timer /\ "good" \in c.accept
  <2>1. c.timer /\ c.accept = {"good"}
    BY DEF Speech, CommandFacts
  <2> QED
    BY <2>1
<1>2. \A i \in 1 .. h : said[i] # "payload"
  BY <1>1, NoPayload
<1>3. \A i \in 1 .. Len(said) : said[i] \notin {"FAIL", "JUNK"}
  BY Clean
<1>4. \A i \in 1 .. h : said[i] # "FAIL" /\ said[i] # "JUNK"
  BY <1>3 DEF Speech
<1> QED
  BY <1>1, <1>2, <1>4, Zenon DEF Accounted

------------------------------------------------------------------------------
(***************************************************************************)
(* The state.                                                              *)
(***************************************************************************)
Heeded == Standing(at, cmd, Said, Before, SoFar)
Talk == Split /\ Told /\ Places /\ Closed /\ Answered /\ Heeded /\ Settling
Talking == IInv /\ Talk

\* BeginOf is the place where the tokens of a command begin.
LEMMA BeginIs ==
    ASSUME NEW s, Len(s) \in Nat, NEW n, NEW b \in 1 .. Len(s) + 1,
           \A i \in 1 .. Len(s) : s[i].of = n <=> i >= b
    PROVE  BeginOf(s, n) = b
<1> DEFINE P(c) == \A i \in 1 .. Len(s) : s[i].of = n <=> i >= c
<1>1. \A c \in 1 .. Len(s) + 1 : P(c) => c = b
  <2> SUFFICES ASSUME NEW c \in 1 .. Len(s) + 1, P(c), c # b
               PROVE  FALSE
    OBVIOUS
  <2>1. CASE c < b
    <3>1. c \in 1 .. Len(s)
      BY <2>1
    <3> QED
      BY <3>1, <2>1
  <2>2. CASE b < c
    <3>1. b \in 1 .. Len(s)
      BY <2>2
    <3> QED
      BY <3>1, <2>2
  <2> QED
    BY <2>1, <2>2
<1>2. P(b)
  OBVIOUS
<1>3. BeginOf(s, n) = CHOOSE c \in 1 .. Len(s) + 1 : P(c)
  BY DEF BeginOf
<1> HIDE DEF P
<1>4. (CHOOSE c \in 1 .. Len(s) + 1 : P(c)) \in {c \in 1 .. Len(s) + 1 : P(c)}
  BY <1>2
<1> QED
  BY <1>1, <1>3, <1>4

\* The answer lies behind the one to the transport request.
SaidOf(tokens, n) == [i \in 1 .. Len(tokens) + 1 - n |-> tokens[n + i - 1].kind]

\* What was said to the running command lies behind the earlier answers.
LEMMA SaidIs ==
    ASSUME Typed, Split
    PROVE  Said = SaidOf(sent, asked)
<1>1. sent \in Seq(Token) /\ asked \in 1 .. 2 /\ Len(sent) \in Nat /\ taken \in Nat
      /\ taken <= Len(sent)
  BY DEF Typed
<1>2. asked \in 1 .. Len(sent) + 1
  BY <1>1 DEF Split
<1>3. \A i \in 1 .. Len(sent) : sent[i].of = asked <=> i >= asked
  <2> SUFFICES ASSUME NEW i \in 1 .. Len(sent), i < asked PROVE sent[i].of # asked
    BY <1>1 DEF Split
  <2>1. asked = 2 /\ i = 1
    BY <1>1
  <2>2. sent[i].of = 1
    BY <2>1 DEF Split, Tok
  <2> QED
    BY <2>1, <2>2
<1>4. Begin = asked
  BY <1>1, <1>2, <1>3, BeginIs DEF Begin
<1> QED
  BY <1>4, Zenon DEF Said, SaidOf

\* The length and the elements of what was said.
LEMMA SaidOfType ==
    ASSUME NEW s \in Seq(Token), NEW n \in 1 .. Len(s) + 1
    PROVE  /\ SaidOf(s, n) \in Seq(Kinds) /\ Len(SaidOf(s, n)) = Len(s) + 1 - n
           /\ \A i \in 1 .. Len(s) + 1 - n :
                 SaidOf(s, n)[i] = s[n + i - 1].kind /\ n + i - 1 \in 1 .. Len(s)
<1> DEFINE k == Len(s) + 1 - n
<1>1. k \in Nat /\ \A i \in 1 .. k : n + i - 1 \in 1 .. Len(s) /\ s[n + i - 1].kind \in Kinds
  <2>1. \A j \in 1 .. Len(s) : s[j].kind \in Kinds
    <3>1. \A j \in 1 .. Len(s) : s[j] \in Token
      OBVIOUS
    <3> QED
      BY <3>1 DEF Token
  <2> QED
    BY <2>1
<1>2. SaidOf(s, n) = [i \in 1 .. k |-> s[n + i - 1].kind]
  BY DEF SaidOf
<1> HIDE DEF k
<1>3. SaidOf(s, n) \in Seq(Kinds) /\ Len(SaidOf(s, n)) = k
      /\ \A i \in 1 .. k : SaidOf(s, n)[i] = s[n + i - 1].kind /\ n + i - 1 \in 1 .. Len(s)
  <2>1. SaidOf(s, n) \in [1 .. k -> Kinds]
    BY <1>1, <1>2
  <2>2. SaidOf(s, n) \in Seq(Kinds) /\ Len(SaidOf(s, n)) = k
    BY <1>1, <2>1
  <2> QED
    BY <1>1, <1>2, <2>2, Zenon
<1> QED
  BY <1>3 DEF k

\* Said, its length, and what of it was read.
LEMMA SaidFacts ==
    ASSUME Typed, Split
    PROVE  /\ Said \in Seq(Kinds) /\ Len(Said) = Len(sent) + 1 - asked
           /\ \A i \in 1 .. Len(Said) :
                 Said[i] = sent[asked + i - 1].kind /\ asked + i - 1 \in 1 .. Len(sent)
           /\ SoFar \in 0 .. Len(Said) /\ taken = SoFar + asked - 1
           /\ asked \in 1 .. 2 /\ Len(sent) \in Nat /\ taken \in 0 .. Len(sent)
<1>1. /\ sent \in Seq(Token) /\ asked \in 1 .. 2 /\ Len(sent) \in Nat /\ taken \in Nat
      /\ taken <= Len(sent) /\ asked - 1 <= taken
  BY DEF Typed, Split
<1>2. asked \in 1 .. Len(sent) + 1
  BY <1>1
<1>3. Said = SaidOf(sent, asked)
  BY SaidIs
<1>4. /\ Said \in Seq(Kinds) /\ Len(Said) = Len(sent) + 1 - asked
      /\ \A i \in 1 .. Len(sent) + 1 - asked :
            Said[i] = sent[asked + i - 1].kind /\ asked + i - 1 \in 1 .. Len(sent)
  BY <1>1, <1>2, <1>3, SaidOfType, Zenon
<1> HIDE DEF Said
<1>5. SoFar = taken + 1 - asked
  BY DEF SoFar
<1>6. SoFar \in 0 .. Len(Said) /\ taken = SoFar + asked - 1 /\ taken \in 0 .. Len(sent)
  BY <1>1, <1>4, <1>5
<1>7. \A i \in 1 .. Len(Said) : Said[i] = sent[asked + i - 1].kind /\ asked + i - 1 \in 1 .. Len(sent)
  BY <1>4, Zenon
<1> QED
  BY <1>1, <1>4, <1>6, <1>7

\* What the running command may conclude from.
LEMMA Speaks ==
    ASSUME Talking, ~Followed
    PROVE  Speech(cmd, Said, SoFar)
<1>1. cmd \in CommandType
  BY CmdType DEF Talking, IInv
<1>2. CommandFacts(cmd)
  <2>1. cmd \in Commands
    <3>1. Transport \in Commands
      BY DEF Commands
    <3>2. \/ \E c \in Commands : todo = <<c>>
          \/ \E c \in Commands : todo = <<Transport, c>>
      BY Zenon DEF Talking, IInv, Typed
    <3>3. CASE \E c \in Commands : todo = <<c>>
      BY <3>3 DEF cmd
    <3>4. CASE \E c \in Commands : todo = <<Transport, c>>
      BY <3>1, <3>4 DEF cmd
    <3> QED
      BY <3>2, <3>3, <3>4, Zenon
  <2> QED
    BY <2>1, CommandsFacts
<1>3. Said \in Seq(Kinds) /\ SoFar \in 0 .. Len(Said) /\ Len(Said) = Len(sent) + 1 - asked
      /\ asked \in 1 .. 2 /\ Len(sent) \in Nat
  BY SaidFacts DEF Talking, IInv, Talk
<1>4. SoFar >= 1 => answered = asked
  <2>1. answered \in 0 .. asked
    BY DEF Talking, IInv, Typed
  <2> QED
    BY <1>3, <2>1 DEF Talking, Talk, Told
<1> QED
  BY <1>1, <1>2, <1>3, <1>4 DEF Speech, Talking, Talk, Answered

\* A continuation has the last token that was read.
LEMMA Hears ==
    ASSUME Talking, phase = "gap", token.kind \notin Lost
    PROVE  /\ HasToken /\ Before = SoFar - 1
           /\ SoFar >= 1 => Said[SoFar] = token.kind
<1>1. HasToken
  BY DEF HasToken
<1>2. Before = SoFar - 1
  BY <1>1 DEF Before
<1>3. taken \in 1 .. Len(sent) /\ token = sent[taken]
  BY DEF Talking, IInv, JustRead
<1>4. SoFar \in 0 .. Len(Said) /\ taken = SoFar + asked - 1 /\ asked \in 1 .. 2
      /\ \A i \in 1 .. Len(Said) : Said[i] = sent[asked + i - 1].kind
  BY SaidFacts DEF Talking, IInv, Talk
<1>5. SoFar >= 1 => SoFar \in 1 .. Len(Said) /\ asked + SoFar - 1 = taken
  BY <1>4
<1>6. SoFar >= 1 => Said[SoFar] = token.kind
  BY <1>3, <1>4, <1>5
<1> QED
  BY <1>1, <1>2, <1>6

\* Without one, the pending read is where the last one ended.
LEMMA Waits ==
    ASSUME ~(phase = "gap" /\ token.kind \notin Lost)
    PROVE  ~HasToken /\ Before = SoFar
BY DEF HasToken, Before

------------------------------------------------------------------------------
(***************************************************************************)
(* What stays when more is read and when the rest is cut off.              *)
(***************************************************************************)
LEMMA StandingMore ==
    ASSUME NEW r, NEW c, NEW said, NEW n, NEW h \in Nat, NEW k \in Nat, h <= k,
           Standing(r, c, said, n, h)
    PROVE  Standing(r, c, said, n, k)
BY DEF Standing, Doomed

\* While the rest is read out, where the reads stand does not matter.
LEMMA StandingDrain ==
    ASSUME NEW r \in Drains, NEW c, NEW said, NEW n, NEW m, NEW h \in Nat, NEW k \in Nat, h <= k,
           Standing(r, c, said, n, h)
    PROVE  Standing(r, c, said, m, k)
<1>1. r \notin FailReads \cup Replies \cup ValueReads \cup LineReads \cup {"bytes"}
  BY DEF Drains, FailReads, Replies, ValueReads, LineReads
<1>2. r = "all" => c.reads = "all" /\ k >= 1 /\ said[1] = "OKAY"
  BY DEF Standing
<1> QED
  BY <1>1, <1>2, Zenon DEF Standing, FailReads, Replies, ValueReads, LineReads

\* Where the reads stand depends only on what was read.
LEMMA StandingCut ==
    ASSUME NEW r, NEW c, NEW said, NEW t, NEW n \in Int, NEW h \in Nat, n <= h, h <= Len(t),
           Len(t) \in Nat, \A i \in 1 .. Len(t) : t[i] = said[i],
           Standing(r, c, said, n, h)
    PROVE  Standing(r, c, t, n, h)
<1>1. \A i \in 1 .. h : t[i] = said[i]
  OBVIOUS
<1>2. \A m \in Int : m <= h /\ Unmatched(c, said, m) => Unmatched(c, t, m)
  BY <1>1 DEF Unmatched
<1>3. (h >= 1 => t[1] = said[1]) /\ (h >= 2 => t[2] = said[2]) /\ (n >= 1 => t[n] = said[n])
  BY <1>1
<1>4. Doomed(c, said, h) => Doomed(c, t, h)
  BY <1>3 DEF Doomed
<1>5. n >= 1 => h >= 1
  OBVIOUS
<1>6. n >= 2 => h >= 2
  OBVIOUS
<1>7. r = "line" => n >= 1 /\ Unmatched(c, said, n)
  BY DEF Standing
<1>8. r = "exceptionLine" => n >= 2 /\ Unmatched(c, said, n - 1) /\ n - 1 \in Int /\ n - 1 <= h
  BY DEF Standing
<1>9. (r = "line" => Unmatched(c, t, n)) /\ (r = "exceptionLine" => Unmatched(c, t, n - 1))
  BY <1>2, <1>7, <1>8
<1> QED
  BY <1>3, <1>4, <1>5, <1>6, <1>9 DEF Standing

\* A verdict stays right when more is read, or the stream fails.
LEMMA DecidedMore ==
    ASSUME NEW c, NEW said \in Seq(Kinds), NEW h \in Nat, NEW k \in Nat, h <= k, NEW v,
           NEW failed, NEW failed2, failed => failed2, Decided(c, said, h, v, failed)
    PROVE  Decided(c, said, k, v, failed2)
BY FirmMore, Zenon DEF Decided

\* A connection stays accounted for when it goes down.
LEMMA AccountedMore ==
    ASSUME NEW c, NEW said, NEW h, NEW v, NEW gone, NEW gone2, gone => gone2,
           Accounted(c, said, h, v, gone)
    PROVE  Accounted(c, said, h, v, gone2)
BY Zenon DEF Accounted

\* Steps between which nothing is said.
LEMMA Still ==
    ASSUME Talking, IInv', UNCHANGED <<todo, asked, answered, sent>>, taken' >= taken,
           Followed => Followed'
    PROVE  /\ Split' /\ Told' /\ Answered' /\ Said' = Said /\ cmd' = cmd
           /\ SoFar' = SoFar + (taken' - taken) /\ SoFar' \in Nat /\ SoFar \in Nat
           /\ SoFar <= SoFar'
<1>1. /\ Split /\ Told /\ Answered /\ Said \in Seq(Kinds) /\ SoFar \in Nat
      /\ asked \in 1 .. 2 /\ taken \in Nat /\ taken = SoFar + asked - 1
  BY SaidFacts DEF Talking, IInv, Talk
<1>2. taken' \in Nat
  BY DEF IInv, Typed
<1>3. Said' = Said /\ cmd' = cmd
  BY Zenon DEF Said, Begin, cmd
<1>4. SoFar' = taken' + 1 - asked
  BY DEF SoFar
<1>5. SoFar' = SoFar + (taken' - taken) /\ SoFar' \in Nat /\ SoFar <= SoFar'
  <2>1. SoFar = taken + 1 - asked
    BY DEF SoFar
  <2>2. \A p, q, a \in Int : q >= p =>
           /\ q + 1 - a = (p + 1 - a) + (q - p) /\ p + 1 - a <= q + 1 - a
           /\ q + 1 - a \in Int /\ (p + 1 - a \in Nat => q + 1 - a \in Nat)
    OBVIOUS
  <2>3. taken \in Int /\ taken' \in Int /\ asked \in Int
    BY <1>1, <1>2
  <2>4. /\ taken' + 1 - asked = (taken + 1 - asked) + (taken' - taken)
        /\ taken + 1 - asked <= taken' + 1 - asked
        /\ taken + 1 - asked \in Nat => taken' + 1 - asked \in Nat
    BY <2>2, <2>3
  <2> QED
    BY <1>1, <1>4, <2>1, <2>4, Zenon
<1>6. Split'
  BY <1>1, <1>2 DEF Split
<1>7. Told'
  BY <1>1 DEF Told
<1>8. Answered'
  BY <1>1, <1>3, Zenon DEF Answered
<1> QED
  BY <1>1, <1>3, <1>5, <1>6, <1>7, <1>8

\* An event leaves the read where it is.
LEMMA EventTalk ==
    ASSUME Talking, IInv', Closed', UNCHANGED <<todo, asked, answered, sent, at, verdict>>,
           taken' >= taken, Over => taken' = taken, at \notin Drains => Before' = Before,
           broken => broken', destroyed => destroyed', shut => shut', fin => fin'
    PROVE  Talking'
<1>0. Followed => Followed'
  BY DEF Followed
<1>1. /\ Split' /\ Told' /\ Answered' /\ Said' = Said /\ cmd' = cmd
      /\ SoFar' = SoFar + (taken' - taken) /\ SoFar' \in Nat /\ SoFar \in Nat /\ SoFar <= SoFar'
  BY <1>0, Still
<1>2. Said \in Seq(Kinds) /\ taken \in Nat
  BY SaidFacts DEF Talking, IInv, Talk
<1>3. Places'
  BY DEF Talking, Talk, Places
<1>4. Heeded'
  <2>1. Standing(at, cmd, Said, Before, SoFar)
    BY DEF Talking, Talk, Heeded
  <2>2. CASE at \in Drains
    <3>1. Standing(at, cmd, Said, Before', SoFar')
      BY <1>1, <2>1, <2>2, StandingDrain
    <3> QED
      BY <1>1, <3>1, Zenon DEF Heeded
  <2>3. CASE at \notin Drains
    <3>1. Standing(at, cmd, Said, Before, SoFar')
      BY <1>1, <2>1, StandingMore
    <3> QED
      BY <1>1, <2>3, <3>1, Zenon DEF Heeded
  <2> QED
    BY <2>2, <2>3
<1>5. Settling'
  <2>1. SoFar >= 1 => SoFar' >= 1
    BY <1>1
  <2>2. at \in {"drainEnd", "drainAll"} /\ verdict # "handed" =>
           Winding(cmd, Said, SoFar') /\ Decided(cmd, Said, SoFar', verdict, broken')
    <3> SUFFICES ASSUME at \in {"drainEnd", "drainAll"}, verdict # "handed"
                 PROVE  Winding(cmd, Said, SoFar') /\ Decided(cmd, Said, SoFar', verdict, broken')
      OBVIOUS
    <3>1. Winding(cmd, Said, SoFar) /\ Decided(cmd, Said, SoFar, verdict, broken)
      BY Zenon DEF Talking, Talk, Settling
    <3>2. Decided(cmd, Said, SoFar', verdict, broken')
      BY <1>1, <1>2, <3>1, DecidedMore
    <3> QED
      BY <2>1, <3>1, <3>2, Zenon DEF Winding
  <2>3. Over =>
          /\ Decided(cmd, Said, SoFar', verdict, broken')
          /\ \/ Accounted(cmd, Said, SoFar', verdict, destroyed')
             \/ GivenUp(Said, SoFar, verdict)'
          /\ answered = asked \/ fin' \/ destroyed' \/ GivenUp(Said, SoFar, verdict)'
    <3> SUFFICES ASSUME Over
                 PROVE  /\ Decided(cmd, Said, SoFar', verdict, broken')
                        /\ \/ Accounted(cmd, Said, SoFar', verdict, destroyed')
                           \/ GivenUp(Said, SoFar, verdict)'
                        /\ answered = asked \/ fin' \/ destroyed' \/ GivenUp(Said, SoFar, verdict)'
      OBVIOUS
    <3>1. /\ Decided(cmd, Said, SoFar, verdict, broken)
          /\ Accounted(cmd, Said, SoFar, verdict, destroyed) \/ GivenUp(Said, SoFar, verdict)
          /\ answered = asked \/ fin \/ destroyed \/ GivenUp(Said, SoFar, verdict)
      BY Zenon DEF Talking, Talk, Settling
    <3>2. SoFar' = SoFar
      BY <1>1, <1>2
    <3>3. Decided(cmd, Said, SoFar, verdict, broken')
      BY <1>1, <1>2, <3>1, DecidedMore
    <3>4. Accounted(cmd, Said, SoFar, verdict, destroyed) =>
             Accounted(cmd, Said, SoFar, verdict, destroyed')
      BY AccountedMore
    <3>5. GivenUp(Said, SoFar, verdict) => GivenUp(Said, SoFar, verdict)'
      BY <1>1, <3>2, Zenon DEF GivenUp, NoRefusal
    <3> QED
      BY <3>1, <3>2, <3>3, <3>4, <3>5, Zenon
  <2>4. Over' = Over
    BY DEF Over
  <2> QED
    BY <1>1, <2>2, <2>3, <2>4, Zenon DEF Settling
<1> QED
  BY <1>1, <1>3, <1>4, <1>5 DEF Talking, Talk

------------------------------------------------------------------------------
(***************************************************************************)
(* The reads and events.                                                   *)
(***************************************************************************)
LEMMA EofIs == /\ Eof.kind = "EOF" /\ Failed.kind = "ERROR" /\ Eof.kind \in Lost /\ Failed.kind \in Lost
               /\ \A x : x \in Lost <=> x = "EOF" \/ x = "ERROR"
BY DEF Eof, Failed, Tok, Lost

\* The positions in the stream.
LEMMA Bounds ==
    ASSUME Talking
    PROVE  /\ sent \in Seq(Token) /\ Len(sent) \in Nat /\ arrived \in 0 .. Len(sent)
           /\ taken \in 0 .. arrived /\ asked \in 1 .. 2 /\ answered \in 0 .. asked
           /\ asked - 1 <= taken
BY DEF Talking, Talk, IInv, Typed, Split

\* A read stands where the last one ended, with the next token or without.
LEMMA ReadBefore ==
    ASSUME Talking, NEW w, StartRead(w), UNCHANGED <<asked, sent, ended, server, socket>>
    PROVE  /\ at' = w /\ taken' >= taken /\ Before' = SoFar
           /\ Closed'
<1>1. /\ sent \in Seq(Token) /\ Len(sent) \in Nat /\ arrived \in 0 .. Len(sent)
      /\ taken \in 0 .. arrived /\ asked \in 1 .. 2
  BY Bounds
<1>2. SoFar = taken + 1 - asked /\ SoFar' = taken' + 1 - asked
  BY DEF SoFar
<1>3. /\ at' = w
      /\ \/ /\ arrived > taken
            /\ taken' = taken + 1 /\ token' = sent[taken + 1] /\ phase' = "gap"
         \/ /\ arrived = taken /\ taken' = taken /\ phase' = "gap" /\ token' = Eof /\ ended
         \/ /\ arrived = taken /\ taken' = taken /\ phase' = "waiting" /\ token' = token
  BY DEF StartRead
<1>4. Closed
  BY DEF Talking, Talk
<1>5. /\ fin' = fin /\ arrived' = arrived /\ broken' = broken /\ destroyed' = destroyed
      /\ shut' = shut /\ sent' = sent /\ ended' = ended
  BY DEF server, socket
<1>6. CASE /\ arrived > taken
           /\ taken' = taken + 1 /\ token' = sent[taken + 1] /\ phase' = "gap"
  <2>1. taken + 1 \in 1 .. Len(sent)
    BY <1>1, <1>6
  <2>2. token'.kind \notin Lost
    BY <1>6, <2>1 DEF Talking, Talk, Split
  <2>3. HasToken'
    BY <1>6, <2>2 DEF HasToken
  <2>4. Before' = SoFar' - 1
    BY <2>3, Zenon DEF Before
  <2>5. SoFar' - 1 = SoFar
    BY <1>1, <1>2, <1>6
  <2>6. ~ended
    BY <1>1, <1>4, <1>6 DEF Closed
  <2>7. Closed'
    BY <1>4, <1>5, <2>2, <2>6, EofIs DEF Closed, Left
  <2>8. taken' >= taken
    BY <1>1, <1>6
  <2> QED
    BY <1>3, <2>4, <2>5, <2>7, <2>8
<1>7. CASE /\ arrived = taken /\ taken' = taken
           /\ \/ phase' = "gap" /\ token' = Eof /\ ended
              \/ phase' = "waiting" /\ token' = token
  <2>1. ~HasToken'
    BY <1>7, EofIs DEF HasToken
  <2>2. Before' = SoFar' /\ SoFar' = SoFar
    BY <1>2, <1>7, <2>1, Zenon DEF Before
  <2>3. Closed'
    BY <1>4, <1>5, <1>7, EofIs DEF Closed, Left
  <2>4. taken' >= taken
    BY <1>1, <1>7
  <2> QED
    BY <1>3, <2>2, <2>3, <2>4
<1> QED
  BY <1>3, <1>6, <1>7

\* Reading nothing leaves the number of tokens acted upon.
LEMMA BeforeWaits ==
    ASSUME UNCHANGED <<asked, taken>>, ~HasToken, ~HasToken'
    PROVE  Before' = Before
BY Zenon DEF Before, SoFar

\* So does a step that leaves the read alone.
LEMMA BeforeSame ==
    ASSUME UNCHANGED <<asked, taken, phase, token>>
    PROVE  Before' = Before
BY Zenon DEF Before, SoFar, HasToken

\* Bytes that arrive change nothing the command has seen.
LEMMA ArriveTalk ==
    ASSUME Talking, Arrive
    PROVE  Talking'
<1>1. IInv'
  BY ArriveStep DEF Talking
<1>2. /\ sent' = sent /\ fin' = fin /\ answered' = answered /\ asked' = asked /\ todo' = todo
      /\ broken' = broken /\ destroyed' = destroyed /\ taken' = taken /\ at' = at
      /\ shut' = shut /\ phase' = phase /\ token' = token /\ ended' = ended /\ verdict' = verdict
  BY DEF Arrive, server, parser
<1>3. arrived' \in (arrived + 1) .. Len(sent)
  BY DEF Arrive
<1>4. Closed'
  BY <1>2, <1>3, Bounds DEF Closed, Left, Talking, Talk
<1>5. Before' = Before /\ taken' >= taken
  BY <1>2, BeforeSame, Bounds
<1> QED
  BY <1>1, <1>2, <1>4, <1>5, EventTalk

\* A read takes the next token of the running command.
LEMMA ReadableTalk ==
    ASSUME Talking, Readable
    PROVE  Talking'
<1>1. IInv'
  BY StreamStep DEF Talking
<1>2. /\ phase = "waiting" /\ arrived > taken /\ at # "over"
      /\ UNCHANGED <<todo, asked, server, socket, ended, verdict>>
  BY Zenon DEF Readable
<1>3. sent' = sent /\ fin' = fin /\ answered' = answered /\ asked' = asked /\ todo' = todo
      /\ broken' = broken /\ destroyed' = destroyed /\ arrived' = arrived
      /\ shut' = shut /\ verdict' = verdict /\ ended' = ended
  BY <1>2 DEF server, socket
<1>4. ~HasToken /\ Before = SoFar
  BY <1>2, Waits
<1>5. CASE at \in Drains /\ ReadMore /\ UNCHANGED at
  <2>1. taken' = arrived /\ phase' = phase /\ token' = token /\ at' = at
    BY <1>5 DEF ReadMore, ReadOut
  <2>2. taken' >= taken
    BY <2>1, Bounds
  <2>3. ~ended
    BY <1>2, Bounds DEF Closed, Talking, Talk
  <2>4. Closed'
    BY <1>2, <1>3, <2>1, <2>3 DEF Closed, Left, Talking, Talk
  <2> QED
    BY <1>1, <1>2, <1>3, <1>5, <2>1, <2>2, <2>4, EventTalk DEF Over
<1>6. CASE at \notin Drains /\ StartRead(at)
  <2>1. UNCHANGED <<asked, sent, ended, server, socket>>
    BY <1>2, <1>3
  <2>2. at' = at /\ taken' >= taken /\ Before' = SoFar /\ Closed'
    BY <1>6, <2>1, ReadBefore
  <2> QED
    BY <1>1, <1>2, <1>3, <1>4, <2>2, EventTalk DEF Over
<1> QED
  BY <1>5, <1>6, Zenon DEF Readable

\* The end of the stream settles a read with EOF.
LEMMA EndsTalk ==
    ASSUME Talking, StreamEnds
    PROVE  Talking'
<1>1. IInv'
  BY StreamStep DEF Talking
<1>2. /\ UNCHANGED <<todo, asked, server, socket, taken, at, verdict>>
      /\ fin /\ arrived = taken /\ ended' = TRUE
      /\ \/ phase = "waiting" /\ phase' = "gap" /\ token' = Eof
         \/ phase' = phase /\ token' = token
  BY Zenon DEF StreamEnds
<1>3. sent' = sent /\ fin' = fin /\ answered' = answered /\ asked' = asked /\ todo' = todo
      /\ broken' = broken /\ destroyed' = destroyed /\ arrived' = arrived
      /\ shut' = shut /\ verdict' = verdict /\ taken' = taken /\ at' = at
  BY <1>2 DEF server, socket
<1>4. Closed'
  <2>1. arrived = Len(sent)
    BY <1>2 DEF Closed, Talking, Talk
  <2>2. phase' = "gap" /\ token'.kind = "ERROR" => broken
    BY <1>2, EofIs DEF Closed, Talking, Talk
  <2> QED
    BY <1>2, <1>3, <2>1, <2>2 DEF Closed, Left, Talking, Talk
<1>5. Before' = Before
  <2>1. CASE phase = "waiting" /\ phase' = "gap" /\ token' = Eof
    <3>1. ~HasToken /\ ~HasToken'
      BY <2>1, EofIs DEF HasToken
    <3> QED
      BY <1>3, <3>1, BeforeWaits
  <2>2. CASE phase' = phase /\ token' = token
    BY <1>3, <2>2, BeforeSame
  <2> QED
    BY <1>2, <2>1, <2>2
<1>6. taken' >= taken
  BY <1>3, Bounds
<1> QED
  BY <1>1, <1>3, <1>4, <1>5, <1>6, EventTalk

\* An error of the stream settles a read with ERROR.
LEMMA BreaksTalk ==
    ASSUME Talking, StreamBreaks
    PROVE  Talking'
<1>1. IInv'
  BY StreamStep DEF Talking
<1>2. /\ UNCHANGED <<todo, asked, server, arrived, shut, taken, at, ended, verdict>>
      /\ broken' = TRUE /\ destroyed' = TRUE
      /\ \/ phase = "waiting" /\ phase' = "gap" /\ token' = Failed
         \/ phase' = phase /\ token' = token
  BY Zenon DEF StreamBreaks
<1>3. sent' = sent /\ fin' = fin /\ answered' = answered /\ asked' = asked /\ todo' = todo
      /\ arrived' = arrived /\ verdict' = verdict /\ taken' = taken /\ at' = at /\ ended' = ended
  BY <1>2 DEF server
<1>4. Closed'
  <2>1. phase' = "gap" /\ token'.kind = "EOF" => ended
    BY <1>2, EofIs DEF Closed, Talking, Talk
  <2> QED
    BY <1>2, <1>3, <2>1 DEF Closed, Talking, Talk, Left
<1>5. Before' = Before
  <2>1. CASE phase = "waiting" /\ phase' = "gap" /\ token' = Failed
    <3>1. ~HasToken /\ ~HasToken'
      BY <2>1, EofIs DEF HasToken
    <3> QED
      BY <1>3, <3>1, BeforeWaits
  <2>2. CASE phase' = phase /\ token' = token
    BY <1>3, <2>2, BeforeSame
  <2> QED
    BY <1>2, <2>1, <2>2
<1>6. taken' >= taken
  BY <1>3, Bounds
<1> QED
  BY <1>1, <1>2, <1>3, <1>4, <1>5, <1>6, EventTalk

\* A timeout of the socket settles it with ERROR too, and half-closes the socket.
LEMMA GivesUpTalk ==
    ASSUME Talking, SocketTimesOut
    PROVE  Talking'
<1>1. IInv'
  BY StreamStep DEF Talking
<1>2. /\ UNCHANGED <<todo, asked, server, arrived, destroyed, taken, at, ended, verdict>>
      /\ broken' = TRUE /\ shut' = TRUE
      /\ phase = "waiting" /\ phase' = "gap" /\ token' = Failed
  BY Zenon DEF SocketTimesOut
<1>3. sent' = sent /\ fin' = fin /\ answered' = answered /\ asked' = asked /\ todo' = todo
      /\ arrived' = arrived /\ verdict' = verdict /\ taken' = taken /\ at' = at /\ ended' = ended
      /\ destroyed' = destroyed
  BY <1>2 DEF server
<1>4. Closed'
  BY <1>2, <1>3, EofIs DEF Closed, Talking, Talk, Left
<1>5. Before' = Before
  <2>1. ~HasToken /\ ~HasToken'
    BY <1>2, EofIs DEF HasToken
  <2> QED
    BY <1>3, <2>1, BeforeWaits
<1>6. taken' >= taken
  BY <1>3, Bounds
<1> QED
  BY <1>1, <1>2, <1>3, <1>4, <1>5, <1>6, EventTalk

------------------------------------------------------------------------------
(***************************************************************************)
(* The server.                                                             *)
(***************************************************************************)
SaidRight == Said = SaidOf(sent, asked)

\* Said has its closed form in this state.
LEMMA SaidNow == Typed /\ Split => SaidRight
BY SaidIs DEF SaidRight

\* And in the next one.
LEMMA SaidNext == Typed' /\ Split' => SaidRight'
BY SaidNow, PTL

\* The next Said in terms of the next stream.
LEMMA SaidThen == Typed' /\ Split' => Said' = SaidOf(sent', asked')
BY SaidNext, Zenon DEF SaidRight

\* Until the running command is answered its first reply is awaited, or was in vain.
LEMMA Unanswered ==
    ASSUME Talking, ~fin, ~destroyed, answered < asked
    PROVE  /\ Len(sent) = asked - 1 /\ taken = Len(sent) /\ SoFar = 0 /\ ~Followed
           /\ \/ at = "reply" /\ verdict = "none" /\ Before = 0 /\ ~Over
              \/ at = "over" /\ GivenUp(Said, SoFar, verdict)
<1>1. /\ Len(sent) \in Nat /\ arrived \in 0 .. Len(sent)
      /\ taken \in 0 .. arrived /\ asked \in 1 .. 2 /\ answered \in 0 .. asked
      /\ asked - 1 <= taken
  BY Bounds
<1>2. Len(sent) = asked - 1 /\ taken = asked - 1
  BY <1>1 DEF Talking, Talk, Told
<1>3. SoFar = 0
  BY <1>1, <1>2 DEF SoFar
<1>4. Before \in {0, 0 - 1}
  <2>1. Before = SoFar \/ Before = SoFar - 1
    BY Zenon DEF Before
  <2> QED
    BY <1>3, <2>1
<1>5. verdict # "handed"
  BY <1>1 DEF Talking, Talk, Places
<1>6. at \notin {"list", "gone", "idle"}
  BY <1>5 DEF Talking, Talk, Places
<1>7. CASE at = "over"
  <2>1. GivenUp(Said, SoFar, verdict)
    BY <1>1, <1>7 DEF Talking, Talk, Settling, Over
  <2> QED
    BY <1>2, <1>3, <1>7, <2>1 DEF Followed
<1>8. CASE at # "over"
  <2>1. Standing(at, cmd, Said, Before, 0)
    BY <1>3, Zenon DEF Talking, Talk, Heeded
  <2>2. at \notin {"drainEnd", "drainAll"}
    BY <1>3, <1>5 DEF Talking, Talk, Settling, Winding
  <2>3. at \notin {"secondReply", "valueLength", "valueText", "bytes", "line", "exceptionLine",
                   "all"}
    BY <1>4, <2>1 DEF Standing
  <2>4. at \notin FailReads
    BY <2>1 DEF Standing, Doomed
  <2>5. at = "reply"
    <3>1. at \in Reads \cup {"over", "list", "gone", "idle"}
      BY DEF Talking, Talk, Places
    <3> QED
      BY <1>6, <1>8, <2>2, <2>3, <2>4, <3>1
         DEF Reads, Replies, FailReads, ValueReads, LineReads, Drains
  <2>6. Before = 0
    BY <2>1, <2>5 DEF Standing
  <2>7. verdict = "none"
    <3>1. "reply" \in Reads \ {"drainEnd", "drainAll"}
      BY DEF Reads, Replies
    <3> QED
      BY <2>5, <3>1 DEF Talking, Talk, Places
  <2> QED
    BY <1>2, <1>3, <1>8, <2>5, <2>6, <2>7 DEF Followed, Over
<1> QED
  BY <1>7, <1>8

\* The elements of two sequences put together.
LEMMA Appended ==
    ASSUME NEW s \in Seq(Token), NEW t \in Seq(Token)
    PROVE  /\ s \o t \in Seq(Token) /\ Len(s \o t) = Len(s) + Len(t)
           /\ \A i \in 1 .. Len(s) : (s \o t)[i] = s[i]
           /\ \A i \in 1 .. Len(t) : (s \o t)[Len(s) + i] = t[i]
OBVIOUS

\* The server's answer is one the running command may get.
LEMMA ServerTalk ==
    ASSUME Talking, ServerAnswers
    PROVE  Talking'
<1>1. IInv'
  BY ServerStep DEF Talking
<1>2. /\ ~fin /\ ~destroyed /\ answered < asked /\ answered' = asked
      /\ UNCHANGED <<todo, asked, fin, socket, parser, verdict>>
  BY DEF ServerAnswers
<1>3. /\ asked' = asked /\ todo' = todo /\ fin' = fin /\ arrived' = arrived /\ broken' = broken
      /\ shut' = shut /\ destroyed' = destroyed /\ taken' = taken /\ at' = at /\ phase' = phase
      /\ token' = token /\ ended' = ended /\ verdict' = verdict
  BY <1>2 DEF socket, parser
<1>4. /\ Len(sent) = asked - 1 /\ taken = Len(sent) /\ SoFar = 0 /\ ~Followed
      /\ \/ at = "reply" /\ verdict = "none" /\ Before = 0 /\ ~Over
         \/ at = "over" /\ GivenUp(Said, SoFar, verdict)
  BY <1>2, Unanswered
<1>5. PICK a \in Answers(cmd) :
          sent' = sent \o [i \in 1 .. Len(a) |-> Tok(a[i], asked)]
  BY DEF ServerAnswers
<1> DEFINE b == [i \in 1 .. Len(a) |-> Tok(a[i], asked)]
<1>6. a \in Seq(Kinds) /\ \A i \in 1 .. Len(a) : a[i] \notin Lost
  BY CmdType, AnswerKinds DEF Talking, IInv
<1>7. /\ sent \in Seq(Token) /\ Len(sent) \in Nat /\ asked \in 1 .. 2
  BY Bounds
<1>8. b \in Seq(Token) /\ Len(b) = Len(a)
  <2>1. \A i \in 1 .. Len(a) : Tok(a[i], asked) \in Token
    BY <1>6, <1>7 DEF Tok, Token
  <2> QED
    BY <2>1, <1>6
<1>9. \A i \in 1 .. Len(a) : b[i].of = asked /\ b[i].kind = a[i]
  BY <1>6 DEF Tok
<1>10. sent' = sent \o b
  BY <1>5
<1> HIDE DEF b
<1>11. /\ sent' \in Seq(Token) /\ Len(sent') = Len(sent) + Len(a)
       /\ \A i \in 1 .. Len(sent) : sent'[i] = sent[i]
       /\ \A i \in 1 .. Len(a) : sent'[Len(sent) + i] = b[i]
  <2>1. /\ sent' \in Seq(Token) /\ Len(sent') = Len(sent) + Len(b)
        /\ \A i \in 1 .. Len(sent) : sent'[i] = sent[i]
        /\ \A i \in 1 .. Len(b) : sent'[Len(sent) + i] = b[i]
    BY <1>7, <1>8, <1>10, Appended, Zenon
  <2> QED
    BY <2>1, <1>8, Zenon
<1>12. \A i \in 1 .. Len(sent') : i >= asked =>
           i - Len(sent) \in 1 .. Len(a) /\ sent'[i] = b[i - Len(sent)]
  <2> SUFFICES ASSUME NEW i \in 1 .. Len(sent'), i >= asked
               PROVE  i - Len(sent) \in 1 .. Len(a) /\ sent'[i] = b[i - Len(sent)]
    OBVIOUS
  <2>1. i - Len(sent) \in 1 .. Len(a) /\ Len(sent) + (i - Len(sent)) = i
    BY <1>4, <1>6, <1>7, <1>11
  <2> QED
    BY <1>11, <2>1
<1>13. Split'
  <2>1. asked - 1 <= taken
    BY <1>4, <1>7
  <2>2. \A i \in 1 .. Len(sent') : i >= asked => sent'[i].of = asked /\ sent'[i].kind \notin Lost
    BY <1>6, <1>9, <1>12
  <2>3. \A i \in 1 .. Len(sent') : ~(i >= asked) => i \in 1 .. Len(sent)
    BY <1>4, <1>7
  <2>4. \A i \in 1 .. Len(sent') : sent'[i].kind \notin Lost
    BY <1>11, <2>2, <2>3 DEF Talking, Talk, Split
  <2>5. asked = 2 => sent'[1] = Tok("OKAY", 1)
    <3>1. asked = 2 => 1 \in 1 .. Len(sent)
      BY <1>4, <1>7
    <3> QED
      BY <1>11, <3>1 DEF Talking, Talk, Split
  <2> QED
    BY <1>3, <2>1, <2>2, <2>4, <2>5, Zenon DEF Split
<1>14. Said' = SaidOf(sent', asked)
  BY <1>1, <1>3, <1>13, SaidThen DEF IInv
<1>15. PrefixOf(Said', a)
  <2>1. asked \in 1 .. Len(sent') + 1
    BY <1>4, <1>6, <1>7, <1>11
  <2>2. /\ Len(Said') = Len(sent') + 1 - asked
        /\ \A i \in 1 .. Len(sent') + 1 - asked :
              Said'[i] = sent'[asked + i - 1].kind /\ asked + i - 1 \in 1 .. Len(sent')
    BY <1>11, <1>14, <2>1, SaidOfType
  <2>3. Len(sent') + 1 - asked = Len(a)
    BY <1>4, <1>6, <1>7, <1>11
  <2>4. \A i \in 1 .. Len(a) : asked + i - 1 >= asked /\ (asked + i - 1) - Len(sent) = i
    BY <1>4, <1>6, <1>7
  <2>5. \A i \in 1 .. Len(a) : Said'[i] = a[i]
    <3> SUFFICES ASSUME NEW i \in 1 .. Len(a) PROVE Said'[i] = a[i]
      OBVIOUS
    <3>1. Said'[i] = sent'[asked + i - 1].kind /\ asked + i - 1 \in 1 .. Len(sent')
      BY <2>2, <2>3
    <3>2. sent'[asked + i - 1] = b[(asked + i - 1) - Len(sent)]
      BY <1>12, <2>4, <3>1
    <3> QED
      BY <1>9, <2>4, <3>1, <3>2
  <2>6. Len(Said') = Len(a) /\ Len(a) \in Nat
    BY <1>6, <2>2, <2>3
  <2> QED
    BY <2>5, <2>6 DEF PrefixOf
<1>16. cmd' = cmd
  BY <1>3 DEF cmd
<1>17. Answered' /\ Told'
  <2>1. Told'
    BY <1>2, <1>3, <1>7 DEF Told
  <2> QED
    BY <1>5, <1>15, <1>16, <2>1, Zenon DEF Answered
<1>18. Heeded'
  <2>1. Before' = Before
    BY <1>3, BeforeSame
  <2> QED
    BY <1>3, <1>4, <2>1 DEF Heeded, Standing, FailReads
<1>19. Settling'
  <2>1. CASE at = "over"
    <3>1. SoFar' = 0 /\ verdict = "error" /\ broken /\ shut
      BY <1>3, <1>4, <2>1 DEF SoFar, GivenUp
    <3>2. GivenUp(Said, SoFar, verdict)' /\ Decided(cmd, Said, SoFar, verdict, broken)'
      BY <1>3, <3>1 DEF GivenUp, NoRefusal, Decided
    <3> QED
      BY <1>2, <1>3, <2>1, <3>2, Zenon DEF Settling, Over
  <2>2. CASE at # "over"
    BY <1>3, <1>4, <2>2 DEF Settling, Over
  <2> QED
    BY <2>1, <2>2
<1>20. Places'
  BY <1>2, <1>3, <1>4 DEF Places, Talking, Talk
<1>21. Closed'
  BY <1>2, <1>3 DEF Closed, Left, Talking, Talk
<1> QED
  BY <1>1, <1>13, <1>17, <1>18, <1>19, <1>20, <1>21 DEF Talking, Talk

\* What was said of a stream that is cut off.
LEMMA SaidCut ==
    ASSUME NEW s \in Seq(Token), NEW n \in 1 .. 2, NEW k \in n - 1 .. Len(s)
    PROVE  /\ SaidOf(SubSeq(s, 1, k), n) = SubSeq(SaidOf(s, n), 1, k + 1 - n)
           /\ k + 1 - n \in 0 .. Len(SaidOf(s, n))
<1> DEFINE m == k + 1 - n
<1> DEFINE t == SubSeq(s, 1, k)
<1> DEFINE u == SaidOf(s, n)
<1>1. /\ t \in Seq(Token) /\ Len(t) = k /\ \A i \in 1 .. k : t[i] = s[i]
  OBVIOUS
<1>2. u \in Seq(Kinds) /\ Len(u) = Len(s) + 1 - n
      /\ \A i \in 1 .. Len(s) + 1 - n : u[i] = s[n + i - 1].kind
  <2>1. n \in 1 .. Len(s) + 1
    OBVIOUS
  <2> QED
    BY <2>1, SaidOfType
<1>3. m \in 0 .. Len(u) /\ Len(t) + 1 - n = m
  BY <1>1, <1>2
<1>4. \A i \in 1 .. m : i \in 1 .. Len(s) + 1 - n /\ n + i - 1 \in 1 .. k
  OBVIOUS
<1>5. SaidOf(t, n) = [i \in 1 .. m |-> t[n + i - 1].kind]
  BY <1>3 DEF SaidOf
<1>a. m \in Nat
  BY <1>3
<1> HIDE DEF m, t, u
<1>6. SubSeq(u, 1, m) = [i \in 1 .. m |-> u[i]]
  BY <1>2, <1>3
<1>7. \A i \in 1 .. m : t[n + i - 1].kind = u[i]
  BY <1>1, <1>2, <1>4
<1>8. SaidOf(t, n) = SubSeq(u, 1, m)
  BY <1>5, <1>6, <1>7
<1> QED
  BY <1>3, <1>8 DEF m, t, u

\* A close cuts off what has not arrived.  What is decided stays so.
LEMMA CloseTalk ==
    ASSUME Talking, ServerCloses
    PROVE  Talking'
<1>1. IInv'
  BY CloseStep DEF Talking
<1>2. /\ ~fin /\ fin' = TRUE /\ sent' = SubSeq(sent, 1, arrived)
      /\ UNCHANGED <<todo, asked, answered, socket, parser, verdict>>
  BY DEF ServerCloses
<1>3. /\ asked' = asked /\ todo' = todo /\ answered' = answered /\ arrived' = arrived
      /\ broken' = broken /\ shut' = shut
      /\ destroyed' = destroyed /\ taken' = taken /\ at' = at /\ phase' = phase
      /\ token' = token /\ ended' = ended /\ verdict' = verdict
  BY <1>2 DEF socket, parser
<1>4. /\ sent \in Seq(Token) /\ Len(sent) \in Nat /\ arrived \in 0 .. Len(sent)
      /\ taken \in 0 .. arrived /\ asked \in 1 .. 2 /\ answered \in 0 .. asked
      /\ asked - 1 <= taken
  BY Bounds
<1>5. Len(sent') = arrived /\ \A i \in 1 .. arrived : sent'[i] = sent[i] /\ i \in 1 .. Len(sent)
  BY <1>2, <1>4
<1>6. Split'
  <2>1. asked = 2 => 1 \in 1 .. arrived
    BY <1>4
  <2> QED
    BY <1>3, <1>4, <1>5, <2>1 DEF Talking, Talk, Split
<1>7. Told'
  BY <1>3, <1>4, <1>5 DEF Talking, Talk, Told
<1>8. /\ Said \in Seq(Kinds) /\ Len(Said) = Len(sent) + 1 - asked /\ SoFar \in 0 .. Len(Said)
      /\ SoFar = taken + 1 - asked
  BY SaidFacts DEF Talking, IInv, Talk, SoFar
<1> DEFINE m == arrived + 1 - asked
<1>9. m \in SoFar .. Len(Said) /\ m \in 0 .. Len(Said)
  BY <1>4, <1>8
<1>10. Said' = SubSeq(Said, 1, m)
  <2>1. Said = SaidOf(sent, asked)
    BY SaidIs DEF Talking, IInv, Talk
  <2>2. Said' = SaidOf(SubSeq(sent, 1, arrived), asked)
    BY <1>1, <1>2, <1>3, <1>6, SaidThen DEF IInv
  <2>3. arrived \in asked - 1 .. Len(sent)
    BY <1>4
  <2> QED
    BY <1>4, <2>1, <2>2, <2>3, SaidCut
<1> HIDE DEF m
<1>11. IsPart(Said', Said) /\ Len(Said') = m
  BY <1>8, <1>9, <1>10, Clip
<1>12. cmd' = cmd /\ SoFar' = SoFar /\ Before' = Before
  BY <1>3, BeforeSame DEF cmd, SoFar
<1>13. Answered'
  <2> SUFFICES ASSUME ~Followed, answered = asked PROVE \E a \in Answers(cmd) : PrefixOf(Said', a)
    BY <1>3, <1>12, Zenon DEF Answered, Followed
  <2>1. PICK a \in Answers(cmd) : PrefixOf(Said, a)
    BY DEF Talking, Talk, Answered
  <2>2. a \in Seq(Kinds)
    BY CmdType, AnswerKinds DEF Talking, IInv
  <2>3. PrefixOf(Said', a)
    BY <1>8, <1>11, <2>1, <2>2 DEF PrefixOf, IsPart
  <2> QED
    BY <2>3
<1>14. Places'
  BY <1>3 DEF Places, Talking, Talk
<1>15. Closed'
  BY <1>2, <1>3, <1>5 DEF Closed, Left, Talking, Talk
<1>16. Heeded'
  <2>1. Before \in Int /\ Before <= SoFar
    <3>1. Before = SoFar \/ Before = SoFar - 1
      BY Zenon DEF Before
    <3> QED
      BY <1>8, <3>1
  <2>2. Standing(at, cmd, Said, Before, SoFar)
    BY DEF Talking, Talk, Heeded
  <2>3. SoFar \in Nat /\ SoFar <= Len(Said') /\ Len(Said') \in Nat
        /\ \A i \in 1 .. Len(Said') : Said'[i] = Said[i]
    BY <1>8, <1>9, <1>11 DEF IsPart
  <2>4. Standing(at, cmd, Said', Before, SoFar)
    BY <2>1, <2>2, <2>3, StandingCut
  <2> QED
    BY <1>3, <1>12, <2>4, Zenon DEF Heeded
<1>17. \A v, failed : Decided(cmd, Said, SoFar, v, failed) => Decided(cmd, Said', SoFar, v, failed)
  <2>1. \A v : Firm(cmd, Said, SoFar, v) => Firm(cmd, Said', SoFar, v)
    <3>1. SoFar \in Nat
      BY <1>8
    <3> QED
      BY <1>8, <1>9, <1>10, <3>1, FirmCut, Zenon
  <2> QED
    BY <2>1, Zenon DEF Decided
<1>18. \A v, gone : Accounted(cmd, Said, SoFar, v, gone) => Accounted(cmd, Said', SoFar, v, gone)
  <2>1. SoFar = Len(Said) => SoFar = Len(Said')
    BY <1>8, <1>9, <1>11
  <2>2. \A i \in 1 .. Len(Said') : Said'[i] = Said[i] /\ i \in 1 .. Len(Said)
    BY <1>8, <1>9, <1>11 DEF IsPart
  <2>3. \A i \in 1 .. SoFar : Said'[i] = Said[i]
    BY <1>8, <1>9, <1>11, <2>2
  <2> QED
    BY <2>1, <2>2, <2>3, Zenon DEF Accounted
<1>19. Settling'
  <2>1. SoFar >= 1 => Said'[1] = Said[1]
    BY <1>8, <1>9, <1>11 DEF IsPart
  <2>2. Winding(cmd, Said, SoFar) => Winding(cmd, Said', SoFar)
    BY <2>1, Zenon DEF Winding
  <2>3. Settling
    BY DEF Talking, Talk
  <2>4. GivenUp(Said, SoFar, verdict) => GivenUp(Said', SoFar, verdict)
    <3>1. \A i \in 1 .. SoFar : Said'[i] = Said[i]
      BY <1>8, <1>9, <1>11 DEF IsPart
    <3> QED
      BY <3>1 DEF GivenUp, NoRefusal
  <2>5. GivenUp(Said, SoFar, verdict)' = GivenUp(Said', SoFar, verdict)
    BY <1>3, <1>12, Zenon DEF GivenUp, NoRefusal
  <2> QED
    BY <1>2, <1>3, <1>12, <1>17, <1>18, <2>2, <2>3, <2>4, <2>5, Zenon DEF Settling, Over
<1> QED
  BY <1>1, <1>6, <1>7, <1>13, <1>14, <1>15, <1>16, <1>19 DEF Talking, Talk

------------------------------------------------------------------------------
(***************************************************************************)
(* How a continuation ends.                                                *)
(***************************************************************************)
LEMMA ReadOnTalk ==
    ASSUME Talking, IInv', NEW w \in Reads \ Drains, StartRead(w), ~Followed, verdict = "none",
           UNCHANGED <<todo, asked, server, socket, ended, verdict>>,
           Standing(w, cmd, Said, SoFar, SoFar)
    PROVE  Talking'
<1>1. sent' = sent /\ answered' = answered /\ asked' = asked /\ todo' = todo /\ verdict' = verdict
      /\ UNCHANGED <<asked, sent, ended, server, socket>>
  BY DEF server
<1>2. at' = w /\ taken' >= taken /\ Before' = SoFar /\ Closed'
  BY <1>1, ReadBefore
<1>3. /\ Split' /\ Told' /\ Answered' /\ Said' = Said /\ cmd' = cmd
      /\ SoFar' \in Nat /\ SoFar \in Nat /\ SoFar <= SoFar'
  BY <1>1, <1>2, Still
<1>4. Standing(w, cmd, Said, SoFar, SoFar')
  BY <1>3, StandingMore
<1>5. Heeded'
  BY <1>2, <1>3, <1>4, Zenon DEF Heeded
<1>6. w \notin {"list", "gone", "idle", "drainEnd", "drainAll", "over"}
  BY DEF Reads, Replies, FailReads, ValueReads, LineReads, Drains
<1>7. Settling' /\ Places'
  BY <1>1, <1>2, <1>6 DEF Settling, Places, Over
<1> QED
  BY <1>2, <1>3, <1>5, <1>7 DEF Talking, Talk

\* A command settles with a verdict that follows from its answer.
LEMMA SettleTalk ==
    ASSUME Talking, IInv', NEW v \in Verdicts, Settle(v), ~Followed,
           UNCHANGED <<todo, asked, server, arrived, broken, shut>>, destroyed => destroyed',
           Decided(cmd, Said, SoFar, v, broken),
           Accounted(cmd, Said, SoFar, v, destroyed') \/ GivenUp(Said, SoFar, v),
           answered = asked \/ fin \/ destroyed' \/ GivenUp(Said, SoFar, v),
           v = "handed" => answered = asked /\ Len(todo) = 1
    PROVE  Talking'
<1>1. /\ sent' = sent /\ answered' = answered /\ asked' = asked /\ todo' = todo /\ fin' = fin
      /\ arrived' = arrived /\ broken' = broken /\ shut' = shut
      /\ at' = "over" /\ verdict' = v /\ taken' = taken /\ phase' = phase /\ token' = token
      /\ ended' = ended
  BY DEF server, Settle
<1>2. taken' >= taken
  BY <1>1, Bounds
<1>3. /\ Split' /\ Told' /\ Answered' /\ Said' = Said /\ cmd' = cmd
      /\ SoFar' = SoFar
  <2>1. SoFar' = SoFar
    BY <1>1, Zenon DEF SoFar
  <2> QED
    BY <1>1, <1>2, <2>1, Still
<1>4. Closed'
  BY <1>1 DEF Closed, Left, Talking, Talk
<1>5. Heeded'
  BY <1>1 DEF Heeded, Standing, FailReads
<1>6. Settling'
  <2>1. GivenUp(Said, SoFar, v) => GivenUp(Said, SoFar, verdict)'
    <3>1. broken' = broken /\ shut' = shut /\ verdict' = v /\ Said' = Said /\ SoFar' = SoFar
      BY <1>1, <1>3
    <3> QED
      BY <3>1 DEF GivenUp, NoRefusal
  <2> QED
    BY <1>1, <1>3, <2>1, Zenon DEF Settling, Over
<1>7. Places'
  <2>1. v # "none"
    BY DEF Verdicts
  <2>2. "over" \notin Reads
    BY DEF Reads, Replies, FailReads, ValueReads, LineReads, Drains
  <2> QED
    BY <1>1, <2>1, <2>2 DEF Places
<1> QED
  BY <1>3, <1>4, <1>5, <1>6, <1>7 DEF Talking, Talk

\* A command settles and reads the connection out.
LEMMA WindTalk ==
    ASSUME Talking, IInv', NEW w \in {"drainEnd", "drainAll"}, at' = w, ~Followed,
           NEW v \in Verdicts \ {"handed"}, verdict' = v,
           UNCHANGED <<todo, asked, server, arrived, broken, destroyed>>, taken' >= taken, Closed',
           Winding(cmd, Said, SoFar), Decided(cmd, Said, SoFar, v, broken)
    PROVE  Talking'
<1>1. /\ sent' = sent /\ answered' = answered /\ asked' = asked /\ todo' = todo /\ fin' = fin
      /\ broken' = broken
  BY DEF server
<1>2. /\ Split' /\ Told' /\ Answered' /\ Said' = Said /\ cmd' = cmd
      /\ SoFar' \in Nat /\ SoFar \in Nat /\ SoFar <= SoFar'
  BY <1>1, Still
<1>3. Heeded'
  BY DEF Heeded, Standing, FailReads
<1>4. Settling'
  <2>1. Said \in Seq(Kinds)
    BY SaidFacts DEF Talking, IInv, Talk
  <2>2. Decided(cmd, Said, SoFar', v, broken)
    BY <1>2, <2>1, DecidedMore
  <2>3. Winding(cmd, Said, SoFar')
    BY <1>2 DEF Winding
  <2> QED
    BY <1>1, <1>2, <2>2, <2>3 DEF Settling, Over
<1>5. Places'
  <2>1. v # "none"
    BY DEF Verdicts
  <2>2. w \in Reads
    BY DEF Reads, Drains
  <2> QED
    BY <2>1, <2>2 DEF Places
<1> QED
  BY <1>2, <1>3, <1>4, <1>5 DEF Talking, Talk

\* Reading all takes what is there, and knows of an end that was.
LEMMA ReadAllCloses ==
    ASSUME Talking, NEW w, StartReadAll(w), UNCHANGED <<server, socket, ended>>
    PROVE  at' = w /\ taken' >= taken /\ Closed'
<1>1. /\ sent' = sent /\ fin' = fin /\ arrived' = arrived /\ broken' = broken
      /\ destroyed' = destroyed /\ shut' = shut /\ ended' = ended
  BY DEF server, socket
<1>2. /\ at' = w /\ taken' = arrived
      /\ \/ phase' = "waiting" /\ token' = token
         \/ phase' = "gap" /\ token' = Eof /\ ended
  BY Zenon DEF StartReadAll, ReadOut
<1>3. taken' >= taken
  BY <1>2, Bounds
<1>4. Closed'
  BY <1>1, <1>2, EofIs DEF Closed, Left, Talking, Talk
<1> QED
  BY <1>2, <1>3, <1>4

\* Parser.end waits for the end, and knows of one that was.
LEMMA EndCloses ==
    ASSUME Talking, StartEnd, UNCHANGED <<server, arrived, broken, destroyed, ended>>
    PROVE  at' = "drainEnd" /\ taken' = taken /\ taken' >= taken /\ Closed'
<1>1. /\ sent' = sent /\ fin' = fin /\ arrived' = arrived /\ broken' = broken
      /\ destroyed' = destroyed /\ ended' = ended /\ (shut => shut')
  BY Zenon DEF server, StartEnd, HalfClose
<1>2. /\ at' = "drainEnd" /\ taken' = taken
      /\ \/ phase' = "waiting" /\ token' = token
         \/ phase' = "gap" /\ token' = Eof /\ ended
  BY Zenon DEF StartEnd
<1>3. taken' >= taken
  BY <1>2, Bounds
<1>4. Closed'
  BY <1>1, <1>2, EofIs DEF Closed, Left, Talking, Talk
<1> QED
  BY <1>2, <1>3, <1>4

\* A command settles and runs its .finally().
LEMMA FinishTalk ==
    ASSUME Talking, IInv', NEW v \in Verdicts, Finish(v), ~Followed,
           UNCHANGED <<todo, asked, server, arrived, broken, destroyed>>,
           Decided(cmd, Said, SoFar, v, broken),
           cmd.drain = "none" =>
              /\ Accounted(cmd, Said, SoFar, v, destroyed) \/ GivenUp(Said, SoFar, v)
              /\ answered = asked
              /\ v = "handed" => answered = asked /\ Len(todo) = 1,
           cmd.drain # "none" => v # "handed" /\ Winding(cmd, Said, SoFar)
    PROVE  Talking'
<1>1. CASE cmd.drain = "none" /\ Settle(v) /\ UNCHANGED shut
  <2>1. destroyed' = destroyed /\ UNCHANGED <<todo, asked, server, arrived, broken, shut>>
    BY <1>1
  <2> QED
    BY <1>1, <2>1, SettleTalk
<1>2. CASE cmd.drain = "end" /\ verdict' = v /\ StartEnd /\ UNCHANGED ended
  <2>1. at' = "drainEnd" /\ taken' >= taken /\ Closed'
    BY <1>2, EndCloses
  <2> QED
    BY <1>2, <2>1, WindTalk
<1>3. CASE cmd.drain = "all" /\ verdict' = v /\ StartReadAll("drainAll") /\ UNCHANGED <<shut, ended>>
  <2>1. UNCHANGED <<server, socket, ended>>
    BY <1>3 DEF socket
  <2>2. at' = "drainAll" /\ taken' >= taken /\ Closed'
    BY <1>3, <2>1, ReadAllCloses
  <2> QED
    BY <1>3, <2>2, WindTalk
<1> QED
  BY <1>1, <1>2, <1>3, Zenon DEF Finish

------------------------------------------------------------------------------
(***************************************************************************)
(* The continuations.                                                      *)
(***************************************************************************)
LEMMA Reading ==
    ASSUME Talking, verdict # "handed"
    PROVE  /\ ~Followed /\ Speech(cmd, Said, SoFar) /\ Standing(at, cmd, Said, Before, SoFar)
           /\ SoFar \in Nat /\ SoFar <= Len(Said) /\ Said \in Seq(Kinds)
           /\ SoFar >= 1 => answered = asked
           /\ at \in Reads \ {"drainEnd", "drainAll"} => verdict = "none"
           /\ cmd.reads # "nothing" => Len(todo) = 1
           /\ cmd \in CommandType /\ CommandFacts(cmd)
<1>1. ~Followed
  BY DEF Talking, Talk, Places, Followed
<1>2. Speech(cmd, Said, SoFar)
  BY <1>1, Speaks
<1>3. /\ Said \in Seq(Kinds) /\ Len(Said) = Len(sent) + 1 - asked /\ SoFar \in 0 .. Len(Said)
      /\ asked \in 1 .. 2 /\ Len(sent) \in Nat
  BY SaidFacts DEF Talking, IInv, Talk
<1>4. SoFar >= 1 => answered = asked
  BY <1>3, Bounds DEF Talking, Talk, Told
<1>5. cmd.reads # "nothing" => Len(todo) = 1
  <2>1. Transport.reads = "nothing"
    BY DEF Transport, Server
  <2>2. Len(todo) \in 1 .. 2 /\ (Len(todo) = 2 => cmd = Transport)
    BY CmdType DEF Talking, IInv
  <2>3. Len(todo) = 1 \/ Len(todo) = 2
    BY <2>2
  <2> QED
    BY <2>1, <2>2, <2>3, Zenon
<1> QED
  BY <1>1, <1>2, <1>3, <1>4, <1>5 DEF Talking, Talk, Heeded, Places, Speech

\* A continuation that was given a token.
LEMMA Heard1 ==
    ASSUME Talking, verdict # "handed", NEW where, NEW kinds, Got(where, kinds),
           \A x \in kinds : x \notin Lost
    PROVE  /\ at \in where /\ token.kind \in kinds /\ Before = SoFar - 1
           /\ SoFar >= 1 => Said[SoFar] = token.kind /\ answered = asked
<1>1. phase = "gap" /\ token.kind \in kinds /\ at \in where
  BY DEF Got
<1>2. token.kind \notin Lost
  BY <1>1
<1> QED
  BY <1>1, <1>2, Hears, Reading

\* And one that was given none: the stream is over, with everything read, or it
\* has failed.
LEMMA HeardNothing ==
    ASSUME Talking, phase = "gap", token.kind \in Lost
    PROVE  /\ Before = SoFar
           /\ token.kind = "EOF" => fin /\ SoFar = Len(Said)
           /\ token.kind = "ERROR" => broken /\ (destroyed \/ shut)
           /\ token.kind \in {"EOF", "ERROR"}
<1>1. Before = SoFar
  BY Waits
<1>2. token.kind = "EOF" => fin /\ taken = Len(sent)
  BY DEF Talking, Talk, Closed
<1>3. token.kind = "ERROR" => broken /\ (destroyed \/ shut)
  BY DEF Talking, Talk, Closed, Left
<1>4. Len(Said) = Len(sent) + 1 - asked /\ SoFar = taken + 1 - asked
  BY SaidFacts DEF Talking, IInv, Talk, SoFar
<1> QED
  BY <1>1, <1>2, <1>3, <1>4, EofIs

\* What was read before a read that waits in vain was no refusal, unless the read
\* is for the message of one.
LEMMA AcceptedSoFar ==
    ASSUME Talking, verdict # "handed", at \in Reads \ FailReads, Before = SoFar
    PROVE  NoRefusal(Said, SoFar)
<1>1. /\ Speech(cmd, Said, SoFar) /\ Standing(at, cmd, Said, SoFar, SoFar)
      /\ SoFar \in Nat /\ SoFar <= Len(Said) /\ Len(Said) \in Nat
  BY Reading
<1>2. CASE SoFar = 0
  BY <1>2 DEF NoRefusal
<1>3. CASE SoFar = 1 /\ Said[1] = "OKAY"
  BY <1>3 DEF NoRefusal
<1>4. CASE SoFar >= 1 /\ Said[1] = "OKAY" /\ cmd.reads # "reply"
  <2>1. \A i \in 1 .. Len(Said) : Said[i] \notin {"FAIL", "JUNK"}
    BY <1>1, <1>4, Clean
  <2> QED
    BY <1>1, <2>1 DEF NoRefusal
<1>5. CASE at \in {"drainEnd", "drainAll"}
  <2>1. Winding(cmd, Said, SoFar)
    BY <1>5, Zenon DEF Talking, Talk, Settling
  <2> QED
    BY <1>4, <2>1 DEF Winding
<1>6. \/ at \in {"reply", "secondReply", "valueLength", "valueText", "line", "exceptionLine"}
      \/ at \in {"all", "drainEnd", "drainAll", "bytes"}
  BY DEF Reads, Replies, FailReads, ValueReads, LineReads, Drains
<1> QED
  BY <1>1, <1>2, <1>3, <1>4, <1>5, <1>6 DEF Standing

\* The OKAY to the request.
LEMMA FirstReply ==
    ASSUME Talking, verdict # "handed", Got({"reply"}, {"OKAY"})
    PROVE  SoFar = 1 /\ Said[1] = "OKAY" /\ answered = asked /\ Speech(cmd, Said, 1)
<1>1. /\ at \in {"reply"} /\ token.kind \in {"OKAY"} /\ Before = SoFar - 1
      /\ SoFar >= 1 => Said[SoFar] = token.kind /\ answered = asked
  <2>1. \A x \in {"OKAY"} : x \notin Lost
    BY DEF Lost
  <2> QED
    BY <2>1, Heard1
<1>2. Before = 0 /\ SoFar \in Nat /\ Speech(cmd, Said, SoFar)
  BY <1>1, Reading DEF Standing
<1>3. SoFar = 1
  BY <1>1, <1>2
<1> QED
  BY <1>1, <1>2, <1>3

\* OKAY starts the command's reads, or its next request.
LEMMA AcceptedTalk ==
    ASSUME Talking, verdict # "handed", Accepted
    PROVE  Talking'
<1>1. IInv'
  BY AcceptedStep DEF Talking
<1>2. Got({"reply"}, {"OKAY"}) /\ UNCHANGED server
  BY Zenon DEF Accepted
<1>3. SoFar = 1 /\ Said[1] = "OKAY" /\ answered = asked /\ Speech(cmd, Said, 1)
  BY <1>2, FirstReply
<1>4. ~Followed /\ verdict = "none" /\ cmd \in CommandType
  <2>1. at = "reply"
    BY <1>2 DEF Got
  <2>2. "reply" \in Reads \ {"drainEnd", "drainAll"}
    BY DEF Reads, Replies
  <2> QED
    BY <2>1, <2>2, Reading
<1>5. CASE cmd.reads = "nothing" /\ Len(todo) = 1 /\ Settle(cmd.gives)
           /\ UNCHANGED <<todo, asked, socket>>
  <2>1. Concludes(cmd, Said, 1, cmd.gives, destroyed)
    BY <1>3, <1>5, NothingMore
  <2>2. UNCHANGED <<todo, asked, server, arrived, broken, shut>> /\ destroyed' = destroyed
    BY <1>2, <1>5 DEF socket
  <2>3. cmd.gives \in Verdicts
    BY <1>4 DEF CommandType, Verdicts
  <2> QED
    BY <1>1, <1>3, <1>4, <1>5, <2>1, <2>2, <2>3, SettleTalk DEF Concludes, Decided
<1>6. ASSUME NEW w \in {"valueLength", "secondReply", "bytes", "line"}, ReadOn(w),
             cmd.reads = IF w = "valueLength" THEN "value" ELSE IF w = "secondReply" THEN "reply"
                         ELSE IF w = "bytes" THEN "bytes" ELSE "search"
      PROVE  Talking'
  <2>1. w \in Reads \ Drains
    BY DEF Reads, Replies, FailReads, ValueReads, LineReads, Drains
  <2>2. StartRead(w) /\ UNCHANGED <<todo, asked, server, socket, ended, verdict>>
    BY <1>2, <1>6 DEF ReadOn
  <2>3. Standing(w, cmd, Said, 1, 1)
    <3>1. w \notin FailReads
      BY DEF FailReads
    <3>2. Unmatched(cmd, Said, 1)
      BY DEF Unmatched
    <3> QED
      BY <1>3, <1>6, <3>1, <3>2 DEF Standing
  <2> QED
    BY <1>1, <1>3, <1>4, <2>1, <2>2, <2>3, ReadOnTalk
<1>7. CASE cmd.reads = "all" /\ StartReadAll("all")
           /\ UNCHANGED <<todo, asked, socket, ended, verdict>>
  <2>1. UNCHANGED <<server, socket, ended>> /\ sent' = sent /\ answered' = answered
        /\ asked' = asked /\ todo' = todo /\ verdict' = verdict
    BY <1>2, <1>7 DEF server
  <2>2. at' = "all" /\ taken' >= taken /\ Closed'
    BY <1>7, <2>1, ReadAllCloses
  <2>3. /\ Split' /\ Told' /\ Answered' /\ Said' = Said /\ cmd' = cmd
        /\ SoFar' \in Nat /\ SoFar \in Nat /\ SoFar <= SoFar'
    BY <1>1, <1>4, <2>1, <2>2, Still
  <2>4. Heeded'
    <3>1. SoFar' >= 1
      BY <1>3, <2>3
    <3>2. Standing("all", cmd, Said, Before', SoFar')
      BY <1>3, <1>7, <3>1 DEF Standing, FailReads
    <3> QED
      BY <2>2, <2>3, <3>2, Zenon DEF Heeded
  <2>5. Settling' /\ Places'
    BY <1>4, <2>1, <2>2 DEF Settling, Places, Over, Reads, Drains
  <2> QED
    BY <1>1, <2>2, <2>3, <2>4, <2>5 DEF Talking, Talk
<1>8. \/ cmd.reads = "nothing" /\ Len(todo) = 1 /\ Settle(cmd.gives)
           /\ UNCHANGED <<todo, asked, socket>>
      \/ cmd.reads = "value" /\ ReadOn("valueLength")
      \/ cmd.reads = "reply" /\ ReadOn("secondReply")
      \/ cmd.reads = "bytes" /\ ReadOn("bytes")
      \/ cmd.reads = "search" /\ ReadOn("line")
      \/ cmd.reads = "all" /\ StartReadAll("all")
           /\ UNCHANGED <<todo, asked, socket, ended, verdict>>
  BY Zenon DEF Accepted
<1>9. ASSUME cmd.reads = "value", ReadOn("valueLength") PROVE Talking'
  BY <1>6, <1>9
<1>10. ASSUME cmd.reads = "reply", ReadOn("secondReply") PROVE Talking'
  BY <1>6, <1>10
<1>11. ASSUME cmd.reads = "bytes", ReadOn("bytes") PROVE Talking'
  BY <1>6, <1>11
<1>12. ASSUME cmd.reads = "search", ReadOn("line") PROVE Talking'
  BY <1>6, <1>12
<1> QED
  BY <1>5, <1>7, <1>8, <1>9, <1>10, <1>11, <1>12, Zenon

\* The transport request was answered with OKAY and nothing else.
LEMMA TransportTalk ==
    ASSUME Talking, verdict # "handed", Transported
    PROVE  Talking'
<1>1. IInv'
  BY TransportStep DEF Talking
<1>2. /\ Got({"reply"}, {"OKAY"}) /\ Len(todo) = 2 /\ todo' = Tail(todo) /\ asked' = asked + 1
      /\ StartRead("reply") /\ UNCHANGED <<server, socket, ended, verdict>>
  BY DEF Transported
<1>3. sent' = sent /\ answered' = answered /\ fin' = fin /\ arrived' = arrived
      /\ broken' = broken /\ shut' = shut /\ destroyed' = destroyed /\ ended' = ended /\ verdict' = verdict
  BY <1>2 DEF server, socket
<1>4. SoFar = 1 /\ Said[1] = "OKAY" /\ answered = asked
  BY <1>2, FirstReply
<1>5. asked = 1
  BY <1>2 DEF Talking, IInv, Turn
<1>6. /\ sent \in Seq(Token) /\ Len(sent) \in Nat /\ arrived \in 0 .. Len(sent)
      /\ taken \in 0 .. arrived
  BY Bounds
<1>7. taken = 1
  BY <1>4, <1>5, <1>6 DEF SoFar
<1>8. /\ phase = "gap" /\ token.kind = "OKAY" /\ token.kind \notin Lost /\ at = "reply"
  BY <1>2, EofIs DEF Got
<1>9. token = sent[1] /\ token.of = 1 /\ sent[1] \in Token
  BY <1>5, <1>6, <1>7, <1>8 DEF Talking, IInv, JustRead
<1>10. sent[1] = Tok("OKAY", 1)
  BY <1>8, <1>9 DEF Token, Tok
<1>11. Len(sent) = 1
  <2>1. 1 \in 1 .. Len(sent) /\ sent[1].kind = "OKAY"
    BY <1>6, <1>7, <1>8, <1>9
  <2>2. \A i \in 1 .. Len(sent) : sent[i].kind = "OKAY" => i = Len(sent)
    BY <1>2 DEF Talking, IInv, OkayLast
  <2> QED
    BY <2>1, <2>2
<1>12. arrived = taken /\ arrived = 1
  BY <1>6, <1>7, <1>11
<1>13. /\ at' = "reply" /\ taken' = taken
       /\ \/ phase' = "gap" /\ token' = Eof /\ ended
          \/ phase' = "waiting" /\ token' = token
  BY <1>2, <1>6, <1>12 DEF StartRead
<1>14. verdict = "none" /\ ~Over
  <2>1. "reply" \in Reads \ {"drainEnd", "drainAll"}
    BY DEF Reads, Replies
  <2> QED
    BY <1>8, <2>1, Reading DEF Over
<1>15. Split'
  BY <1>3, <1>5, <1>7, <1>2, <1>10, <1>11, <1>13 DEF Split, Talking, Talk
<1>16. Told' /\ Answered'
  BY <1>2, <1>3, <1>4, <1>5, <1>11 DEF Told, Answered
<1>17. Closed'
  BY <1>3, <1>13, EofIs DEF Closed, Left, Talking, Talk
<1>18. Heeded'
  <2>1. ~HasToken'
    BY <1>13, EofIs DEF HasToken
  <2>2. Before' = SoFar' /\ SoFar' = taken' + 1 - asked'
    BY <2>1, Zenon DEF Before, SoFar
  <2>3. Before' = 0
    BY <1>2, <1>5, <1>7, <1>13, <2>2
  <2> QED
    BY <1>13, <2>3 DEF Heeded, Standing, FailReads
<1>19. Settling' /\ Places'
  BY <1>3, <1>13, <1>14 DEF Settling, Over, Places, Reads, Replies
<1> QED
  BY <1>1, <1>15, <1>16, <1>17, <1>18, <1>19 DEF Talking, Talk

\* The reads that go on.
LEMMA ReadsOnTalk ==
    ASSUME Talking, verdict # "handed",
           Refused \/ ReadsFailure \/ ReadsValue \/ SkipsLine \/ MatchesException
    PROVE  Talking'
<1>1. IInv'
  BY ReadsOnStep DEF Talking
<1>2. /\ ~Followed /\ Speech(cmd, Said, SoFar) /\ Standing(at, cmd, Said, Before, SoFar)
      /\ SoFar \in Nat /\ SoFar <= Len(Said)
      /\ at \in Reads \ {"drainEnd", "drainAll"} => verdict = "none"
  BY Reading
<1>3. ASSUME NEW w \in Reads \ Drains, ReadOn(w), UNCHANGED server,
             at \in Reads \ {"drainEnd", "drainAll"}, Standing(w, cmd, Said, SoFar, SoFar)
      PROVE  Talking'
  <2>1. StartRead(w) /\ UNCHANGED <<todo, asked, server, socket, ended, verdict>>
    BY <1>3 DEF ReadOn
  <2> QED
    BY <1>1, <1>2, <1>3, <2>1, ReadOnTalk
<1>4. {"failLength", "failText", "valueText", "line", "exceptionLine"} \subseteq Reads \ Drains
      /\ Reads \ Drains \subseteq Reads \ {"drainEnd", "drainAll"}
      /\ {"reply", "secondReply", "failLength", "valueLength", "line"}
            \subseteq Reads \ {"drainEnd", "drainAll"}
  BY DEF Reads, Replies, FailReads, ValueReads, LineReads, Drains
<1>5. CASE Refused
  <2>1. Got(Replies, {"FAIL"}) /\ ReadOn("failLength") /\ UNCHANGED server
    BY <1>5 DEF Refused
  <2>2. /\ at \in Replies /\ Before = SoFar - 1 /\ (SoFar >= 1 => Said[SoFar] = "FAIL")
    <3>1. \A x \in {"FAIL"} : x \notin Lost
      BY DEF Lost
    <3> QED
      BY <2>1, <3>1, Heard1
  <2>3. Doomed(cmd, Said, SoFar)
    <3>1. CASE at = "reply"
      <4>1. SoFar = 1
        BY <1>2, <2>2, <3>1 DEF Standing
      <4> QED
        BY <2>2, <4>1 DEF Doomed
    <3>2. CASE at = "secondReply"
      <4>1. SoFar = 2 /\ cmd.reads = "reply" /\ Said[1] = "OKAY"
        BY <1>2, <2>2, <3>2 DEF Standing
      <4> QED
        BY <2>2, <4>1 DEF Doomed
    <3> QED
      BY <2>2, <3>1, <3>2 DEF Replies
  <2>4. Standing("failLength", cmd, Said, SoFar, SoFar)
    BY <2>3 DEF Standing
  <2>5. at \in Reads \ {"drainEnd", "drainAll"}
    BY <1>4, <2>2 DEF Replies
  <2> QED
    BY <1>3, <1>4, <2>1, <2>4, <2>5
<1>6. CASE ReadsFailure
  <2>1. Got({"failLength"}, {"LEN"}) /\ ReadOn("failText") /\ UNCHANGED server
    BY <1>6 DEF ReadsFailure
  <2>2. at = "failLength"
    BY <2>1 DEF Got
  <2>3. Doomed(cmd, Said, SoFar)
    BY <1>2, <2>2 DEF Standing, FailReads
  <2>4. Standing("failText", cmd, Said, SoFar, SoFar)
    BY <2>3 DEF Standing
  <2> QED
    BY <1>3, <1>4, <2>1, <2>2, <2>4
<1>7. CASE ReadsValue
  <2>1. Got({"valueLength"}, {"LEN"}) /\ ReadOn("valueText") /\ UNCHANGED server
    BY <1>7 DEF ReadsValue
  <2>2. /\ at \in {"valueLength"} /\ Before = SoFar - 1 /\ (SoFar >= 1 => Said[SoFar] = "LEN")
    <3>1. \A x \in {"LEN"} : x \notin Lost
      BY DEF Lost
    <3> QED
      BY <2>1, <3>1, Heard1
  <2>3. SoFar = 2 /\ cmd.reads = "value" /\ Said[1] = "OKAY"
    BY <1>2, <2>2 DEF Standing
  <2>4. Standing("valueText", cmd, Said, SoFar, SoFar)
    BY <2>2, <2>3 DEF Standing, FailReads
  <2> QED
    BY <1>3, <1>4, <2>1, <2>2, <2>4
<1>8. CASE SkipsLine \/ MatchesException
  <2> DEFINE kinds == IF SkipsLine THEN Texts \ (cmd.accept \cup cmd.refuse)
                      ELSE cmd.refuse \cap {"exception"}
  <2>1. Got({"line"}, kinds) /\ UNCHANGED server
    BY <1>8, Zenon DEF SkipsLine, MatchesException
  <2>2. \A x \in kinds : x \notin Lost
    <3>1. \A x \in Texts : x \notin Lost
      BY DEF Texts, Lost
    <3>2. "exception" \in Texts
      BY DEF Texts
    <3> QED
      BY <3>1, <3>2
  <2>a. kinds = IF SkipsLine THEN Texts \ (cmd.accept \cup cmd.refuse)
                ELSE cmd.refuse \cap {"exception"}
    OBVIOUS
  <2> HIDE DEF kinds
  <2>3. /\ at \in {"line"} /\ Before = SoFar - 1 /\ token.kind \in kinds
        /\ (SoFar >= 1 => Said[SoFar] = token.kind)
    BY <2>1, <2>2, Heard1
  <2>4. /\ SoFar >= 2 /\ cmd.reads = "search" /\ Said[1] = "OKAY"
        /\ Unmatched(cmd, Said, SoFar - 1)
    BY <1>2, <2>3 DEF Standing
  <2>5. CASE SkipsLine
    <3>1. ReadOn("line")
      BY <2>5 DEF SkipsLine
    <3>2. Said[SoFar] \notin cmd.accept \cup cmd.refuse
      <4>1. kinds = Texts \ (cmd.accept \cup cmd.refuse)
        BY <2>5, <2>a, Zenon
      <4> QED
        BY <1>2, <2>3, <2>4, <4>1
    <3>3. Unmatched(cmd, Said, SoFar)
      <4>1. \A i \in 2 .. SoFar : i = SoFar \/ i \in 2 .. SoFar - 1
        BY <1>2
      <4> QED
        BY <2>4, <3>2, <4>1 DEF Unmatched
    <3>4. Standing("line", cmd, Said, SoFar, SoFar)
      BY <1>2, <2>4, <3>3 DEF Standing, FailReads
    <3> QED
      BY <1>3, <1>4, <2>1, <2>3, <3>1, <3>4
  <2>6. CASE ~SkipsLine
    <3>1. ReadOn("exceptionLine")
      BY <1>8, <2>6 DEF MatchesException
    <3>2. Said[SoFar] = "exception" /\ "exception" \in cmd.refuse
      <4>1. kinds = cmd.refuse \cap {"exception"}
        BY <2>6, <2>a, Zenon
      <4> QED
        BY <1>2, <2>3, <2>4, <4>1
    <3>3. Standing("exceptionLine", cmd, Said, SoFar, SoFar)
      BY <1>2, <2>4, <3>2 DEF Standing, FailReads
    <3> QED
      BY <1>3, <1>4, <2>1, <2>3, <3>1, <3>3
  <2> QED
    BY <2>5, <2>6
<1> QED
  BY <1>5, <1>6, <1>7, <1>8

\* The continuations that settle the promise: what they settle it with follows
\* from what they have heard.
LEMMA SettledBy ==
    ASSUME Talking, IInv', NEW v \in Verdicts, Settle(v), verdict # "handed",
           UNCHANGED <<todo, asked, server, arrived, broken, shut>>, destroyed => destroyed',
           Concludes(cmd, Said, SoFar, v, destroyed'), SoFar >= 1 \/ fin \/ destroyed',
           v = "handed" => SoFar >= 1 /\ Len(todo) = 1
    PROVE  Talking'
<1>1. ~Followed /\ (SoFar >= 1 => answered = asked)
  BY Reading
<1>2. Decided(cmd, Said, SoFar, v, broken) /\ Accounted(cmd, Said, SoFar, v, destroyed')
  BY Zenon DEF Concludes, Decided
<1> QED
  BY <1>1, <1>2, SettleTalk

\* The verdicts used below.
LEMMA VerdictFacts == {"ok", "error", "handed"} \subseteq Verdicts
BY DEF Verdicts

\* The second OKAY resolves.
LEMMA AgainTalk ==
    ASSUME Talking, verdict # "handed", AcceptedAgain
    PROVE  Talking'
<1>1. IInv'
  BY SettlesStep DEF Talking
<1>2. Got({"secondReply"}, {"OKAY"}) /\ Settle("ok") /\ UNCHANGED <<todo, asked, server, socket>>
  BY DEF AcceptedAgain
<1>3. /\ at \in {"secondReply"} /\ Before = SoFar - 1 /\ (SoFar >= 1 => Said[SoFar] = "OKAY")
  <2>1. \A x \in {"OKAY"} : x \notin Lost
    BY DEF Lost
  <2> QED
    BY <1>2, <2>1, Heard1
<1>4. Speech(cmd, Said, SoFar) /\ Standing(at, cmd, Said, Before, SoFar) /\ SoFar \in Nat
  BY Reading
<1>5. SoFar = 2 /\ cmd.reads = "reply" /\ Said[1] = "OKAY"
  BY <1>3, <1>4 DEF Standing
<1>6. Concludes(cmd, Said, 2, "ok", destroyed)
  BY <1>3, <1>4, <1>5, SecondReply
<1>7. UNCHANGED <<todo, asked, server, arrived, broken, shut>> /\ destroyed' = destroyed
  BY <1>2 DEF socket
<1> QED
  BY <1>1, <1>2, <1>5, <1>6, <1>7, VerdictFacts, SettledBy

\* FAIL leads to the read of its message.
LEMMA FailsTalk ==
    ASSUME Talking, verdict # "handed", Fails
    PROVE  Talking'
<1>1. IInv'
  BY SettlesStep DEF Talking
<1>2. /\ at \in FailReads /\ destroyed' = TRUE /\ Settle("error")
      /\ UNCHANGED <<todo, asked, server, arrived, broken, shut>>
  BY DEF Fails, Got, FailReads, GiveUp
<1>4. Speech(cmd, Said, SoFar) /\ Standing(at, cmd, Said, Before, SoFar) /\ SoFar \in Nat
  BY Reading
<1>5. Doomed(cmd, Said, SoFar)
  BY <1>2, <1>4 DEF Standing
<1>6. Concludes(cmd, Said, SoFar, "error", destroyed')
  BY <1>2, <1>4, <1>5, DoomedFails
<1> QED
  BY <1>1, <1>2, <1>6, VerdictFacts, SettledBy

\* Any other reply is an error.
LEMMA UnexpectedTalk ==
    ASSUME Talking, verdict # "handed", Unexpected
    PROVE  Talking'
<1>1. IInv'
  BY SettlesStep DEF Talking
<1>2. /\ Got(Replies, {"JUNK"}) /\ UNCHANGED <<todo, asked, server, arrived, broken, shut>>
      /\ \/ cmd.lenient /\ Settle("ok") /\ destroyed' = destroyed
         \/ ~cmd.lenient /\ Settle("error") /\ destroyed' = TRUE
  BY Zenon DEF Unexpected, GiveUp
<1>3. /\ at \in Replies /\ Before = SoFar - 1 /\ (SoFar >= 1 => Said[SoFar] = "JUNK")
  <2>1. \A x \in {"JUNK"} : x \notin Lost
    BY DEF Lost
  <2> QED
    BY <1>2, <2>1, Heard1
<1>4. /\ Speech(cmd, Said, SoFar) /\ Standing(at, cmd, Said, Before, SoFar) /\ SoFar \in Nat
      /\ CommandFacts(cmd)
  BY Reading
<1>5. CASE at = "reply"
  <2>1. SoFar = 1 /\ Said[1] = "JUNK"
    BY <1>3, <1>4, <1>5 DEF Standing
  <2>2. cmd.lenient \/ destroyed'
    BY <1>2
  <2>3. Concludes(cmd, Said, 1, IF cmd.lenient THEN "ok" ELSE "error", destroyed')
    BY <1>4, <2>1, <2>2, JunkFirst
  <2>4. CASE cmd.lenient
    BY <1>1, <1>2, <2>1, <2>3, <2>4, VerdictFacts, SettledBy
  <2>5. CASE ~cmd.lenient
    BY <1>1, <1>2, <2>1, <2>3, <2>5, VerdictFacts, SettledBy
  <2> QED
    BY <2>4, <2>5
<1>6. CASE at = "secondReply"
  <2>1. SoFar = 2 /\ Said[2] = "JUNK" /\ Said[1] = "OKAY" /\ cmd.reads = "reply"
    BY <1>3, <1>4, <1>6 DEF Standing
  <2>2. ~cmd.lenient
    BY <1>4, <2>1 DEF CommandFacts
  <2>3. Concludes(cmd, Said, 2, "error", TRUE)
    BY <1>4, <2>1, JunkSecond
  <2> QED
    BY <1>1, <1>2, <2>1, <2>2, <2>3, VerdictFacts, SettledBy
<1> QED
  BY <1>3, <1>5, <1>6 DEF Replies

\* A value settles the command.
LEMMA ValueTalk ==
    ASSUME Talking, verdict # "handed", HasValue
    PROVE  Talking'
<1>1. IInv'
  BY SettlesStep DEF Talking
<1> DEFINE v == IF Good(cmd, {ValueOf(token.kind)}) THEN "ok" ELSE "error"
<1>2. /\ Got({"valueText"}, Texts) \/ Got({"valueLength"}, {"ZERO"})
      /\ Settle(v) /\ UNCHANGED <<todo, asked, server, socket>>
  BY DEF HasValue
<1>3. v \in Verdicts /\ v # "handed"
  BY VerdictFacts
<1>4. /\ Speech(cmd, Said, SoFar) /\ Standing(at, cmd, Said, Before, SoFar) /\ SoFar \in Nat
  BY Reading
<1>5. UNCHANGED <<todo, asked, server, arrived, broken, shut>> /\ destroyed' = destroyed
  BY <1>2 DEF socket
<1>6. CASE Got({"valueText"}, Texts)
  <2>1. \A x \in Texts : x \notin Lost /\ x # "ZERO"
    BY DEF Lost, Texts
  <2>2. at \in {"valueText"} /\ Before = SoFar - 1 /\ token.kind \in Texts
        /\ (SoFar >= 1 => Said[SoFar] = token.kind)
    BY <1>6, <2>1, Heard1
  <2>3. SoFar = 3 /\ cmd.reads = "value" /\ Said[1] = "OKAY" /\ Said[2] = "LEN"
    BY <1>4, <2>2 DEF Standing
  <2>4. ValueOf(token.kind) = Said[3]
    BY <2>1, <2>2, <2>3 DEF ValueOf
  <2>5. Concludes(cmd, Said, 3, v, destroyed)
    BY <1>4, <2>3, <2>4, TextValue
  <2> HIDE DEF v
  <2> QED
    BY <1>1, <1>2, <1>3, <1>5, <2>3, <2>5, SettledBy
<1>7. CASE Got({"valueLength"}, {"ZERO"})
  <2>1. \A x \in {"ZERO"} : x \notin Lost
    BY DEF Lost
  <2>2. at \in {"valueLength"} /\ Before = SoFar - 1 /\ token.kind = "ZERO"
        /\ (SoFar >= 1 => Said[SoFar] = token.kind)
    BY <1>7, <2>1, Heard1
  <2>3. SoFar = 2 /\ cmd.reads = "value" /\ Said[1] = "OKAY" /\ Said[2] = "ZERO"
    BY <1>4, <2>2 DEF Standing
  <2>4. ValueOf(token.kind) = "empty"
    BY <2>2 DEF ValueOf
  <2>5. Concludes(cmd, Said, 2, v, destroyed)
    BY <1>4, <2>3, <2>4, EmptyValue
  <2> HIDE DEF v
  <2> QED
    BY <1>1, <1>2, <1>3, <1>5, <2>3, <2>5, SettledBy
<1> QED
  BY <1>2, <1>6, <1>7

\* readAll has heard the whole answer.
LEMMA AllTalk ==
    ASSUME Talking, verdict # "handed", HasAll
    PROVE  Talking'
<1>1. IInv'
  BY SettlesStep DEF Talking
<1> DEFINE v == IF Good(cmd, Heard) THEN "ok" ELSE "error"
<1>2. /\ Got({"all"}, {"EOF"}) /\ Settle(v) /\ UNCHANGED <<todo, asked, server, socket>>
  BY DEF HasAll
<1>3. v \in Verdicts /\ v # "handed"
  BY VerdictFacts
<1>4. /\ Speech(cmd, Said, SoFar) /\ Standing(at, cmd, Said, Before, SoFar) /\ SoFar \in Nat
  BY Reading
<1>5. UNCHANGED <<todo, asked, server, arrived, broken, shut>> /\ destroyed' = destroyed
  BY <1>2 DEF socket
<1>6. at = "all" /\ SoFar = Len(Said) /\ fin
  BY <1>2, HeardNothing, EofIs DEF Got
<1>7. cmd.reads = "all" /\ SoFar >= 1 /\ Said[1] = "OKAY"
  BY <1>4, <1>6 DEF Standing
<1>8. Heard = {Said[i] : i \in 1 .. Len(Said)}
  <2>1. /\ Len(Said) = Len(sent) + 1 - asked /\ taken = SoFar + asked - 1
        /\ \A i \in 1 .. Len(Said) :
              Said[i] = sent[asked + i - 1].kind /\ asked + i - 1 \in 1 .. Len(sent)
        /\ asked \in 1 .. 2 /\ Len(sent) \in Nat /\ taken \in 0 .. Len(sent)
    BY SaidFacts DEF Talking, IInv, Talk
  <2>2. \A i \in 1 .. Len(sent) : i >= asked => sent[i].of = asked
    BY DEF Talking, Talk, Split
  <2>3. \A i \in 1 .. Len(Said) : \E j \in 1 .. taken : sent[j].of = asked /\ Said[i] = sent[j].kind
    <3> SUFFICES ASSUME NEW i \in 1 .. Len(Said)
                 PROVE  \E j \in 1 .. taken : sent[j].of = asked /\ Said[i] = sent[j].kind
      OBVIOUS
    <3> DEFINE e == asked + i - 1
    <3>1. Said[i] = sent[e].kind /\ e \in 1 .. Len(sent)
      BY <2>1
    <3>2. e \in 1 .. taken /\ e >= asked
      <4>1. \A x, a, l \in Nat : x \in 1 .. l /\ a >= 1 =>
               a + x - 1 \in 1 .. l + a - 1 /\ a + x - 1 >= a
        OBVIOUS
      <4>2. i \in Nat /\ asked \in Nat /\ asked >= 1 /\ Len(Said) \in Nat
        BY <2>1
      <4>3. taken = Len(Said) + asked - 1
        BY <1>6, <2>1, Zenon
      <4>4. asked + i - 1 \in 1 .. Len(Said) + asked - 1 /\ asked + i - 1 >= asked
        BY <4>1, <4>2, Zenon
      <4> QED
        BY <4>3, <4>4, Zenon
    <3> HIDE DEF e
    <3>3. sent[e].of = asked
      BY <2>2, <3>1, <3>2
    <3> QED
      BY <3>1, <3>2, <3>3
  <2>4. \A j \in 1 .. taken : sent[j].of = asked => j >= asked
    <3> SUFFICES ASSUME NEW j \in 1 .. taken, j < asked PROVE sent[j].of # asked
      BY <2>1
    <3>1. asked = 2 /\ j = 1
      BY <2>1
    <3>2. sent[1] = Tok("OKAY", 1)
      BY <3>1 DEF Talking, Talk, Split
    <3> QED
      BY <3>1, <3>2 DEF Tok
  <2>5. \A j \in 1 .. taken : j >= asked =>
           j + 1 - asked \in 1 .. Len(Said) /\ asked + (j + 1 - asked) - 1 = j
    BY <1>6, <2>1
  <2>6. \A j \in 1 .. taken : sent[j].of = asked =>
           j + 1 - asked \in 1 .. Len(Said) /\ Said[j + 1 - asked] = sent[j].kind
    <3> SUFFICES ASSUME NEW j \in 1 .. taken, sent[j].of = asked
                 PROVE  j + 1 - asked \in 1 .. Len(Said) /\ Said[j + 1 - asked] = sent[j].kind
      OBVIOUS
    <3>1. j + 1 - asked \in 1 .. Len(Said) /\ asked + (j + 1 - asked) - 1 = j
      BY <2>4, <2>5
    <3> DEFINE e == j + 1 - asked
    <3>2. e \in 1 .. Len(Said) /\ asked + e - 1 = j
      BY <3>1
    <3> HIDE DEF e
    <3>3. Said[e] = sent[j].kind
      BY <2>1, <3>2
    <3> QED
      BY <3>1, <3>3 DEF e
  <2> DEFINE S == {j \in 1 .. taken : sent[j].of = asked}
  <2>7. /\ \A i \in 1 .. Len(Said) : \E j \in S : Said[i] = sent[j].kind
        /\ \A j \in S : \E i \in 1 .. Len(Said) : Said[i] = sent[j].kind
    BY <2>3, <2>6
  <2>8. Heard = {sent[j].kind : j \in S}
    BY DEF Heard
  <2> HIDE DEF S
  <2> QED
    BY <2>7, <2>8
<1>9. Concludes(cmd, Said, SoFar, v, destroyed)
  BY <1>4, <1>6, <1>7, <1>8, AllRead
<1> HIDE DEF v
<1> QED
  BY <1>1, <1>2, <1>3, <1>5, <1>7, <1>9, SettledBy

\* Bytes settle the command, or are its stream.
LEMMA BytesTalk ==
    ASSUME Talking, verdict # "handed", HasBytes
    PROVE  Talking'
<1>1. IInv'
  BY SettlesStep DEF Talking
<1>2. /\ Got({"bytes"}, Texts) /\ UNCHANGED <<todo, asked, server, arrived, broken, shut>>
      /\ \/ token.kind \in cmd.refuse /\ Settle("error") /\ destroyed' = destroyed
         \/ token.kind \notin cmd.refuse /\ ~Good(cmd, {token.kind})
              /\ Settle("error") /\ destroyed' = TRUE
         \/ token.kind \notin cmd.refuse /\ Good(cmd, {token.kind})
              /\ Settle(cmd.gives) /\ destroyed' = destroyed
  BY Zenon DEF HasBytes, GiveUp
<1>3. /\ at \in {"bytes"} /\ Before = SoFar - 1 /\ (SoFar >= 1 => Said[SoFar] = token.kind)
  <2>1. \A x \in Texts : x \notin Lost
    BY DEF Lost, Texts
  <2> QED
    BY <1>2, <2>1, Heard1
<1>4. /\ Speech(cmd, Said, SoFar) /\ Standing(at, cmd, Said, Before, SoFar) /\ SoFar \in Nat
      /\ cmd \in CommandType /\ (cmd.reads # "nothing" => Len(todo) = 1)
  BY Reading
<1>5. SoFar = 2 /\ cmd.reads = "bytes" /\ Said[1] = "OKAY" /\ Said[2] = token.kind
  BY <1>3, <1>4 DEF Standing
<1>6. CASE token.kind \in cmd.refuse /\ Settle("error") /\ destroyed' = destroyed
  <2>1. Concludes(cmd, Said, 2, "error", destroyed')
    BY <1>4, <1>5, <1>6, BytesBad
  <2> QED
    BY <1>1, <1>2, <1>5, <1>6, <2>1, VerdictFacts, SettledBy
<1>7. CASE token.kind \notin cmd.refuse /\ ~Good(cmd, {token.kind})
              /\ Settle("error") /\ destroyed' = TRUE
  <2>1. Concludes(cmd, Said, 2, "error", destroyed')
    BY <1>4, <1>5, <1>7, BytesBad
  <2> QED
    BY <1>1, <1>2, <1>5, <1>7, <2>1, VerdictFacts, SettledBy
<1>8. CASE token.kind \notin cmd.refuse /\ Good(cmd, {token.kind})
              /\ Settle(cmd.gives) /\ destroyed' = destroyed
  <2>1. Concludes(cmd, Said, 2, cmd.gives, destroyed')
    BY <1>4, <1>5, <1>8, BytesGood
  <2>2. cmd.gives \in Verdicts /\ Len(todo) = 1
    BY <1>4, <1>5 DEF CommandType, Verdicts
  <2> QED
    BY <1>1, <1>2, <1>5, <1>8, <2>1, <2>2, SettledBy
<1> QED
  BY <1>2, <1>6, <1>7, <1>8

\* A read that failed settles the command.
LEMMA RejectsTalk ==
    ASSUME Talking, verdict # "handed", Rejects
    PROVE  Talking'
<1>1. IInv'
  BY SettlesStep DEF Talking
<1>2. /\ Got(Replies \cup ValueReads, Lost) \/ Got(Drains, {"ERROR"})
      /\ Settle("error") /\ UNCHANGED <<todo, asked, server, socket>>
  BY DEF Rejects
<1>3. UNCHANGED <<todo, asked, server, arrived, broken, shut>> /\ destroyed' = destroyed
  BY <1>2 DEF socket
<1>4. /\ Speech(cmd, Said, SoFar) /\ Standing(at, cmd, Said, Before, SoFar) /\ SoFar \in Nat
      /\ ~Followed
  BY Reading
<1>5. phase = "gap" /\ token.kind \in Lost
  BY <1>2, EofIs DEF Got
<1>6. /\ Before = SoFar
      /\ token.kind = "EOF" => fin /\ SoFar = Len(Said)
      /\ token.kind = "ERROR" => broken /\ (destroyed \/ shut)
      /\ token.kind \in {"EOF", "ERROR"}
  BY <1>5, HeardNothing
<1>7. CASE token.kind = "ERROR"
  <2>1. Decided(cmd, Said, SoFar, "error", broken)
    BY <1>6, <1>7 DEF Decided
  <2>a. destroyed \/ GivenUp(Said, SoFar, "error")
    <3>1. at \in Reads \ FailReads
      BY <1>2 DEF Got, Reads, Replies, FailReads, ValueReads, Drains
    <3>2. NoRefusal(Said, SoFar)
      BY <1>6, <3>1, AcceptedSoFar
    <3> QED
      BY <1>6, <1>7, <3>2 DEF GivenUp
  <2>2. Accounted(cmd, Said, SoFar, "error", destroyed') \/ GivenUp(Said, SoFar, "error")
    <3>1. CASE destroyed
      BY <1>3, <3>1, AccountedPlain
    <3> QED
      BY <2>a, <3>1
  <2>3. destroyed' \/ GivenUp(Said, SoFar, "error")
    BY <1>3, <2>2, <2>a
  <2> QED
    BY <1>1, <1>2, <1>3, <1>4, <2>1, <2>2, <2>3, VerdictFacts, SettleTalk
<1>8. CASE token.kind = "EOF"
  <2>1. at \in Replies \cup ValueReads /\ SoFar = Len(Said) /\ fin
    BY <1>2, <1>6, <1>8 DEF Got
  <2>2. \/ SoFar = 0
        \/ SoFar = 1 /\ Said[1] = "OKAY" /\ cmd.reads \in {"reply", "value"}
        \/ SoFar = 2 /\ Said[1] = "OKAY" /\ cmd.reads = "value" /\ Said[2] = "LEN"
    BY <1>4, <1>6, <2>1 DEF Standing, Replies, ValueReads
  <2>3. Concludes(cmd, Said, SoFar, "error", destroyed')
    BY <1>4, <2>1, <2>2, ReplyEnds
  <2> QED
    BY <1>1, <1>2, <1>3, <2>1, <2>3, VerdictFacts, SettledBy
<1> QED
  BY <1>6, <1>7, <1>8

\* The rest has been read, and the promise settles as it was going to.
LEMMA DrainedTalk ==
    ASSUME Talking, verdict # "handed", Drained
    PROVE  Talking'
<1>1. IInv'
  BY SettlesStep DEF Talking
<1>2. /\ Got({"drainEnd", "drainAll"}, {"EOF"}) /\ Settle(verdict)
      /\ UNCHANGED <<todo, asked, server, socket>>
  BY DEF Drained
<1>3. UNCHANGED <<todo, asked, server, arrived, broken, shut>> /\ destroyed' = destroyed
  BY <1>2 DEF socket
<1>4. Speech(cmd, Said, SoFar) /\ SoFar \in Nat /\ ~Followed /\ (SoFar >= 1 => answered = asked)
  BY Reading
<1>5. at \in {"drainEnd", "drainAll"} /\ SoFar = Len(Said) /\ fin
  BY <1>2, HeardNothing, EofIs DEF Got
<1>6. Winding(cmd, Said, SoFar) /\ Decided(cmd, Said, SoFar, verdict, broken)
  BY <1>5, Zenon DEF Talking, Talk, Settling
<1>7. verdict \in Verdicts
  BY <1>5 DEF Talking, Talk, Places, IInv, Typed
<1>8. Accounted(cmd, Said, SoFar, verdict, destroyed')
  BY <1>4, <1>5, <1>6, EndAccounted DEF Winding
<1> QED
  BY <1>1, <1>2, <1>3, <1>4, <1>5, <1>6, <1>7, <1>8, SettleTalk

\* Where a search is.
LEMMA Searching1 ==
    ASSUME Talking, at = "line"
    PROVE  /\ verdict = "none" /\ ~Followed /\ answered = asked /\ Len(todo) = 1
           /\ Before \in Nat /\ Before <= SoFar /\ SoFar <= Before + 1 /\ SoFar >= 1
           /\ Speech(cmd, Said, SoFar) /\ cmd.reads = "search" /\ Said[1] = "OKAY"
           /\ Unmatched(cmd, Said, Before) /\ SoFar \in Nat
<1>1. verdict = "none"
  <2>1. "line" \in Reads \ {"drainEnd", "drainAll"}
    BY DEF Reads, LineReads
  <2> QED
    BY <2>1 DEF Talking, Talk, Places
<1>2. /\ ~Followed /\ Speech(cmd, Said, SoFar) /\ Standing(at, cmd, Said, Before, SoFar)
      /\ SoFar \in Nat /\ (SoFar >= 1 => answered = asked)
      /\ (cmd.reads # "nothing" => Len(todo) = 1)
  BY <1>1, Reading
<1>3. Before = SoFar \/ Before = SoFar - 1
  BY Zenon DEF Before
<1>4. Before >= 1 /\ cmd.reads = "search" /\ Said[1] = "OKAY" /\ Unmatched(cmd, Said, Before)
  BY <1>2 DEF Standing
<1>5. Before \in Nat /\ Before <= SoFar /\ SoFar <= Before + 1 /\ SoFar >= 1
  BY <1>2, <1>3, <1>4
<1> QED
  BY <1>1, <1>2, <1>4, <1>5

\* A timeout touches no read.
LEMMA TimesOutTalk ==
    ASSUME Talking, TimesOut
    PROVE  Talking'
<1>1. IInv'
  BY SettlesStep DEF Talking
<1>2. cmd.timer /\ at = "line" /\ Settle("handed") /\ UNCHANGED <<todo, asked, server, socket>>
  BY DEF TimesOut
<1>3. UNCHANGED <<todo, asked, server, arrived, broken, shut>> /\ destroyed' = destroyed
  BY <1>2 DEF socket
<1>4. /\ ~Followed /\ answered = asked /\ Len(todo) = 1
      /\ Before \in Nat /\ Before <= SoFar /\ SoFar <= Before + 1 /\ SoFar >= 1
      /\ Speech(cmd, Said, SoFar) /\ cmd.reads = "search" /\ Said[1] = "OKAY"
      /\ Unmatched(cmd, Said, Before)
  BY <1>2, Searching1
<1>5. cmd.drain = "none"
  BY <1>2, <1>4 DEF Speech, CommandFacts
<1>6. Accounted(cmd, Said, SoFar, "handed", destroyed')
  BY <1>4, <1>5, SearchHands
<1>7. Decided(cmd, Said, SoFar, "handed", broken)
  BY <1>2 DEF Decided
<1> QED
  BY <1>1, <1>2, <1>3, <1>4, <1>6, <1>7, VerdictFacts, SettleTalk

------------------------------------------------------------------------------
\* The line that a search wanted settles it.
LEMMA MatchesTalk ==
    ASSUME Talking, verdict # "handed", Matches
    PROVE  Talking'
<1>1. IInv'
  BY FinishesStep DEF Talking
<1> DEFINE v == IF token.kind \in cmd.accept THEN cmd.gives ELSE "error"
<1>2. /\ Got({"line"}, cmd.accept \cup (cmd.refuse \ {"exception"})) /\ Finish(v)
      /\ UNCHANGED <<todo, asked, server, arrived, broken, destroyed>>
  BY DEF Matches
<1>3. cmd \in CommandType
  BY Reading
<1>4. /\ at \in {"line"} /\ Before = SoFar - 1 /\ (SoFar >= 1 => Said[SoFar] = token.kind)
      /\ token.kind \in cmd.accept \cup cmd.refuse
  <2>1. \A x \in cmd.accept \cup (cmd.refuse \ {"exception"}) : x \notin Lost
    BY <1>3 DEF Lost, Texts, CommandType
  <2> QED
    BY <1>2, <2>1, Heard1
<1>5. /\ ~Followed /\ answered = asked /\ Len(todo) = 1
      /\ Before \in Nat /\ Before <= SoFar /\ SoFar <= Before + 1 /\ SoFar >= 1
      /\ Speech(cmd, Said, SoFar) /\ cmd.reads = "search" /\ Said[1] = "OKAY"
      /\ Unmatched(cmd, Said, Before) /\ SoFar \in Nat
  BY <1>4, Searching1
<1>6. SoFar >= 2
  BY <1>4, <1>5, Reading DEF Standing
<1>7. Firm(cmd, Said, SoFar, v)
  <2>1. SoFar \in 2 .. SoFar
    BY <1>5, <1>6
  <2>2. Firm(cmd, Said, SoFar, IF Said[SoFar] \in cmd.accept THEN cmd.gives ELSE "error")
    BY <1>4, <1>5, <2>1, LineMatches
  <2> QED
    BY <1>4, <1>5, <2>2
<1>8. v \in Verdicts
  BY <1>3 DEF CommandType, Verdicts
<1>9. cmd.drain = "none" => v = "handed"
  <2>1. CommandFacts(cmd)
    BY <1>5 DEF Speech
  <2>2. cmd.drain = "none" => cmd.gives = "handed" /\ cmd.refuse = {}
    BY <1>5, <2>1, Zenon DEF CommandFacts
  <2> QED
    BY <1>4, <2>2
<1>10. cmd.drain # "none" => v # "handed"
  <2>1. CommandFacts(cmd)
    BY <1>5 DEF Speech
  <2>2. cmd.drain # "none" => cmd.gives = "ok"
    BY <2>1, Zenon DEF CommandFacts
  <2> QED
    BY <2>2
<1> HIDE DEF v
<1>11. Decided(cmd, Said, SoFar, v, broken)
  BY <1>7 DEF Decided
<1>12. cmd.drain = "none" => Accounted(cmd, Said, SoFar, v, destroyed)
  BY <1>5, <1>9, SearchHands
<1>13. Winding(cmd, Said, SoFar)
  BY <1>5 DEF Winding
<1> QED
  BY <1>1, <1>2, <1>5, <1>8, <1>10, <1>11, <1>12, <1>13, FinishTalk

\* A line that tells of an exception rejects.
LEMMA ExceptionTalk ==
    ASSUME Talking, verdict # "handed", HasException
    PROVE  Talking'
<1>1. IInv'
  BY FinishesStep DEF Talking
<1>2. /\ Got({"exceptionLine"}, Texts) /\ Finish("error")
      /\ UNCHANGED <<todo, asked, server, arrived, broken, destroyed>>
  BY DEF HasException
<1>3. at \in {"exceptionLine"} /\ Before = SoFar - 1
  <2>1. \A x \in Texts : x \notin Lost
    BY DEF Lost, Texts
  <2> QED
    BY <1>2, <2>1, Heard1
<1>4. /\ Speech(cmd, Said, SoFar) /\ Standing(at, cmd, Said, Before, SoFar) /\ SoFar \in Nat
      /\ ~Followed /\ CommandFacts(cmd)
  BY Reading
<1>5. /\ cmd.reads = "search" /\ Before >= 2 /\ Said[1] = "OKAY" /\ Unmatched(cmd, Said, Before - 1)
      /\ Said[Before] = "exception" /\ "exception" \in cmd.refuse
  BY <1>3, <1>4 DEF Standing
<1>6. Said[Before] \notin cmd.accept /\ cmd.drain # "none"
  BY <1>4, <1>5 DEF CommandFacts
<1>7. Before \in Nat /\ Before \in 2 .. SoFar /\ SoFar >= 1
  BY <1>3, <1>4, <1>5
<1>8. Firm(cmd, Said, SoFar, "error")
  <2>1. Firm(cmd, Said, SoFar, IF Said[Before] \in cmd.accept THEN cmd.gives ELSE "error")
    BY <1>4, <1>5, <1>7, LineMatches
  <2> QED
    BY <1>6, <2>1
<1>9. Decided(cmd, Said, SoFar, "error", broken)
  BY <1>8 DEF Decided
<1>10. Winding(cmd, Said, SoFar)
  BY <1>5, <1>7 DEF Winding
<1> QED
  BY <1>1, <1>2, <1>4, <1>6, <1>9, <1>10, VerdictFacts, FinishTalk

\* The end of a search settles it.
LEMMA BreaksOffTalk ==
    ASSUME Talking, verdict # "handed", BreaksOff
    PROVE  Talking'
<1>1. IInv'
  BY FinishesStep DEF Talking
<1> DEFINE v == IF token.kind = "EOF" THEN cmd.eof ELSE "error"
<1>2. /\ Got(LineReads \cup {"bytes"}, Lost) /\ Finish(v)
      /\ UNCHANGED <<todo, asked, server, arrived, broken, destroyed>>
  BY DEF BreaksOff
<1>3. /\ Speech(cmd, Said, SoFar) /\ Standing(at, cmd, Said, Before, SoFar) /\ SoFar \in Nat
      /\ ~Followed /\ CommandFacts(cmd) /\ cmd \in CommandType
  BY Reading
<1>4. phase = "gap" /\ token.kind \in Lost /\ at \in LineReads \cup {"bytes"}
  BY <1>2 DEF Got
<1>5. /\ Before = SoFar
      /\ token.kind = "EOF" => fin /\ SoFar = Len(Said)
      /\ token.kind = "ERROR" => broken /\ (destroyed \/ shut)
      /\ token.kind \in {"EOF", "ERROR"}
  BY <1>4, HeardNothing
<1>6. SoFar >= 1 /\ Said[1] = "OKAY" /\ Awaits(cmd, Said, at, SoFar) /\ cmd.reads # "reply"
  <2>1. CASE at = "line"
    BY <1>3, <1>5, <2>1 DEF Standing, Awaits
  <2>2. CASE at = "exceptionLine"
    BY <1>3, <1>5, <2>2 DEF Standing, Awaits
  <2>3. CASE at = "bytes"
    BY <1>3, <1>5, <2>3 DEF Standing, Awaits
  <2> QED
    BY <1>4, <2>1, <2>2, <2>3 DEF LineReads
<1>7. v \in Verdicts /\ v # "handed"
  <2>1. cmd.eof \in Verdicts /\ cmd.eof # "handed"
    BY <1>3 DEF CommandType, CommandFacts
  <2> QED
    BY <2>1, VerdictFacts
<1>8. Decided(cmd, Said, SoFar, v, broken)
  <2>1. CASE token.kind = "EOF"
    <3>1. Firm(cmd, Said, SoFar, cmd.eof)
      BY <1>3, <1>5, <1>6, <2>1, BodyEnds
    <3> QED
      BY <2>1, <3>1 DEF Decided
  <2>2. CASE token.kind = "ERROR"
    BY <1>5, <2>2 DEF Decided
  <2> QED
    BY <1>5, <2>1, <2>2
<1> HIDE DEF v
<1>9. Accounted(cmd, Said, SoFar, v, destroyed) \/ GivenUp(Said, SoFar, v)
  <2>1. CASE token.kind = "EOF"
    BY <1>3, <1>5, <1>6, <1>7, <2>1, EndAccounted
  <2>2. CASE destroyed
    BY <1>7, <2>2, AccountedPlain
  <2>3. CASE token.kind = "ERROR" /\ broken /\ shut
    <3>0. at \in Reads \ FailReads
      BY <1>4 DEF Reads, Replies, FailReads, ValueReads, LineReads, Drains
    <3>1. NoRefusal(Said, SoFar)
      BY <1>5, <3>0, AcceptedSoFar
    <3>2. v = "error"
      BY <2>3 DEF v
    <3> QED
      BY <2>3, <3>1, <3>2 DEF GivenUp
  <2> QED
    BY <1>5, <2>1, <2>2, <2>3
<1>11. answered = asked
  BY <1>3, <1>6, Reading
<1>10. cmd.drain # "none" => Winding(cmd, Said, SoFar)
  BY <1>3, <1>6 DEF Winding, CommandFacts
<1> QED
  BY <1>1, <1>2, <1>3, <1>5, <1>7, <1>8, <1>9, <1>10, <1>11, FinishTalk

\* Every continuation preserves Talking.
LEMMA ContinueTalk ==
    ASSUME Talking, verdict # "handed", Continue
    PROVE  Talking'
BY AcceptedTalk, TransportTalk, AgainTalk, ReadsOnTalk, FailsTalk, UnexpectedTalk, ValueTalk,
   AllTalk, BytesTalk, MatchesTalk, ExceptionTalk, BreaksOffTalk, RejectsTalk, DrainedTalk, Zenon
   DEF Continue

------------------------------------------------------------------------------
(***************************************************************************)
(* The trackers.                                                           *)
(***************************************************************************)
Beyond == {"list", "gone", "idle", "drainEnd"}

\* A tracker has the connection: the answer to its request is read.
LEMMA FollowedTalk ==
    ASSUME IInv', Split', Told', Closed', verdict' = "handed", answered' = asked',
           Len(todo') = 1, at' \in Beyond
    PROVE  Talking'
<1>1. Followed'
  BY DEF Followed, Beyond
<1>2. Answered'
  BY <1>1 DEF Answered
<1>3. Heeded'
  BY DEF Heeded, Standing, FailReads, Beyond
<1>4. Settling'
  BY DEF Settling, Over, Beyond
<1>5. Places'
  BY DEF Places, Beyond, Reads, Replies, FailReads, ValueReads, LineReads, Drains
<1> QED
  BY <1>2, <1>3, <1>4, <1>5 DEF Talking, Talk

\* A connection is handed over after the last answer.
LEMMA HandedFacts ==
    ASSUME Talking, verdict = "handed"
    PROVE  answered = asked /\ Len(todo) = 1
BY DEF Talking, Talk, Places

\* A tracker's reads come after the command's.
LEMMA OutsideReads ==
    ASSUME Talking, at \in {"list", "gone", "idle"}
    PROVE  verdict = "handed" /\ Followed
BY DEF Talking, Talk, Places, Followed

\* A step of a tracker on what was sent.
LEMMA TrackTalk ==
    ASSUME Talking, IInv', Closed', UNCHANGED <<todo, asked, answered, sent>>, taken' >= taken,
           answered = asked, Len(todo) = 1, verdict' = "handed", at' \in Beyond
    PROVE  Talking'
<1>1. Followed'
  BY DEF Followed, Beyond
<1>2. Split' /\ Told'
  BY <1>1, Still
<1> QED
  BY <1>2, FollowedTalk

\* A tracker starts to read on the connection it was given.
LEMMA StartsTalk ==
    ASSUME Talking, StartsTracker
    PROVE  Talking'
<1>1. /\ Got({"reply"}, {"OKAY"}) /\ Len(todo) = 1 /\ verdict' = "handed" /\ StartRead("list")
      /\ UNCHANGED <<todo, asked, server, socket, ended>>
  BY DEF StartsTracker
<1>2. verdict # "handed"
  <2>1. at = "reply"
    BY <1>1 DEF Got
  <2>2. "reply" \in Reads \ {"drainEnd", "drainAll"}
    BY DEF Reads, Replies
  <2> QED
    BY <2>1, <2>2 DEF Talking, Talk, Places
<1>3. answered = asked
  BY <1>1, <1>2, FirstReply
<1>4. IInv'
  BY <1>1, ReadStep DEF Talking, Verdicts
<1>5. UNCHANGED <<asked, sent, ended, server, socket>> /\ answered' = answered
  BY <1>1 DEF server
<1>6. at' = "list" /\ taken' >= taken /\ Closed'
  BY <1>1, <1>5, ReadBefore
<1> QED
  BY <1>1, <1>3, <1>4, <1>5, <1>6, TrackTalk DEF Beyond

\* A list is sent behind the command's answer.
LEMMA SendTalk ==
    ASSUME Talking, SendList
    PROVE  Talking'
<1>1. /\ verdict = "handed" /\ at \in {"list", "idle"} /\ ~fin
      /\ sent' = Append(sent, Tok("payload", asked))
      /\ UNCHANGED <<todo, asked, answered, fin, socket, parser, verdict>>
  BY DEF SendList
<1>2. /\ todo' = todo /\ asked' = asked /\ answered' = answered /\ fin' = fin
      /\ arrived' = arrived /\ broken' = broken /\ destroyed' = destroyed /\ shut' = shut
      /\ taken' = taken /\ at' = at /\ phase' = phase /\ token' = token /\ ended' = ended
      /\ verdict' = verdict
  BY <1>1 DEF socket, parser
<1>3. answered = asked /\ Len(todo) = 1
  BY <1>1, HandedFacts
<1>4. /\ sent \in Seq(Token) /\ Len(sent) \in Nat /\ arrived \in 0 .. Len(sent)
      /\ taken \in 0 .. arrived /\ asked \in 1 .. 2 /\ asked - 1 <= taken
  BY Bounds
<1>5. Tok("payload", asked) \in Token /\ Tok("payload", asked).of = asked
      /\ Tok("payload", asked).kind \notin Lost
  BY <1>4 DEF Tok, Token, Kinds, Texts, Lost
<1>6. /\ sent' \in Seq(Token) /\ Len(sent') = Len(sent) + 1
      /\ \A i \in 1 .. Len(sent) : sent'[i] = sent[i]
      /\ sent'[Len(sent) + 1] = Tok("payload", asked)
  BY <1>1, <1>4, <1>5
<1>7. \A i \in 1 .. Len(sent') :
         \/ i \in 1 .. Len(sent) /\ sent'[i] = sent[i]
         \/ sent'[i].of = asked /\ sent'[i].kind \notin Lost
  BY <1>4, <1>5, <1>6
<1>8. Typed'
  BY <1>2, <1>4, <1>6 DEF Talking, IInv, Typed
<1>9. Tagged'
  BY <1>2, <1>7 DEF Talking, IInv, Tagged
<1>10. JustRead'
  <2> SUFFICES ASSUME phase = "gap", token.kind \notin Lost
               PROVE  taken \in 1 .. Len(sent') /\ token = sent'[taken] /\ token.of = asked
    BY <1>2 DEF JustRead
  <2>1. taken \in 1 .. Len(sent) /\ token = sent[taken] /\ token.of = asked
    BY DEF Talking, IInv, JustRead
  <2> QED
    BY <1>4, <1>6, <2>1
<1>11. Turn' /\ Empty' /\ Fresh' /\ OkayLast'
  BY <1>2, <1>3, <1>4 DEF Turn, Empty, Fresh, OkayLast
<1>12. IInv'
  BY <1>8, <1>9, <1>10, <1>11 DEF IInv
<1>13. Split'
  <2>1. asked = 2 => sent'[1] = Tok("OKAY", 1)
    <3> SUFFICES ASSUME asked = 2 PROVE sent'[1] = Tok("OKAY", 1)
      OBVIOUS
    <3>1. 1 \in 1 .. Len(sent)
      BY <1>4
    <3> QED
      BY <1>6, <3>1 DEF Talking, Talk, Split
  <2>2. \A i \in 1 .. Len(sent') : sent'[i].kind \notin Lost /\ (i >= asked => sent'[i].of = asked)
    BY <1>7 DEF Talking, Talk, Split
  <2> QED
    BY <1>2, <1>4, <2>1, <2>2 DEF Split
<1>14. Told'
  BY <1>2, <1>3, <1>4 DEF Told
<1>15. Closed'
  BY <1>1, <1>2 DEF Talking, Talk, Closed, Left
<1> QED
  BY <1>1, <1>2, <1>3, <1>12, <1>13, <1>14, <1>15, FollowedTalk DEF Beyond

\* A list is no token of a command's answer.
LEMMA UpdateTalk ==
    ASSUME Talking, Updates
    PROVE  Talking'
<1>1. /\ Got({"list"}, {"payload"}) /\ AfterUpdate
      /\ UNCHANGED <<todo, asked, server, socket, ended, verdict>>
  BY DEF Updates
<1>2. verdict = "handed"
  BY <1>1, OutsideReads DEF Got
<1>3. answered = asked /\ Len(todo) = 1
  BY <1>2, HandedFacts
<1>4. /\ UNCHANGED <<asked, sent, ended, server, socket>> /\ answered' = answered /\ sent' = sent
      /\ todo' = todo /\ asked' = asked /\ arrived' = arrived /\ broken' = broken
      /\ destroyed' = destroyed /\ shut' = shut /\ fin' = fin /\ ended' = ended
  BY <1>1 DEF server, socket
<1>5. CASE StartRead("list")
  <2>1. IInv'
    BY <1>1, <1>2, <1>5, ReadStep DEF Talking, Verdicts
  <2>2. at' = "list" /\ taken' >= taken /\ Closed'
    BY <1>4, <1>5, ReadBefore
  <2> QED
    BY <1>1, <1>2, <1>3, <1>4, <2>1, <2>2, TrackTalk DEF Beyond
<1>6. CASE at' = "idle" /\ UNCHANGED <<taken, phase, token>>
  <2>1. Quiet
    BY <1>1, <1>4, <1>6 DEF Quiet, Talking, IInv, Typed
  <2>2. IInv'
    BY <2>1, QuietStep DEF Talking
  <2>3. Closed' /\ taken' >= taken
    BY <1>4, <1>6, Bounds DEF Closed, Left, Talking, Talk
  <2> QED
    BY <1>1, <1>2, <1>3, <1>4, <1>6, <2>2, <2>3, TrackTalk DEF Beyond
<1> QED
  BY <1>1, <1>5, <1>6, Zenon DEF AfterUpdate

\* parser.end() of a device tracker.
LEMMA WindsUp ==
    ASSUME Talking, at = "list", StartEnd,
           UNCHANGED <<todo, asked, server, arrived, broken, destroyed, ended, verdict>>
    PROVE  Talking'
<1>1. verdict = "handed"
  BY OutsideReads
<1>2. answered = asked /\ Len(todo) = 1
  BY <1>1, HandedFacts
<1>3. at' = "drainEnd" /\ taken' = taken /\ taken' >= taken /\ Closed'
  BY EndCloses
<1>4. /\ \/ phase' = "waiting" /\ token' = token /\ shut' = TRUE
         \/ phase' = "gap" /\ token' = Eof /\ shut' = shut
  BY Zenon DEF StartEnd, HalfClose
<1>5. Quiet
  BY <1>3, <1>4 DEF Quiet, Talking, IInv, Typed
<1>6. IInv'
  BY <1>5, QuietStep DEF Talking
<1> QED
  BY <1>1, <1>2, <1>3, <1>6, TrackTalk DEF Beyond, server

\* The tracker stops reading.
LEMMA StopsTalk ==
    ASSUME Talking, verdict = "handed", at' \in {"gone", "idle"}, shut' \in BOOLEAN, shut => shut',
           UNCHANGED <<todo, asked, server, arrived, broken, destroyed>>,
           UNCHANGED <<taken, phase, token, ended, verdict>>
    PROVE  Talking'
<1>1. answered = asked /\ Len(todo) = 1
  BY HandedFacts
<1>2. Quiet
  BY DEF Quiet, Talking, IInv, Typed
<1>3. IInv'
  BY <1>2, QuietStep DEF Talking
<1>4. Closed'
  BY DEF Closed, Talking, Talk, server, Left
<1>5. taken' >= taken
  BY Bounds
<1> QED
  BY <1>1, <1>3, <1>4, <1>5, TrackTalk DEF Beyond, server

\* Every step of a tracker preserves Talking.
LEMMA TrackerTalk ==
    ASSUME Talking, TrackerSteps
    PROVE  Talking'
<1>1. CASE StartsTracker
  BY <1>1, StartsTalk
<1>2. CASE SendList
  BY <1>2, SendTalk
<1>3. CASE Updates
  BY <1>3, UpdateTalk
<1>4. CASE ListBreaksOff
  BY <1>4, WindsUp DEF ListBreaksOff, Got
<1>5. CASE UserEnds
  BY <1>5, WindsUp DEF UserEnds
<1>6. shut \in BOOLEAN
  BY DEF Talking, IInv, Typed
<1>7. CASE PidsBreakOff
  BY <1>7, OutsideReads, StopsTalk DEF PidsBreakOff, Got
<1>8. CASE UserEndsPids
  BY <1>6, <1>8, OutsideReads, StopsTalk DEF UserEndsPids, socket
<1>9. CASE Farewell
  BY <1>6, <1>9, StopsTalk DEF Farewell, socket
<1> QED
  BY <1>1, <1>2, <1>3, <1>4, <1>5, <1>7, <1>8, <1>9, Zenon DEF TrackerSteps, TrackerContinues

------------------------------------------------------------------------------
(***************************************************************************)
(* The start of a call, and of a retry.                                    *)
(***************************************************************************)
Beginning ==
    /\ todo \in {<<c>> : c \in Commands} \cup {<<Transport, c>> : c \in Commands}
    /\ asked = 1 /\ answered = 0 /\ sent = <<>> /\ fin = FALSE
    /\ arrived = 0 /\ broken = FALSE /\ destroyed = FALSE /\ shut = FALSE
    /\ taken = 0 /\ at = "reply" /\ phase = "waiting" /\ token = Eof
    /\ ended = FALSE /\ verdict = "none"

\* A conversation that begins satisfies Talking.
LEMMA BeginTalk == Beginning => Talking
<1> SUFFICES ASSUME Beginning PROVE Talking
  OBVIOUS
<1> USE DEF Beginning
<1>1. Eof \in Token /\ <<>> \in Seq(Token) /\ Len(<<>>) = 0
  BY DEF Eof, Tok, Token, Kinds
<1>2. Typed
  <2>1. sent \in Seq(Token) /\ token \in Token
    BY <1>1
  <2>2. /\ asked \in 1 .. 2 /\ answered \in 0 .. asked
        /\ arrived \in 0 .. Len(sent) /\ taken \in 0 .. arrived
    BY <1>1
  <2>3. /\ phase \in {"waiting", "gap"} /\ verdict \in Verdicts \cup {"none"}
        /\ fin \in BOOLEAN /\ ended \in BOOLEAN
        /\ broken \in BOOLEAN /\ destroyed \in BOOLEAN /\ shut \in BOOLEAN
    OBVIOUS
  <2> QED
    BY <2>1, <2>2, <2>3, Zenon DEF Typed
<1>3. Turn /\ Empty /\ Fresh /\ Tagged /\ OkayLast /\ JustRead
  BY <1>1 DEF Turn, Empty, Fresh, Tagged, OkayLast, JustRead
<1>4. Split /\ Told
  BY <1>1 DEF Split, Told
<1>5. Closed /\ Answered
  BY DEF Closed, Answered
<1>6. Places /\ Settling
  BY DEF Places, Settling, Over, Reads, Replies
<1>7. Heeded
  <2>1. ~HasToken
    BY DEF HasToken
  <2>2. Before = 0
    BY <2>1 DEF Before, SoFar
  <2> QED
    BY <2>2 DEF Heeded, Standing, FailReads
<1> QED
  BY <1>2, <1>3, <1>4, <1>5, <1>6, <1>7 DEF Talking, Talk, IInv

\* So does one that begins anew.
LEMMA BeginAgain == Beginning' => Talking'
BY BeginTalk, PTL

\* The first state begins a conversation.
LEMMA InitBegins ==
    ASSUME Init
    PROVE  Beginning
<1>1. todo \in {<<c>> : c \in Commands} \cup {<<Transport, c>> : c \in Commands}
  BY Zenon DEF Init
<1> QED
  BY <1>1, Zenon DEF Init, Beginning

\* The running command is one of the client's.
LEMMA CmdKnown ==
    ASSUME Talking
    PROVE  cmd \in Commands
<1>1. Transport \in Commands
  BY DEF Commands
<1>2. \/ \E c \in Commands : todo = <<c>>
      \/ \E c \in Commands : todo = <<Transport, c>>
  BY Zenon DEF Talking, IInv, Typed
<1>3. CASE \E c \in Commands : todo = <<c>>
  BY <1>3 DEF cmd
<1>4. CASE \E c \in Commands : todo = <<Transport, c>>
  BY <1>1, <1>4 DEF cmd
<1> QED
  BY <1>2, <1>3, <1>4, Zenon

\* A retry begins a conversation.
LEMMA RetriesTalk ==
    ASSUME Talking, Retries
    PROVE  Talking'
<1>1. cmd \in Commands
  BY CmdKnown
<1>2. /\ todo' = <<Transport, cmd>>
      /\ asked' = 1 /\ answered' = 0 /\ sent' = <<>> /\ fin' = FALSE
      /\ arrived' = 0 /\ broken' = FALSE /\ destroyed' = FALSE /\ shut' = FALSE
      /\ taken' = 0 /\ at' = "reply" /\ phase' = "waiting" /\ token' = Eof
      /\ ended' = FALSE /\ verdict' = "none"
  BY Zenon DEF Retries
<1>3. todo' \in {<<c>> : c \in Commands} \cup {<<Transport, c>> : c \in Commands}
  BY <1>1, <1>2, Zenon
<1>4. Beginning'
  BY <1>2, <1>3, Zenon DEF Beginning
<1> QED
  BY <1>4, BeginAgain

\* An error that only the Client could have heard.
LEMMA UnheardTalk ==
    ASSUME Talking, UnheardError
    PROVE  Talking'
<1>1. /\ destroyed' = TRUE
      /\ UNCHANGED <<todo, asked, server, arrived, broken, shut, parser, verdict>>
  BY DEF UnheardError
<1>2. /\ todo' = todo /\ asked' = asked /\ answered' = answered /\ sent' = sent /\ fin' = fin
      /\ arrived' = arrived /\ broken' = broken /\ shut' = shut
      /\ taken' = taken /\ at' = at /\ phase' = phase /\ token' = token /\ ended' = ended
      /\ verdict' = verdict
  BY <1>1 DEF server, parser
<1>3. Quiet
  BY <1>1, <1>2 DEF Quiet, Talking, IInv, Typed
<1>4. IInv'
  BY <1>3, QuietStep DEF Talking
<1>5. Closed'
  BY <1>1, <1>2 DEF Closed, Left, Talking, Talk
<1>6. Before' = Before /\ taken' >= taken
  BY <1>2, BeforeSame, Bounds
<1> QED
  BY <1>1, <1>2, <1>4, <1>5, <1>6, EventTalk

\* Nothing happens.
LEMMA StillTalk ==
    ASSUME Talking, UNCHANGED vars
    PROVE  Talking'
<1>1. /\ todo' = todo /\ asked' = asked /\ answered' = answered /\ sent' = sent /\ fin' = fin
      /\ arrived' = arrived /\ broken' = broken /\ destroyed' = destroyed /\ shut' = shut
      /\ taken' = taken /\ at' = at /\ phase' = phase /\ token' = token /\ ended' = ended
      /\ verdict' = verdict
  BY DEF vars, server, socket, parser
<1>2. Quiet
  BY <1>1 DEF Quiet, Talking, IInv, Typed, server
<1>3. IInv'
  BY <1>2, QuietStep DEF Talking
<1>4. Closed'
  BY <1>1 DEF Closed, Left, Talking, Talk
<1>5. Before' = Before /\ taken' >= taken
  BY <1>1, BeforeSame, Bounds
<1> QED
  BY <1>1, <1>3, <1>4, <1>5, EventTalk

------------------------------------------------------------------------------
(***************************************************************************)
(* What the user of a tracker knows, and how often a command is run.       *)
(***************************************************************************)
\* Every list that is told replaces the one before it in what the user knows.
LEMMA ListIsFunction ==
    ASSUME NEW new \in Lists
    PROVE  new = [d \in DOMAIN new |-> new[d]]
<1>1. \A types : \A f \in ListsOf(types) : f = [d \in DOMAIN f |-> f[d]]
  BY DEF ListsOf
<1> QED
  BY <1>1 DEF Lists

\* No device.
LEMMA NobodyIsEmpty == DOMAIN Nobody = {}
BY DEF Nobody

\* A user who knows the last list knows the next one by the change set.
LEMMA ReplaysDevices ==
    ASSUME NEW new \in Lists, TracksDevices, view = known, last = known
    PROVE  Replayed(new) = new /\ Remembered(new) = new
<1>1. Remembered(new) = new
  BY DEF Remembered
<1> DEFINE K == DOMAIN known
           N == DOMAIN new
           T == Added(new) \cup Changed(new)
<1>2. T = {d \in N : d \notin K \/ new[d] # known[d]}
  BY DEF Added, Changed
<1>3. Removed(new) = K \ N
  BY <1>1 DEF Removed
<1>4. (DOMAIN view \cup T) \ Removed(new) = N
  BY <1>2, <1>3
<1>5. Replayed(new) = [d \in (DOMAIN view \cup T) \ Removed(new) |->
                          IF d \in T THEN new[d] ELSE view[d]]
  BY DEF Replayed
<1>6. Replayed(new) = [d \in N |-> IF d \in T THEN new[d] ELSE view[d]]
  BY <1>4, <1>5
<1>7. \A d \in N : (IF d \in T THEN new[d] ELSE view[d]) = new[d]
  BY <1>2
<1>8. new = [d \in N |-> new[d]]
  BY ListIsFunction
<1> HIDE DEF N, T
<1>9. [d \in N |-> IF d \in T THEN new[d] ELSE view[d]] = [d \in N |-> new[d]]
  BY <1>7
<1> QED
  BY <1>1, <1>6, <1>8, <1>9

\* So does one who knows nothing, of a first list.
LEMMA ReplaysFirst ==
    ASSUME NEW new \in Lists, view = Nobody, last = Nobody, known = Nobody
    PROVE  Replayed(new) = new
<1> DEFINE N == DOMAIN new
           T == Added(new) \cup Changed(new)
<1>1. T = N
  BY NobodyIsEmpty DEF Added, Changed
<1>2. Removed(new) = {}
  BY NobodyIsEmpty DEF Removed
<1>3. Replayed(new) = [d \in (DOMAIN view \cup T) \ Removed(new) |->
                          IF d \in T THEN new[d] ELSE view[d]]
  BY DEF Replayed
<1>4. (DOMAIN view \cup T) \ Removed(new) = N
  BY <1>1, <1>2, NobodyIsEmpty
<1>5. Replayed(new) = [d \in N |-> IF d \in T THEN new[d] ELSE view[d]]
  BY <1>3, <1>4
<1>6. new = [d \in N |-> new[d]]
  BY ListIsFunction
<1> HIDE DEF N, T
<1>7. [d \in N |-> IF d \in T THEN new[d] ELSE view[d]] = [d \in N |-> new[d]]
  BY <1>1
<1> QED
  BY <1>5, <1>6, <1>7

\* What the user knows changes only when a list is told.
LEMMA ViewSame ==
    ASSUME ViewInv, UNCHANGED tracked, cmd' = cmd, at' = at \/ at' # "list",
           verdict' = "handed" \/ verdict' = verdict
    PROVE  ViewInv'
<1>1. known' = known /\ last' = last /\ view' = view
  BY DEF tracked
<1>2. TracksDevices' = TracksDevices /\ TracksPids' = TracksPids
  BY DEF TracksDevices, TracksPids
<1>3. Nobody' = Nobody
  BY DEF Nobody
<1> QED
  BY <1>1, <1>2, <1>3 DEF ViewInv

\* Outside of a tracker nobody is told anything.
LEMMA ViewUntold ==
    ASSUME ViewInv, UNCHANGED tracked, verdict # "handed",
           at' = "list" => TracksDevices' \/ TracksPids'
    PROVE  ViewInv'
<1>1. known' = known /\ last' = last /\ view' = view
  BY DEF tracked
<1>2. Nobody' = Nobody
  BY DEF Nobody
<1> QED
  BY <1>1, <1>2 DEF ViewInv

\* Every update tells the user the list.
LEMMA UpdateView ==
    ASSUME Talking, ViewInv, Updates
    PROVE  ViewInv'
<1>1. /\ Got({"list"}, {"payload"}) /\ AfterUpdate
      /\ UNCHANGED <<todo, asked, server, socket, ended, verdict>>
  BY DEF Updates
<1>2. PICK new \in Lists : last' = new /\ view' = Replayed(new) /\ known' = Remembered(new)
  BY DEF Updates
<1>3. at = "list" /\ verdict = "handed" /\ verdict' = "handed"
  BY <1>1, OutsideReads DEF Got
<1>4. cmd' = cmd /\ TracksDevices' = TracksDevices
  BY <1>1 DEF cmd, TracksDevices
<1>5. CASE TracksDevices
  <2>1. view = known /\ last = known
    BY <1>5 DEF ViewInv
  <2>2. Replayed(new) = new /\ Remembered(new) = new
    BY <1>5, <2>1, ReplaysDevices
  <2> QED
    BY <1>2, <1>3, <1>4, <1>5, <2>2 DEF ViewInv
<1>6. CASE ~TracksDevices
  <2>1. view = Nobody /\ last = Nobody /\ known = Nobody
    BY <1>3, <1>6 DEF ViewInv
  <2>2. Replayed(new) = new
    BY <2>1, ReplaysFirst
  <2>3. at' = "idle"
    BY <1>1, <1>6, Zenon DEF AfterUpdate
  <2> QED
    BY <1>2, <1>3, <1>4, <1>6, <2>2, <2>3 DEF ViewInv
<1> QED
  BY <1>5, <1>6

\* Every step of a tracker preserves ViewInv.
LEMMA TrackerView ==
    ASSUME Talking, ViewInv, TrackerSteps
    PROVE  ViewInv'
<1>1. CASE StartsTracker
  <2>1. at = "reply" /\ UNCHANGED <<todo, tracked>> /\ (TracksDevices \/ TracksPids)
    BY <1>1 DEF StartsTracker, Got
  <2>2. verdict # "handed"
    <3>1. "reply" \in Reads \ {"drainEnd", "drainAll"}
      BY DEF Reads, Replies
    <3> QED
      BY <2>1, <3>1 DEF Talking, Talk, Places
  <2>3. TracksDevices' = TracksDevices /\ TracksPids' = TracksPids
    BY <2>1 DEF TracksDevices, TracksPids, cmd
  <2> QED
    BY <2>1, <2>2, <2>3, ViewUntold
<1>2. CASE SendList
  <2>1. UNCHANGED <<todo, parser, verdict, tracked>>
    BY <1>2 DEF SendList
  <2> QED
    BY <2>1, ViewSame DEF cmd, parser
<1>3. CASE Updates
  BY <1>3, UpdateView
<1>4. CASE ListBreaksOff \/ UserEnds
  <2>1. StartEnd /\ UNCHANGED <<todo, verdict, tracked>>
    BY <1>4, Zenon DEF ListBreaksOff, UserEnds
  <2>2. at' = "drainEnd"
    BY <2>1 DEF StartEnd
  <2> QED
    BY <2>1, <2>2, ViewSame DEF cmd
<1>5. CASE PidsBreakOff \/ UserEndsPids \/ Farewell
  <2>1. at' \in {"gone", "idle"} /\ UNCHANGED <<todo, verdict, tracked>>
    BY <1>5 DEF PidsBreakOff, UserEndsPids, Farewell
  <2> QED
    BY <2>1, ViewSame DEF cmd
<1> QED
  BY <1>1, <1>2, <1>3, <1>4, <1>5, Zenon DEF TrackerSteps, TrackerContinues

\* A command neither starts a tracker nor runs when it has handed over.
LEMMA CommandView ==
    ASSUME Talking, ViewInv, UNCHANGED tracked,
           \/ (verdict # "handed" /\ Continue) \/ TimesOut
           \/ ServerAnswers \/ ServerCloses \/ Arrive
           \/ Readable \/ StreamEnds \/ StreamBreaks \/ SocketTimesOut
    PROVE  ViewInv'
<1>1. CASE verdict # "handed" /\ Continue
  <2>1. AtOK
    BY <1>1 DEF Talking, Talk, Places, AtOK
  <2>2. AtOK'
    BY <1>1, <2>1, StepAtOK DEF Next
  <2>3. at' # "list"
    BY <2>2 DEF AtOK, Reads, Replies, FailReads, ValueReads, LineReads, Drains
  <2> QED
    BY <1>1, <2>3, ViewUntold
<1>2. CASE TimesOut
  <2>1. at' = "over" /\ verdict' = "handed" /\ UNCHANGED todo
    BY <1>2 DEF TimesOut, Settle
  <2> QED
    BY <2>1, ViewSame DEF cmd
<1>3. CASE ServerAnswers \/ ServerCloses \/ Arrive
  <2>1. UNCHANGED <<todo, parser, verdict>>
    BY <1>3, Zenon DEF ServerAnswers, ServerCloses, Arrive
  <2> QED
    BY <2>1, ViewSame DEF cmd, parser
<1>4. CASE Readable \/ StreamEnds \/ StreamBreaks \/ SocketTimesOut
  <2>1. UNCHANGED <<todo, verdict>> /\ at' = at
    BY <1>4, ReadStays, Zenon DEF Readable, StreamEnds, StreamBreaks, SocketTimesOut
  <2> QED
    BY <2>1, ViewSame DEF cmd
<1> QED
  BY <1>1, <1>2, <1>3, <1>4

------------------------------------------------------------------------------
(***************************************************************************)
(* The whole.                                                              *)
(***************************************************************************)
ClientInv == Talking /\ ViewInv /\ RunsInv

\* The first state satisfies ClientInv.
LEMMA InitClientInv == ClientInit => ClientInv
<1> SUFFICES ASSUME ClientInit PROVE ClientInv
  OBVIOUS
<1>1. Init /\ TrackersInit /\ runs = 1
  BY Zenon DEF ClientInit
<1>2. service \in BOOLEAN
  <2>1. service \in (IF StartsIntent(todo[Len(todo)]) THEN BOOLEAN ELSE {FALSE})
    BY Zenon DEF ClientInit
  <2> QED
    BY <2>1
<1>3. Beginning
  BY <1>1, InitBegins
<1>4. Talking
  BY <1>3, BeginTalk
<1>5. ViewInv
  BY <1>1, <1>3, Zenon DEF ViewInv, TrackersInit, Beginning
<1>6. RunsInv
  BY <1>1, <1>2 DEF RunsInv
<1> QED
  BY <1>4, <1>5, <1>6 DEF ClientInv

\* RunsInv is about the request alone.
LEMMA RunsSame ==
    ASSUME RunsInv, UNCHANGED request
    PROVE  RunsInv'
BY DEF RunsInv, request

\* Connecting leaves request and conversation alone.
LEMMA ConnectingStep ==
    ASSUME ClientInv, UNCHANGED <<request, conversation>>
    PROVE  ClientInv'
<1>1. UNCHANGED vars /\ UNCHANGED tracked /\ UNCHANGED request
  BY DEF conversation
<1>2. cmd' = cmd /\ at' = at /\ verdict' = verdict
  BY <1>1 DEF vars, parser, cmd
<1> QED
  BY <1>1, <1>2, StillTalk, ViewSame, RunsSame DEF ClientInv

\* A retry preserves ClientInv.
LEMMA RetriesStep ==
    ASSUME ClientInv, Retries
    PROVE  ClientInv'
<1>1. Talking'
  BY RetriesTalk DEF ClientInv
<1>2. /\ verdict = "error" /\ at' = "reply" /\ UNCHANGED tracked
      /\ user /\ user' = service /\ service' = service
      /\ runs' = IF runs = 3 THEN 3 ELSE runs + 1
  BY Zenon DEF Retries, MayComplain, UserAfter
<1>3. ViewInv'
  BY <1>2, ViewUntold DEF ClientInv
<1>4. RunsInv'
  BY <1>2 DEF ClientInv, RunsInv
<1> QED
  BY <1>1, <1>3, <1>4 DEF ClientInv

\* The conversation and the tracker preserve ClientInv.
LEMMA ConversingStep ==
    ASSUME ClientInv, Conversing
    PROVE  ClientInv'
<1>1. CASE InTracker(TrackerSteps)
  <2>1. TrackerSteps /\ UNCHANGED request
    BY <1>1, Zenon DEF InTracker
  <2> QED
    BY <2>1, TrackerTalk, TrackerView, RunsSame DEF ClientInv
<1>2. CASE \/ InCommand(RunsCommand \/ ServerAnswers \/ ServerCloses \/ Arrive \/ TimesOut)
           \/ InCommand(Listening /\ (Readable \/ StreamEnds \/ StreamBreaks \/ SocketTimesOut))
  <2>1. /\ \/ (verdict # "handed" /\ Continue) \/ TimesOut
           \/ ServerAnswers \/ ServerCloses \/ Arrive
           \/ Readable \/ StreamEnds \/ StreamBreaks \/ SocketTimesOut
        /\ UNCHANGED tracked /\ UNCHANGED request
    BY <1>2, Zenon DEF InCommand, RunsCommand
  <2>2. Talking'
    BY <2>1, ContinueTalk, TimesOutTalk, ServerTalk, CloseTalk, ArriveTalk, ReadableTalk,
       EndsTalk, BreaksTalk, GivesUpTalk DEF ClientInv
  <2> QED
    BY <2>1, <2>2, CommandView, RunsSame DEF ClientInv
<1> QED
  BY <1>1, <1>2, Zenon DEF Conversing

\* Every step preserves ClientInv.
LEMMA StepClientInv == ClientInv /\ [ClientNext]_clientVars => ClientInv'
<1> SUFFICES ASSUME ClientInv, [ClientNext]_clientVars PROVE ClientInv'
  OBVIOUS
<1>1. CASE Connecting
  <2>1. UNCHANGED request /\ UNCHANGED conversation
    BY <1>1, Zenon DEF Connecting, Connects, ConnectRefused, ConnectFails, ServerStarts
  <2> QED
    BY <2>1, ConnectingStep
<1>2. CASE UnheardError
  <2>1. UNCHANGED <<tracked, request, todo, parser, verdict>>
    BY <1>2 DEF UnheardError
  <2>2. cmd' = cmd /\ at' = at /\ verdict' = verdict
    BY <2>1 DEF cmd, parser
  <2> QED
    BY <1>2, <2>1, <2>2, UnheardTalk, ViewSame, RunsSame DEF ClientInv
<1>3. CASE Retries
  BY <1>3, RetriesStep
<1>4. CASE Conversing
  BY <1>4, ConversingStep
<1>5. CASE UNCHANGED clientVars
  <2>1. UNCHANGED request /\ UNCHANGED conversation
    BY <1>5 DEF clientVars
  <2> QED
    BY <2>1, ConnectingStep
<1> QED
  BY <1>1, <1>2, <1>3, <1>4, <1>5, Zenon DEF ClientNext

\* The inductive invariant of a call, its conversation and its tracker, for every
\* command, output, list and retry.
THEOREM Invariant == ClientSpec => []ClientInv
BY InitClientInv, StepClientInv, PTL DEF ClientSpec

\* Also with trackers, retries and errors nobody hears, whatever a continuation
\* acts on was said to the command that is running (Parser, DeviceClient.transport).
THEOREM ClientOwn == ClientSpec => []OwnAnswer
<1>1. ClientInv => OwnAnswer
  BY DEF ClientInv, Talking, IInv, JustRead, OwnAnswer
<1> QED
  BY <1>1, Invariant, PTL

\* How a command settles follows from what the server said to it, for all the
\* commands: not from how the network splits the answer and from when the server
\* closes.  Only a socket that fails or times out and the timer of monkey can change it
\* (Parser, the execute methods).
THEOREM Outcomes == ClientSpec => []OutcomeFollowsAnswer
<1>1. ClientInv => OutcomeFollowsAnswer
  <2> SUFFICES ASSUME ClientInv, Over
               PROVE  \/ verdict = Outcome(cmd, Said)
                      \/ broken /\ verdict = "error"
                      \/ cmd.timer /\ verdict = "handed"
    BY DEF OutcomeFollowsAnswer
  <2>1. Decided(cmd, Said, SoFar, verdict, broken)
    BY Zenon DEF ClientInv, Talking, Talk, Settling
  <2>2. Said \in Seq(Kinds) /\ SoFar \in 0 .. Len(Said)
    BY SaidFacts DEF ClientInv, Talking, IInv, Talk
  <2>3. Firm(cmd, Said, SoFar, verdict) => verdict = Outcome(cmd, Said)
    <3>1. SubSeq(Said, 1, Len(Said)) = Said
      BY <2>2
    <3>2. Len(Said) \in SoFar .. Len(Said)
      BY <2>2
    <3> QED
      BY <3>1, <3>2, Zenon DEF Firm
  <2> QED
    BY <2>1, <2>3, Zenon DEF Decided
<1> QED
  BY <1>1, Invariant, PTL

\* The tokens of the connection are those of the answer, behind the OKAY to the
\* transport request.
LEMMA SentIsSaid ==
    ASSUME Talking, NEW i \in 1 .. Len(sent)
    PROVE  \/ sent[i].kind = "OKAY" /\ i <= taken
           \/ \E k \in 1 .. Len(Said) : Said[k] = sent[i].kind /\ (i > taken <=> k > SoFar)
<1>1. /\ Said \in Seq(Kinds) /\ Len(Said) = Len(sent) + 1 - asked
      /\ \A k \in 1 .. Len(Said) : Said[k] = sent[asked + k - 1].kind
      /\ SoFar \in 0 .. Len(Said) /\ taken = SoFar + asked - 1
      /\ asked \in 1 .. 2 /\ Len(sent) \in Nat /\ taken \in 0 .. Len(sent)
  BY SaidFacts DEF Talking, IInv, Talk
<1>2. CASE i < asked
  <2>1. asked = 2 /\ i = 1
    BY <1>1, <1>2
  <2>2. sent[1] = Tok("OKAY", 1)
    BY <2>1 DEF Talking, Talk, Split
  <2>3. i <= taken
    BY <1>1, <2>1
  <2> QED
    BY <2>1, <2>2, <2>3 DEF Tok
<1>3. CASE i >= asked
  <2> DEFINE k == i + 1 - asked
  <2>1. k \in 1 .. Len(Said) /\ asked + k - 1 = i /\ (i > taken <=> k > SoFar)
    BY <1>1, <1>3
  <2> HIDE DEF k
  <2>2. Said[k] = sent[i].kind
    BY <1>1, <2>1
  <2> QED
    BY <2>1, <2>2
<1>4. i < asked \/ i >= asked
  BY <1>1
<1> QED
  BY <1>2, <1>3, <1>4, Zenon

\* When a command settles its connection is handed over at the first byte of the
\* stream, destroyed, or read to its end, or a 'timeout' has half-closed it; only
\* isinstalled and framebuffer leave bytes unread for another reason.  After a
\* refusal or an unexpected reply it is destroyed
\* (Parser.readError, Parser.unexpected, the .finally() of the searches).
THEOREM Connections == ClientSpec => []ConnectionAccounted
<1>1. ClientInv => ConnectionAccounted
  <2> SUFFICES ASSUME ClientInv, Over
               PROVE  /\ (verdict = "handed" /\ ~cmd.timer) =>
                            \A i \in 1 .. Len(sent) : (i > taken) <=> (sent[i].kind = "payload")
                      /\ verdict = "handed" => \A i \in 1 .. taken : sent[i].kind # "payload"
                      /\ verdict # "handed" => \/ destroyed \/ taken = Len(sent)
                                               \/ LeavesUnread(cmd) \/ (broken /\ shut)
                      /\ (\E i \in 1 .. taken :
                             sent[i].kind = "FAIL" \/ (sent[i].kind = "JUNK" /\ ~cmd.lenient))
                            => destroyed
    BY DEF ConnectionAccounted
  <2>1. Accounted(cmd, Said, SoFar, verdict, destroyed) \/ GivenUp(Said, SoFar, verdict)
    BY Zenon DEF ClientInv, Talking, Talk, Settling
  <2>2. /\ Len(Said) = Len(sent) + 1 - asked /\ SoFar \in 0 .. Len(Said)
        /\ taken = SoFar + asked - 1 /\ asked \in 1 .. 2 /\ Len(sent) \in Nat
        /\ taken \in 0 .. Len(sent)
    BY SaidFacts DEF ClientInv, Talking, IInv, Talk
  <2>3. \A i \in 1 .. Len(sent) :
           \/ sent[i].kind = "OKAY" /\ i <= taken
           \/ \E k \in 1 .. Len(Said) : Said[k] = sent[i].kind /\ (i > taken <=> k > SoFar)
    BY SentIsSaid DEF ClientInv
  <2>4. ASSUME verdict = "handed", ~cmd.timer, NEW i \in 1 .. Len(sent)
        PROVE  (i > taken) <=> (sent[i].kind = "payload")
    <3>1. \A k \in 1 .. Len(Said) : (k > SoFar) <=> (Said[k] = "payload")
      BY <2>1, <2>4, Zenon DEF Accounted, GivenUp
    <3>2. i <= taken <=> ~(i > taken)
      BY <2>2
    <3> QED
      BY <2>3, <3>1, <3>2
  <2>5. ASSUME verdict = "handed", NEW i \in 1 .. taken
        PROVE  sent[i].kind # "payload"
    <3>1. \A k \in 1 .. SoFar : Said[k] # "payload"
      BY <2>1, <2>5, Zenon DEF Accounted, GivenUp
    <3>2. i \in 1 .. Len(sent) /\ ~(i > taken)
      BY <2>2
    <3>3. \A k \in 1 .. Len(Said) : ~(k > SoFar) => k \in 1 .. SoFar
      BY <2>2
    <3> QED
      BY <2>3, <3>1, <3>2, <3>3
  <2>6. verdict # "handed" => \/ destroyed \/ taken = Len(sent)
                              \/ LeavesUnread(cmd) \/ (broken /\ shut)
    <3>1. verdict # "handed" => \/ destroyed \/ SoFar = Len(Said)
                                \/ LeavesUnread(cmd) \/ (broken /\ shut)
      BY <2>1, Zenon DEF Accounted, GivenUp
    <3> QED
      BY <2>2, <3>1
  <2>7. ASSUME NEW i \in 1 .. taken,
               sent[i].kind = "FAIL" \/ (sent[i].kind = "JUNK" /\ ~cmd.lenient)
        PROVE  destroyed
    <3>1. \A k \in 1 .. SoFar : Said[k] = "FAIL" \/ (Said[k] = "JUNK" /\ ~cmd.lenient) => destroyed
      <4>1. "FAIL" \in {"FAIL", "JUNK"} /\ "JUNK" \in {"FAIL", "JUNK"}
        OBVIOUS
      <4> QED
        BY <2>1, <4>1, Zenon DEF Accounted, GivenUp, NoRefusal
    <3>2. i \in 1 .. Len(sent) /\ ~(i > taken)
      BY <2>2
    <3>3. \A k \in 1 .. Len(Said) : ~(k > SoFar) => k \in 1 .. SoFar
      BY <2>2
    <3> QED
      BY <2>3, <2>7, <3>1, <3>2, <3>3
  <2> QED
    BY <2>4, <2>5, <2>6, <2>7
<1> QED
  BY <1>1, Invariant, PTL

\* Who only listens to 'add', 'change' and 'remove' knows the last list that was
\* told (Tracker.update, JdwpTracker.update), for any devices and types.
THEOREM ViewTold == ClientSpec => []ViewIsLastList
<1>1. ClientInv => ViewIsLastList
  BY DEF ClientInv, ViewInv, ViewIsLastList
<1> QED
  BY <1>1, Invariant, PTL

\* startActivity is run again once at most (DeviceClient.startActivity).
THEOREM Retried == ClientSpec => []RetriedOnce
<1>1. ClientInv => RetriedOnce
  BY DEF ClientInv, RunsInv, RetriedOnce
<1> QED
  BY <1>1, Invariant, PTL
=============================================================================
