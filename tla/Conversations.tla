--------------------------- MODULE Conversations ---------------------------
(***************************************************************************)
(* The commands (src/adb/command): one request on a connection, and the    *)
(* reads of the Parser that its answer takes.  A device command runs on    *)
(* the connection on which HostTransportCommand has run (DeviceClient).    *)
(*                                                                         *)
(* All commands share one conversation and a command is a record of what   *)
(* sets it apart.  A token is what one read asks for: a reply of four      *)
(* bytes, a length, a text, a line, the bytes of a header; or a piece of   *)
(* the stream that is handed over.  The text of a token is kept only as    *)
(* far as the command tells texts apart.                                   *)
(*                                                                         *)
(* Promises and the socket behave as in SyncPull: a read has settled some  *)
(* time before its continuation runs (phase "gap"), and the listeners of   *)
(* the read are still attached then, so that 'end' is noted, but 'error'   *)
(* reaches nobody.  A destroyed socket emits nothing more.  A continuation *)
(* due on bytes that were there already runs at once; the model lets       *)
(* events come before it all the same.                                     *)
(*                                                                         *)
(* An operator named Faulty... is a mistake the definition after it could  *)
(* have contained; no action uses it.                                      *)
(***************************************************************************)
EXTENDS Integers, Sequences

CONSTANT MaxLines    \* bound: lines of a shell command's output

ASSUME ConversationsAssumption == MaxLines \in Nat

(***************************************************************************)
(* The commands.                                                           *)
(*   on      on a connection to the server or to a device                  *)
(*   reads   what follows OKAY                                             *)
(*   accept  the texts that resolve the promise, {} if any text does       *)
(*   refuse  the texts that reject it                                      *)
(*   gives   it resolves with a value or hands the connection over         *)
(*   eof     what a PrematureEOFError after OKAY becomes                   *)
(*   drain   what .finally() runs: Parser.end, Parser.readAll or nothing   *)
(*   timer   .timeout(1000) hands the connection over                      *)
(*   lenient a reply other than OKAY and FAIL is the value                 *)
(***************************************************************************)
Server(reads) == [on |-> "server", reads |-> reads, accept |-> {}, refuse |-> {},
                  gives |-> "ok", eof |-> "error", drain |-> "none",
                  timer |-> FALSE, lenient |-> FALSE]
Device(reads) == [Server(reads) EXCEPT !.on = "device"]
Handing(c) == [c EXCEPT !.gives = "handed"]
Accepting(c, texts) == [c EXCEPT !.accept = texts]
Searching(accepted, refused, drain) ==
    [Accepting(Device("search"), accepted) EXCEPT !.refuse = refused, !.drain = drain]

Kill == Server("nothing")
Transport == Server("nothing")
Connect == Accepting(Server("value"), {"good"})
Disconnect == Accepting(Server("value"), {"good", "empty"})
Devices == Server("value")
DevicesWithPaths == Server("value")
Version == [Server("value") EXCEPT !.lenient = TRUE]
TrackDevices == Handing(Server("nothing"))
Attach == Server("nothing")
Detach == Server("nothing")
Forward == Server("reply")
WaitForDevice == Server("reply")
GetDevicePath == Server("value")
GetSerialNo == Server("value")
GetState == Server("value")
ListForwards == Server("value")

Remount == Device("nothing")
Reverse == Device("reply")
ListReverses == Device("value")
Local == Handing(Device("nothing"))
Log == Handing(Device("nothing"))
Logcat == Handing(Device("nothing"))
Shell == Handing(Device("nothing"))
SyncService == Handing(Device("nothing"))
Tcp == Handing(Device("nothing"))
TrackJdwp == Handing(Device("nothing"))
Screencap == Handing(Device("bytes"))
FrameBuffer == [Handing(Device("bytes")) EXCEPT !.refuse = {"bad"}]
IsInstalled == [Accepting(Device("bytes"), {"good"}) EXCEPT !.eof = "absent"]
Reboot == Device("all")
GetFeatures == Device("all")
GetPackages == Device("all")
GetProperties == Device("all")
Root == Accepting(Device("all"), {"good"})
TcpIp == Accepting(Device("all"), {"good"})
Usb == Accepting(Device("all"), {"good"})
Clear == Searching({"good"}, {"bad"}, "end")
StartActivity == [Searching({}, {"bad"}, "end") EXCEPT !.eof = "ok"]
StartService == StartActivity
WaitBootComplete == Searching({"good"}, {}, "end")
Install == Searching({"good"}, {"bad", "exception"}, "all")
Uninstall == Searching({"good", "gone"}, {"bad"}, "all")
Monkey == [Handing(Searching({"good"}, {}, "none")) EXCEPT !.timer = TRUE]

Commands == {Kill, Transport, Connect, Disconnect, Devices, DevicesWithPaths, Version,
             TrackDevices, Attach, Detach, Forward, WaitForDevice, GetDevicePath,
             GetSerialNo, GetState, ListForwards, Remount, Reverse, ListReverses, Local,
             Log, Logcat, Shell, SyncService, Tcp, TrackJdwp, Screencap, FrameBuffer,
             IsInstalled, Reboot, GetFeatures, GetPackages, GetProperties, Root, TcpIp,
             Usb, Clear, StartActivity, StartService, WaitBootComplete, Install,
             Uninstall, Monkey}

VARIABLES
    todo,        \* the commands of the connection, the running one first
    asked,       \* requests sent
    answered,    \* requests the server has answered
    sent,        \* tokens of the answers
    fin,         \* the server has closed its end
    arrived,     \* tokens that reached the socket's buffer
    broken,      \* the socket has failed with 'error', or a read with its 'timeout'
    destroyed,   \* the socket is destroyed
    shut,        \* the client has ended its side of the socket
    taken,       \* tokens read() has returned
    at,          \* the read that is pending or has just settled
    phase,       \* it waits for the stream, or its continuation is due
    token,       \* what it read
    ended,       \* Parser.ended
    verdict      \* how the command's promise settles, once decided

server == <<answered, sent, fin>>
socket == <<arrived, broken, destroyed, shut>>
parser == <<taken, at, phase, token, ended>>
vars == <<todo, asked, server, socket, parser, verdict>>

Texts == {"good", "gone", "bad", "exception", "empty", "noise", "payload"}
Kinds == Texts \cup {"OKAY", "FAIL", "JUNK", "LEN", "ZERO", "EOF", "ERROR"}
Token == [kind : Kinds, of : Nat]
Tok(k, n) == [kind |-> k, of |-> n]

\* What a read that gets no token has settled with.
Eof == Tok("EOF", 0)
Failed == Tok("ERROR", 0)

Replies == {"reply", "secondReply"}
FailReads == {"failLength", "failText"}
ValueReads == {"valueLength", "valueText"}
LineReads == {"line", "exceptionLine"}
Drains == {"all", "drainEnd", "drainAll"}
Reads == Replies \cup FailReads \cup ValueReads \cup LineReads \cup Drains \cup {"bytes"}

cmd == todo[1]

\* Client.connection(), DeviceClient.transport(): the first request is sent and
\* its reply awaited.
Init ==
    /\ todo \in {<<c>> : c \in {d \in Commands : d.on = "server"}}
                  \cup {<<Transport, c>> : c \in {d \in Commands : d.on = "device"}}
    /\ asked = 1 /\ answered = 0 /\ sent = <<>> /\ fin = FALSE
    /\ arrived = 0 /\ broken = FALSE /\ destroyed = FALSE /\ shut = FALSE
    /\ taken = 0 /\ at = "reply" /\ phase = "waiting" /\ token = Eof
    /\ ended = FALSE /\ verdict = "none"

(***************************************************************************)
(* The server and the network.                                             *)
(***************************************************************************)
Refusals == {<<"FAIL", "LEN", "noise">>, <<"FAIL", "ZERO">>}
Lines(c) == UNION {[1 .. n -> c.accept \cup c.refuse \cup {"noise"}] : n \in 0 .. MaxLines}
Payload(c) == IF c.gives = "handed" THEN {<<>>, <<"payload">>} ELSE {<<>>}

Bodies(c) ==
    CASE c.reads = "nothing" -> Payload(c)
      [] c.reads = "value" -> {<<"LEN", "good">>, <<"LEN", "bad">>, <<"ZERO">>}
      [] c.reads = "reply" -> {<<"OKAY">>, <<"JUNK">>} \cup Refusals
      [] c.reads = "all" -> {<<>>, <<"good">>, <<"noise">>, <<"noise", "good">>}
      [] c.reads = "bytes" -> {<<>>, <<"bad">>, <<"good">>, <<"good", "payload">>}
      [] c.reads = "search" -> Lines(c) \cup {l \o <<"good">> \o p : l \in Lines(c), p \in Payload(c)}

Answers(c) == Refusals \cup {<<"JUNK">>} \cup {<<"OKAY">> \o b : b \in Bodies(c)}

ServerAnswers ==
    /\ ~fin /\ ~destroyed /\ answered < asked
    /\ \E a \in Answers(cmd) : sent' = sent \o [i \in 1 .. Len(a) |-> Tok(a[i], asked)]
    /\ answered' = asked
    /\ UNCHANGED <<todo, asked, fin, socket, parser, verdict>>

\* At any token: what has not arrived is never sent.
ServerCloses ==
    /\ ~fin /\ fin' = TRUE
    /\ sent' = SubSeq(sent, 1, arrived)
    /\ UNCHANGED <<todo, asked, answered, socket, parser, verdict>>

Arrive ==
    /\ ~destroyed
    /\ \E n \in (arrived + 1) .. Len(sent) : arrived' = n
    /\ UNCHANGED <<todo, asked, server, broken, destroyed, shut, parser, verdict>>

(***************************************************************************)
(* Parser.                                                                 *)
(***************************************************************************)
\* readAscii, readBytes, readLine: the token that is there, PrematureEOFError
\* after 'end', or wait for the stream.
StartRead(where) ==
    /\ at' = where
    /\ \/ /\ arrived > taken
          /\ taken' = taken + 1 /\ token' = sent[taken + 1] /\ phase' = "gap"
       \/ /\ arrived = taken /\ ended
          /\ token' = Eof /\ phase' = "gap" /\ UNCHANGED taken
       \/ /\ arrived = taken /\ ~ended
          /\ phase' = "waiting" /\ UNCHANGED <<taken, token>>

\* The while loops of readAll and end.
ReadOut == taken' = arrived

StartReadAll(where) ==
    /\ at' = where /\ ReadOut
    /\ IF ended THEN phase' = "gap" /\ token' = Eof
                ELSE phase' = "waiting" /\ UNCHANGED token

\* Without a tryRead of its own, end() starts with what 'readable' brings.
HalfClose == shut' = TRUE

StartEnd ==
    /\ at' = "drainEnd" /\ UNCHANGED taken
    /\ IF ended THEN phase' = "gap" /\ token' = Eof /\ UNCHANGED shut
                ELSE phase' = "waiting" /\ HalfClose /\ UNCHANGED token

\* readAll and end wait for 'end', whatever comes before it.
FaultyReadMore == ReadOut /\ phase' = "gap" /\ token' = Eof
ReadMore == ReadOut /\ UNCHANGED <<phase, token>>

\* 'readable': the pending read tries again.
Readable ==
    /\ at # "over" /\ phase = "waiting" /\ ~destroyed /\ arrived > taken
    /\ IF at \in Drains THEN ReadMore /\ UNCHANGED at ELSE StartRead(at)
    /\ UNCHANGED <<todo, asked, server, socket, ended, verdict>>

\* 'end', when everything before it has been read.
StreamEnds ==
    /\ at # "over" /\ ~destroyed /\ fin /\ arrived = taken /\ ~ended
    /\ ended' = TRUE
    /\ IF phase = "waiting" THEN phase' = "gap" /\ token' = Eof
                            ELSE UNCHANGED <<phase, token>>
    /\ UNCHANGED <<todo, asked, server, socket, taken, at, verdict>>

\* 'timeout' (the option of Net.connect) half-closes the socket and rejects the
\* pending read; whatever is said later stays unread.  Timers run before the network
\* in the event loop and setImmediate after it, so a read that the network has
\* settled continues before the next 'timeout'.
SocketTimesOut ==
    /\ at # "over" /\ ~destroyed /\ phase = "waiting"
    /\ broken' = TRUE /\ shut' = TRUE
    /\ phase' = "gap" /\ token' = Failed
    /\ UNCHANGED <<todo, asked, server, arrived, destroyed, taken, at, ended, verdict>>

\* 'error' rejects the pending read and is lost on one that has settled.
StreamBreaks ==
    /\ at # "over" /\ ~destroyed
    /\ broken' = TRUE /\ destroyed' = TRUE
    /\ IF phase = "waiting" THEN phase' = "gap" /\ token' = Failed
                            ELSE UNCHANGED <<phase, token>>
    /\ UNCHANGED <<todo, asked, server, arrived, shut, taken, at, ended, verdict>>

(***************************************************************************)
(* The continuations of the commands.                                      *)
(***************************************************************************)
Lost == {"EOF", "ERROR"}
Got(where, kinds) == phase = "gap" /\ at \in where /\ token.kind \in kinds

Settle(v) ==
    /\ at' = "over" /\ verdict' = v
    /\ UNCHANGED <<taken, phase, token, ended>>

\* Some text that was read is one the command accepts.
Good(c, texts) == c.accept = {} \/ texts \cap c.accept # {}

\* readBytes(0) resolves with no bytes.
ValueOf(kind) == IF kind = "ZERO" THEN "empty" ELSE kind

\* Everything the running command has read.
Heard == {sent[i].kind : i \in {j \in 1 .. taken : sent[j].of = asked}}

\* .finally() of a search.
Finish(v) ==
    \/ cmd.drain = "none" /\ Settle(v) /\ UNCHANGED shut
    \/ cmd.drain = "end" /\ verdict' = v /\ StartEnd /\ UNCHANGED ended
    \/ cmd.drain = "all" /\ verdict' = v /\ StartReadAll("drainAll")
         /\ UNCHANGED <<shut, ended>>

\* Parser.readError's .finally(), Parser.unexpected.
FaultyGiveUp == destroyed' = destroyed
GiveUp == destroyed' = TRUE

ReadOn(where) == StartRead(where) /\ UNCHANGED <<todo, asked, socket, ended, verdict>>

Accepted ==
    /\ Got({"reply"}, {"OKAY"})
    /\ \/ cmd.reads = "nothing" /\ Len(todo) = 1
            /\ Settle(cmd.gives) /\ UNCHANGED <<todo, asked, socket>>
       \/ cmd.reads = "value" /\ ReadOn("valueLength")
       \/ cmd.reads = "reply" /\ ReadOn("secondReply")
       \/ cmd.reads = "bytes" /\ ReadOn("bytes")
       \/ cmd.reads = "search" /\ ReadOn("line")
       \/ cmd.reads = "all" /\ StartReadAll("all")
            /\ UNCHANGED <<todo, asked, socket, ended, verdict>>
    /\ UNCHANGED server

\* DeviceClient: the transport is chosen and the device command is sent.
FaultyTransported ==
    /\ at = "reply" /\ Len(todo) = 2
    /\ todo' = Tail(todo) /\ asked' = asked + 1
    /\ UNCHANGED <<server, socket, parser, verdict>>
Transported ==
    /\ Got({"reply"}, {"OKAY"}) /\ Len(todo) = 2
    /\ todo' = Tail(todo) /\ asked' = asked + 1
    /\ StartRead("reply")
    /\ UNCHANGED <<server, socket, ended, verdict>>

AcceptedAgain ==
    /\ Got({"secondReply"}, {"OKAY"})
    /\ Settle("ok")
    /\ UNCHANGED <<todo, asked, server, socket>>

Refused ==
    /\ Got(Replies, {"FAIL"})
    /\ ReadOn("failLength") /\ UNCHANGED server

ReadsFailure ==
    /\ Got({"failLength"}, {"LEN"})
    /\ ReadOn("failText") /\ UNCHANGED server

\* With its text, an empty text (readBytes(0) takes nothing) or none.
Fails ==
    /\ Got({"failText"}, Texts) \/ Got(FailReads, Lost \cup {"ZERO"})
    /\ GiveUp /\ Settle("error")
    /\ UNCHANGED <<todo, asked, server, arrived, broken, shut>>

\* Parser.unexpected, or the version itself.
Unexpected ==
    /\ Got(Replies, {"JUNK"})
    /\ IF cmd.lenient THEN Settle("ok") /\ UNCHANGED destroyed
                      ELSE Settle("error") /\ GiveUp
    /\ UNCHANGED <<todo, asked, server, arrived, broken, shut>>

ReadsValue ==
    /\ Got({"valueLength"}, {"LEN"})
    /\ ReadOn("valueText") /\ UNCHANGED server

HasValue ==
    /\ Got({"valueText"}, Texts) \/ Got({"valueLength"}, {"ZERO"})
    /\ Settle(IF Good(cmd, {ValueOf(token.kind)}) THEN "ok" ELSE "error")
    /\ UNCHANGED <<todo, asked, server, socket>>

HasAll ==
    /\ Got({"all"}, {"EOF"})
    /\ Settle(IF Good(cmd, Heard) THEN "ok" ELSE "error")
    /\ UNCHANGED <<todo, asked, server, socket>>

\* _parseHeader may throw; isinstalled calls unexpected.
HasBytes ==
    /\ Got({"bytes"}, Texts)
    /\ \/ token.kind \in cmd.refuse /\ Settle("error") /\ UNCHANGED destroyed
       \/ token.kind \notin cmd.refuse /\ ~Good(cmd, {token.kind})
            /\ Settle("error") /\ GiveUp
       \/ token.kind \notin cmd.refuse /\ Good(cmd, {token.kind})
            /\ Settle(cmd.gives) /\ UNCHANGED destroyed
    /\ UNCHANGED <<todo, asked, server, arrived, broken, shut>>

\* searchLine: the expression does not match, and the next line is read.
SkipsLine ==
    /\ Got({"line"}, Texts \ (cmd.accept \cup cmd.refuse))
    /\ ReadOn("line") /\ UNCHANGED server

Matches ==
    /\ Got({"line"}, cmd.accept \cup (cmd.refuse \ {"exception"}))
    /\ Finish(IF token.kind \in cmd.accept THEN cmd.gives ELSE "error")
    /\ UNCHANGED <<todo, asked, server, arrived, broken, destroyed>>

\* install reads the line after the one that matched.
MatchesException ==
    /\ Got({"line"}, cmd.refuse \cap {"exception"})
    /\ ReadOn("exceptionLine") /\ UNCHANGED server

HasException ==
    /\ Got({"exceptionLine"}, Texts)
    /\ Finish("error")
    /\ UNCHANGED <<todo, asked, server, arrived, broken, destroyed>>

\* The read that follows OKAY breaks off.
BreaksOff ==
    /\ Got(LineReads \cup {"bytes"}, Lost)
    /\ Finish(IF token.kind = "EOF" THEN cmd.eof ELSE "error")
    /\ UNCHANGED <<todo, asked, server, arrived, broken, destroyed>>

Rejects ==
    /\ Got(Replies \cup ValueReads, Lost) \/ Got(Drains, {"ERROR"})
    /\ Settle("error")
    /\ UNCHANGED <<todo, asked, server, socket>>

Drained ==
    /\ Got({"drainEnd", "drainAll"}, {"EOF"})
    /\ Settle(verdict)
    /\ UNCHANGED <<todo, asked, server, socket>>

Continue ==
    \/ Accepted \/ Transported \/ AcceptedAgain \/ Refused \/ ReadsFailure \/ Fails
    \/ Unexpected \/ ReadsValue \/ HasValue \/ HasAll \/ HasBytes \/ SkipsLine
    \/ Matches \/ MatchesException \/ HasException \/ BreaksOff \/ Rejects \/ Drained

\* monkey: .timeout(1000) cancels the search and hands the connection over.
TimesOut ==
    /\ cmd.timer /\ at = "line"
    /\ Settle("handed")
    /\ UNCHANGED <<todo, asked, server, socket>>

Next ==
    \/ ServerAnswers \/ ServerCloses \/ Arrive
    \/ Readable \/ StreamEnds \/ StreamBreaks \/ SocketTimesOut
    \/ Continue \/ TimesOut

Spec == Init /\ [][Next]_vars

(***************************************************************************)
(* Properties.                                                             *)
(***************************************************************************)
Verdicts == {"ok", "absent", "handed", "error"}

TypeOK ==
    /\ todo \in {<<c>> : c \in Commands} \cup {<<Transport, c>> : c \in Commands}
    /\ asked \in 1 .. 2 /\ answered \in 0 .. asked
    /\ sent \in Seq(Token) /\ fin \in BOOLEAN
    /\ arrived \in 0 .. Len(sent) /\ taken \in 0 .. arrived
    /\ broken \in BOOLEAN /\ destroyed \in BOOLEAN /\ shut \in BOOLEAN
    /\ at \in Reads \cup {"over"} /\ phase \in {"waiting", "gap"}
    /\ token \in Token /\ ended \in BOOLEAN
    /\ verdict \in Verdicts \cup {"none"}

\* Whatever a continuation acts on was said to the running command, also when
\* the answer of the transport request came late, in parts or broke off
\* (DeviceClient.transport, Parser).
OwnAnswer == phase = "gap" /\ token.kind \notin Lost => token.of = asked

\* Where the answer to request n begins: the answers lie one behind the other.
BeginOf(tokens, n) ==
    CHOOSE b \in 1 .. Len(tokens) + 1 :
        \A i \in 1 .. Len(tokens) : tokens[i].of = n <=> i >= b

\* What the server has said to the running command.
Begin == BeginOf(sent, asked)
Said == [i \in 1 .. Len(sent) + 1 - Begin |-> sent[Begin + i - 1].kind]

\* What the body of an answer means to a command.
Meaning(c, body) ==
    LET hits == {i \in 1 .. Len(body) : body[i] \in c.accept \cup c.refuse}
        IsFirst(i) == \A j \in hits : i <= j
    IN  CASE c.reads = "nothing" -> c.gives
          [] c.reads = "value" -> IF \/ Len(body) = 2 /\ Good(c, {body[2]})
                                     \/ body = <<"ZERO">> /\ Good(c, {"empty"})
                                  THEN "ok" ELSE "error"
          [] c.reads = "reply" -> IF body # <<>> /\ body[1] = "OKAY" THEN "ok" ELSE "error"
          [] c.reads = "all" -> IF Good(c, {body[i] : i \in 1 .. Len(body)}) THEN "ok" ELSE "error"
          [] c.reads = "bytes" -> IF body = <<>> THEN c.eof
                                  ELSE IF body[1] \in c.refuse \/ ~Good(c, {body[1]})
                                  THEN "error" ELSE c.gives
          [] c.reads = "search" -> IF hits = {} THEN c.eof
                                   ELSE IF \E i \in hits : IsFirst(i) /\ body[i] \in c.accept
                                   THEN c.gives ELSE "error"

Outcome(c, answer) ==
    IF answer = <<>> THEN "error"
    ELSE CASE answer[1] = "OKAY" -> Meaning(c, Tail(answer))
           [] answer[1] = "JUNK" /\ c.lenient -> "ok"
           [] OTHER -> "error"

Over == at = "over"

\* How a command settles follows from what the server said to this command and
\* from nothing else: not from how the network splits it, from when the server
\* closes, or from what the transport request was answered (Parser, the execute
\* methods).  A socket that fails or times out may turn it into an error, the timer
\* of monkey into a stream.
OutcomeFollowsAnswer ==
    Over => \/ verdict = Outcome(cmd, Said)
            \/ broken /\ verdict = "error"
            \/ cmd.timer /\ verdict = "handed"

\* isinstalled takes the first bytes of a longer line, and framebuffer refuses
\* a version after its header: both keep the connection with bytes unread.
LeavesUnread(c) == c \in {IsInstalled, FrameBuffer}

\* When a command settles, its connection is accounted for.  Handed over, it
\* stands at the first byte of the stream.  Otherwise it is destroyed or all of
\* the answer is read, so that the server's close can release it, unless a 'timeout'
\* has half-closed it and given up what is still to be read.  And after a refusal or
\* an unexpected reply it is destroyed (readError, unexpected).
ConnectionAccounted ==
    Over =>
      /\ (verdict = "handed" /\ ~cmd.timer) =>
            \A i \in 1 .. Len(sent) : (i > taken) <=> (sent[i].kind = "payload")
      /\ verdict = "handed" => \A i \in 1 .. taken : sent[i].kind # "payload"
      /\ verdict # "handed" => \/ destroyed \/ taken = Len(sent) \/ LeavesUnread(cmd)
                               \/ (broken /\ shut)
      /\ (\E i \in 1 .. taken : sent[i].kind = "FAIL" \/ (sent[i].kind = "JUNK" /\ ~cmd.lenient))
            => destroyed

\* A command settles when the server closes the connection, wherever it does;
\* and one that has its answer settles although the server stalls, because
\* end() closes the connection first (clear), unless it reads to the end
\* (install, uninstall).
Settled == at \notin Reads
CommandSettles ==
    /\ fin ~> (Settled \/ destroyed)
    /\ (verdict # "none" /\ cmd.drain # "all") ~> (Settled \/ destroyed)
=============================================================================
