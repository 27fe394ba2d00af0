------------------------------- MODULE Client -------------------------------
(***************************************************************************)
(* A method of Client or DeviceClient from its call to its end: Connection *)
(* (connection.ts) connects, starting the ADB server once if nothing       *)
(* listens; then the command's conversation runs on it, and the tracker    *)
(* that may follow.  startActivity and startService, which are one command *)
(* here, start over on a new connection when the device complains of the   *)
(* option --user (DeviceClient.ts).                                        *)
(*                                                                         *)
(* connect() calls itself inside the chain of the first call, and each     *)
(* level adds an 'error' listener to the socket that is there in the end:  *)
(* one, or two after a retry.                                              *)
(***************************************************************************)
EXTENDS Trackers

VARIABLES
    conn,        \* connecting, starting (the ADB server), up or failed
    tried,       \* Connection.triedStarting
    errors,      \* an 'error' nobody else listened to: none, reported or lost
    service,     \* it is startService
    user,        \* the request carries the option --user
    runs         \* how often the command was started, up to 3

connection == <<conn, tried, errors>>
request == <<service, user, runs>>
conversation == <<vars, tracked>>
clientVars == <<conversation, connection, request>>

StartsIntent(c) == c = StartActivity

\* startService asks for user 0 unless the option is null; startActivity sends
\* what it is given.
ClientInit ==
    /\ Init /\ TrackersInit
    /\ conn = "connecting" /\ tried = FALSE /\ errors = "none" /\ runs = 1
    /\ service \in (IF StartsIntent(todo[Len(todo)]) THEN BOOLEAN ELSE {FALSE})
    /\ user \in (IF StartsIntent(todo[Len(todo)]) THEN BOOLEAN ELSE {FALSE})

\* A Parser that reads nothing listens to nothing.
Silent == {"gone", "idle"}

(***************************************************************************)
(* Connection.connect.                                                     *)
(***************************************************************************)
Connects ==
    /\ conn = "connecting" /\ conn' = "up"
    /\ UNCHANGED <<tried, errors, request, conversation>>

\* ECONNREFUSED.
FaultyConnectRefused ==
    /\ conn = "connecting"
    /\ tried' = TRUE /\ conn' = "starting"
    /\ UNCHANGED <<errors, request, conversation>>
ConnectRefused ==
    /\ conn = "connecting"
    /\ tried' = TRUE /\ conn' = IF tried THEN "failed" ELSE "starting"
    /\ UNCHANGED <<errors, request, conversation>>

ConnectFails ==
    /\ conn = "connecting" /\ conn' = "failed"
    /\ UNCHANGED <<tried, errors, request, conversation>>

\* startServer: execFile succeeds or not.
ServerStarts ==
    /\ conn = "starting" /\ conn' \in {"connecting", "failed"}
    /\ UNCHANGED <<tried, errors, request, conversation>>

Connecting == Connects \/ ConnectRefused \/ ConnectFails \/ ServerStarts

\* 'error' on a socket the Parser does not listen to is emitted again when it has
\* exactly one listener, and then the Client emits it.
Listeners == IF tried THEN 2 ELSE 1
UnheardError ==
    /\ conn = "up" /\ at \in {"over"} \cup Silent /\ ~destroyed
    /\ destroyed' = TRUE /\ errors' = IF Listeners = 1 THEN "reported" ELSE "lost"
    /\ UNCHANGED <<todo, asked, server, arrived, broken, shut, parser, verdict, tracked>>
    /\ UNCHANGED <<conn, tried, request>>

(***************************************************************************)
(* The retry without a user.                                               *)
(***************************************************************************)
\* The command rejected with the device's line, and neither a read nor parser.end()
\* did: NoUserOptionError, if the line is about --user.
MayComplain == Over /\ verdict = "error" /\ token.kind = "EOF" /\ ~broken /\ "bad" \in Heard

\* startService sets user to 0 again; options.user = undefined is not null.
UserAfter == service

Retries ==
    /\ conn = "up" /\ StartsIntent(cmd) /\ user /\ MayComplain
    /\ user' = UserAfter /\ runs' = IF runs = 3 THEN 3 ELSE runs + 1
    /\ todo' = <<Transport, cmd>> /\ conn' = "connecting" /\ tried' = FALSE /\ errors' = "none"
    /\ asked' = 1 /\ answered' = 0 /\ sent' = <<>> /\ fin' = FALSE
    /\ arrived' = 0 /\ broken' = FALSE /\ destroyed' = FALSE /\ shut' = FALSE
    /\ taken' = 0 /\ at' = "reply" /\ phase' = "waiting" /\ token' = Eof
    /\ ended' = FALSE /\ verdict' = "none"
    /\ UNCHANGED <<service, tracked>>

(***************************************************************************)
(* The whole.                                                              *)
(***************************************************************************)
\* TrackDevices goes on with a Tracker; TrackJdwp may, having the same record as
\* the commands that hand over a plain stream.
RunsCommand == verdict # "handed" /\ ~(TracksDevices /\ Got({"reply"}, {"OKAY"})) /\ Continue
Listening == at \notin Silent

InCommand(A) == A /\ UNCHANGED <<tracked, connection, request>>
InTracker(A) == A /\ UNCHANGED <<connection, request>>

Conversing ==
    \/ InCommand(RunsCommand \/ ServerAnswers \/ ServerCloses \/ Arrive \/ TimesOut)
    \/ InCommand(Listening /\ (Readable \/ StreamEnds \/ StreamBreaks \/ SocketTimesOut))
    \/ InTracker(TrackerSteps)

ClientNext ==
    \/ Connecting \/ UnheardError \/ Retries
    \/ (conn = "up" /\ Conversing)

\* The event loop runs what is due, timers fire, the network delivers, a server
\* closes a connection its client has ended, and an attempt to connect has an
\* outcome, as has execFile.
Up(A) == conn = "up" /\ A
ClientSpec ==
    /\ ClientInit /\ [][ClientNext]_clientVars
    /\ WF_clientVars(Connecting)
    /\ WF_clientVars(Up(InCommand(RunsCommand) \/ InTracker(TrackerContinues)))
    /\ WF_clientVars(Up(InCommand(Listening /\ Readable)))
    /\ WF_clientVars(Up(InCommand(Listening /\ StreamEnds)))
    /\ WF_clientVars(Up(InCommand(TimesOut)))
    /\ WF_clientVars(Up(InCommand(Arrive)))
    /\ WF_clientVars(Up(InCommand(shut /\ ServerCloses)))

(***************************************************************************)
(* Properties.                                                             *)
(***************************************************************************)
\* connect() comes to an end: the ADB server is started once at most
\* (Connection.triedStarting).
ConnectSettles == conn \in {"connecting", "starting"} ~> conn \in {"up", "failed"}

\* startActivity is run again once, without the option the device does not know
\* (DeviceClient.startActivity).
RetriedOnce == ~service => runs <= 2

\* A call of the Client settles: its connection does, its command does if the
\* connection is up, and it is not run over and over.
CallSettles == ConnectSettles /\ CommandSettles /\ []RetriedOnce
=============================================================================
