------------------------------ MODULE SyncOps ------------------------------
(***************************************************************************)
(* Sync (sync.ts) except for pull: stat, sta2, readdir and push, one after *)
(* the other on a connection that SyncCommand has handed over.  They read  *)
(* with the Parser of the conversation, so "at" goes on with the reads of  *)
(* an operation, and with                                                  *)
(*   drainEnd  _readError's .finally() waits for parser.end()              *)
(*   free      no operation is reading                                     *)
(*                                                                         *)
(* A push reads a reply and writes at once.  Its two chains meet in the    *)
(* PushTransfer.  What the source's events schedule ("writeNext", DONE)    *)
(* runs in a later tick.  Connection.write returns the connection, so      *)
(* writeNext never waits for 'drain'.  The listener for an 'error' of the  *)
(* connection is left out: while the Parser listens too, the connection    *)
(* emits none.  The bytes of the source are counted.                       *)
(***************************************************************************)
EXTENDS Conversations

Seqs == INSTANCE SequencesExt

CONSTANTS
    DataMax,     \* DATA_MAX_LENGTH
    MaxBytes,    \* bound: bytes of a source
    MaxEntries,  \* bound: entries of a directory
    FirstOps,    \* bound: the first operation on a connection is one of these,
    LaterOps,    \* and the later ones of these
    MaxOps       \* bound: operations on one connection

ASSUME SyncAssumption ==
    /\ DataMax \in Nat \ {0} /\ MaxBytes \in Nat /\ MaxEntries \in Nat /\ MaxOps \in Nat
    /\ FirstOps \cup LaterOps \subseteq {"stat", "readdir", "push"}

VARIABLES
    op,          \* the operation that runs or ran last
    ops,         \* operations started
    outcome,     \* how it settled, or "none"
    files,       \* readdir: names found
    push         \* the source, the writer and the PushTransfer of a push
synced == <<op, ops, outcome, files, push>>

NoPush == [made |-> 0,            \* bytes the source has produced
           source |-> "flows",    \* flows, eof, over (after its 'end') or failed
           listens |-> FALSE,     \* writer is pending and listens to the source
           writeDue |-> FALSE,    \* writeNext is scheduled
           doneDue |-> FALSE,     \* DONE is scheduled
           given |-> 0,           \* bytes read from the source
           put |-> 0,             \* bytes of them the device gets to see
           done |-> FALSE,        \* the device gets to see DONE
           stack |-> <<>>,        \* PushTransfer._stack
           moved |-> 0,           \* stats.bytesTransferred
           errors |-> 0,          \* 'error' events
           ended |-> FALSE,       \* 'end' was emitted
           dropped |-> FALSE]     \* reply and DONE were given up

\* The ADB server has accepted "sync:", and nothing was read since.
SyncInit ==
    /\ todo = <<SyncService>> /\ asked = 0 /\ answered = 0 /\ sent = <<>> /\ fin = FALSE
    /\ arrived = 0 /\ broken = FALSE /\ destroyed = FALSE /\ shut = FALSE
    /\ taken = 0 /\ at = "free" /\ phase = "gap" /\ token = Eof
    /\ ended = FALSE /\ verdict = "handed"
    /\ op = "none" /\ ops = 0 /\ outcome = "none" /\ files = <<>> /\ push = NoPush

SyncReads == {"syncReply", "stat", "dent", "name", "last", "syncLength", "syncText"}
Running == op # "none" /\ at \in SyncReads \cup {"drainEnd"}

(***************************************************************************)
(* The user and the device.                                                *)
(***************************************************************************)
\* The request, and the read of its reply.  On a connection that parser.end() has
\* ended the write destroys the socket, but then Parser.ended is set already.
\* Nothing follows a push that was dropped (README: "create a new sync connection"),
\* nor an operation that has failed with its connection or by its 'timeout', the
\* rest of whose answer may still come.
StartOp ==
    /\ at = "free" /\ ops < MaxOps
    /\ ~push.dropped /\ ~(outcome = "error" /\ (destroyed \/ broken))
    /\ ~push.writeDue /\ ~push.doneDue /\ push.stack = <<>>
    /\ op' \in (IF ops = 0 THEN FirstOps ELSE LaterOps) /\ ops' = ops + 1
    /\ outcome' = "none" /\ files' = <<>>
    /\ push' = [NoPush EXCEPT !.listens = (op' = "push")]
    /\ asked' = asked + 1 /\ destroyed' = (destroyed \/ shut)
    /\ StartRead("syncReply")
    /\ UNCHANGED <<todo, server, arrived, broken, shut, ended, verdict>>

\* Sync.end(), when no operation runs.
SyncEnds ==
    /\ at = "free" /\ ~shut /\ shut' = TRUE
    /\ ops' = MaxOps
    /\ UNCHANGED <<todo, asked, server, arrived, broken, destroyed, parser, verdict>>
    /\ UNCHANGED <<op, outcome, files, push>>

\* The names of a directory: "." and "..", and two others.
Names == {"dot", "good", "bad"}
Entries == UNION {[1 .. n -> Names] : n \in 0 .. MaxEntries}
Listing(names) ==
    [i \in 1 .. 3 * Len(names) |->
        CASE i % 3 = 1 -> "DENT" [] i % 3 = 2 -> "LEN" [] OTHER -> names[i \div 3]]
Broken == Refusals \cup {<<"JUNK">>}
SyncAnswers ==
    Broken \cup
    CASE op = "stat" -> {<<"STAT", "good">>, <<"STAT", "gone">>}
      [] op = "readdir" -> {Listing(e) \o l : e \in Entries, l \in Broken \cup {<<"DONE", "LEN">>}}
      [] op = "push" -> IF push.done THEN {<<"OKAY", "LEN">>} ELSE {}

\* A push may be refused at any time, and is accepted after DONE.  What the device
\* says to a push that was dropped is read by nobody.
DeviceAnswers ==
    /\ op # "none" /\ ~push.dropped /\ ~fin /\ ~destroyed /\ answered < asked
    /\ \E a \in SyncAnswers : sent' = sent \o [i \in 1 .. Len(a) |-> Tok(a[i], asked)]
    /\ answered' = asked
    /\ UNCHANGED <<todo, asked, fin, socket, parser, verdict, synced>>

(***************************************************************************)
(* The reader.                                                             *)
(***************************************************************************)
\* The promise of the operation settles; reader's .catch() emits 'error' and
\* cancels the writer, its .finally() emits 'end'.
FaultyTransferred(result) ==
    IF op # "push" THEN push
    ELSE [push EXCEPT !.errors = IF result = "error" THEN @ + 1 ELSE @, !.ended = TRUE]
Transferred(result) ==
    IF op # "push" THEN push
    ELSE [push EXCEPT !.errors = IF result = "error" THEN @ + 1 ELSE @,
                      !.listens = @ /\ result # "error", !.ended = TRUE]
OpSettles(result) ==
    /\ at' = "free" /\ outcome' = result /\ push' = Transferred(result)
    /\ UNCHANGED <<todo, asked, server, arrived, broken, shut>>
    /\ UNCHANGED <<taken, phase, token, ended, verdict, op, ops, files>>

Awaits(k) ==
    CASE op = "stat" /\ k = "STAT" -> "stat"
      [] op = "readdir" /\ k = "DENT" -> "dent"
      [] op = "readdir" /\ k = "DONE" -> "last"
      [] op = "push" /\ k = "OKAY" -> "last"
      [] k = "FAIL" -> "syncLength"
      [] OTHER -> "nothing"

ReadsReply ==
    /\ Got({"syncReply"}, {"STAT", "DENT", "DONE", "OKAY", "FAIL"})
    /\ Awaits(token.kind) # "nothing" /\ ReadOn(Awaits(token.kind))
    /\ UNCHANGED <<server, synced>>

ReadsUnexpected ==
    /\ Got({"syncReply"}, Texts \cup {"STAT", "DENT", "DONE", "OKAY", "JUNK"})
    /\ Awaits(token.kind) = "nothing"
    /\ GiveUp /\ OpSettles("error")

\* A mode of 0 becomes ENOENT.
HasStat ==
    /\ Got({"stat"}, Texts)
    /\ OpSettles(IF token.kind = "gone" THEN "enoent" ELSE "ok") /\ UNCHANGED destroyed

HasLast ==
    /\ Got({"last"}, {"LEN"})
    /\ OpSettles("ok") /\ UNCHANGED destroyed

HasEntry ==
    /\ Got({"dent"}, {"LEN"}) /\ ReadOn("name")
    /\ UNCHANGED <<server, synced>>

FaultyFiles == files
Files == IF token.kind = "dot" THEN files ELSE Append(files, token.kind)
HasName ==
    /\ Got({"name"}, Names) /\ ReadOn("syncReply")
    /\ files' = Files
    /\ UNCHANGED <<server, op, ops, outcome, push>>

\* _readError: the text is read, or not; then .finally().
HasErrorLength ==
    /\ Got({"syncLength"}, {"LEN"}) /\ ReadOn("syncText")
    /\ UNCHANGED <<server, synced>>

HasError ==
    /\ Got({"syncText"}, Texts) \/ Got({"syncLength", "syncText"}, Lost \cup {"ZERO"})
    /\ StartEnd
    /\ UNCHANGED <<todo, asked, server, arrived, broken, destroyed, ended, verdict, synced>>

FaultyOpFails ==
    /\ op # "none"
    /\ Got({"syncReply", "stat", "dent", "name", "last"}, Lost)
    /\ OpSettles("error") /\ UNCHANGED destroyed
OpFails ==
    /\ op # "none"
    /\ Got({"syncReply", "stat", "dent", "name", "last", "drainEnd"}, Lost)
    /\ OpSettles("error") /\ UNCHANGED destroyed

SyncContinues ==
    \/ ReadsReply \/ ReadsUnexpected \/ HasStat \/ HasLast \/ HasEntry \/ HasName
    \/ HasErrorLength \/ HasError \/ OpFails

(***************************************************************************)
(* The writer.                                                             *)
(***************************************************************************)
SourceGives ==
    /\ push.listens /\ push.source = "flows"
    /\ \/ \E n \in (push.made + 1) .. MaxBytes : push' = [push EXCEPT !.made = n]
       \/ push' = [push EXCEPT !.source = "eof"]
    /\ UNCHANGED <<vars, op, ops, outcome, files>>

\* 'readable'.
SourceReadable ==
    /\ push.listens /\ push.made > push.given /\ ~push.writeDue
    /\ push' = [push EXCEPT !.writeDue = TRUE]
    /\ UNCHANGED <<vars, op, ops, outcome, files>>

\* 'end' comes when everything has been read.
FaultySourceEnds ==
    /\ push.listens /\ push.source = "eof"
    /\ push' = [push EXCEPT !.source = "over", !.doneDue = TRUE]
    /\ UNCHANGED <<vars, op, ops, outcome, files>>
SourceEnds ==
    /\ push.listens /\ push.source = "eof" /\ push.made = push.given
    /\ push' = [push EXCEPT !.source = "over", !.doneDue = TRUE]
    /\ UNCHANGED <<vars, op, ops, outcome, files>>

\* 'error' of the source, or cancel(): the reader is cancelled, wherever it is,
\* and emits 'end'.  The source and the connection are left as they are.
GiveUpPush(gaveUp, result) ==
    /\ at' = "free" /\ outcome' = result
    /\ push' = [gaveUp EXCEPT !.listens = FALSE, !.ended = TRUE, !.dropped = TRUE]
    /\ UNCHANGED <<todo, asked, server, socket, taken, phase, token, ended, verdict>>
    /\ UNCHANGED <<op, ops, files>>

SourceFails ==
    /\ push.listens /\ push.source \in {"flows", "eof"}
    /\ GiveUpPush([push EXCEPT !.source = "failed", !.errors = @ + 1], "error")

UserCancels ==
    /\ op = "push" /\ Running
    /\ GiveUpPush(push, "cancelled")

\* What is written to a socket that was ended destroys it; the 'error' rejects
\* the read that waits.
OnWire == ~shut /\ ~destroyed
Writing ==
    /\ destroyed' = (destroyed \/ shut)
    /\ broken' = (broken \/ (shut /\ ~destroyed))
    /\ IF shut /\ ~destroyed /\ phase = "waiting" /\ at # "free"
       THEN phase' = "gap" /\ token' = Failed
       ELSE UNCHANGED <<phase, token>>
    /\ UNCHANGED <<todo, asked, server, arrived, shut, taken, at, ended, verdict>>
    /\ UNCHANGED <<op, ops, outcome, files>>

\* read(DATA_MAX_LENGTH) || read(), until there is nothing.
Pieces(n) ==
    [i \in 1 .. (n + DataMax - 1) \div DataMax |->
        IF i * DataMax <= n THEN DataMax ELSE n % DataMax]

Unread == IF push.source = "failed" THEN 0 ELSE push.made - push.given
WriteNext ==
    /\ push.writeDue
    /\ push' = [push EXCEPT !.writeDue = FALSE, !.given = @ + Unread,
                            !.put = IF OnWire THEN @ + Unread ELSE @,
                            !.stack = @ \o Pieces(Unread)]
    /\ IF Unread > 0 THEN Writing ELSE UNCHANGED <<vars, op, ops, outcome, files>>

WriteDone ==
    /\ push.doneDue /\ ~push.writeDue
    /\ push' = [push EXCEPT !.doneDue = FALSE, !.done = OnWire, !.listens = FALSE]
    /\ Writing

\* A write is flushed, or has failed: its callback pops the stack.
FaultyPopped == Head(push.stack)
Popped == Seqs!Last(push.stack)
Flushed ==
    /\ push.stack # <<>>
    /\ push' = [push EXCEPT !.stack = Seqs!Front(@), !.moved = @ + Popped]
    /\ UNCHANGED <<vars, op, ops, outcome, files>>

WriterSteps == SourceReadable \/ SourceEnds \/ WriteNext \/ WriteDone \/ Flushed
InConversation(A) == A /\ UNCHANGED synced
SyncNext ==
    \/ StartOp \/ SyncEnds \/ DeviceAnswers \/ SyncContinues
    \/ SourceGives \/ SourceFails \/ UserCancels \/ WriterSteps
    \/ InConversation(ServerCloses \/ Arrive)
    \/ InConversation(Running /\ (Readable \/ StreamEnds \/ StreamBreaks \/ SocketTimesOut))

\* The event loop runs what is due, writes are flushed, the network delivers, and
\* a device closes a connection its client has ended.
SyncSpec ==
    /\ SyncInit /\ [][SyncNext]_<<vars, synced>>
    /\ WF_<<vars, synced>>(SyncContinues) /\ WF_<<vars, synced>>(WriterSteps)
    /\ WF_<<vars, synced>>(InConversation(Running /\ Readable))
    /\ WF_<<vars, synced>>(InConversation(Running /\ StreamEnds))
    /\ WF_<<vars, synced>>(InConversation(Arrive))
    /\ WF_<<vars, synced>>(InConversation(shut /\ ServerCloses))

(***************************************************************************)
(* Properties.                                                             *)
(***************************************************************************)
\* What an answer means to an operation.
OpOutcome ==
    CASE op = "stat" /\ Said = <<"STAT", "good">> -> "ok"
      [] op = "stat" /\ Said = <<"STAT", "gone">> -> "enoent"
      [] op = "readdir" /\ \E e \in Entries : Said = Listing(e) \o <<"DONE", "LEN">> -> "ok"
      [] op = "push" /\ Said = <<"OKAY", "LEN">> -> "ok"
      [] OTHER -> "error"

\* The files are the names but "." and "..", in their order.
Found ==
    \E pos \in [1 .. Len(files) -> 1 .. Len(Said)] :
        /\ \A i, j \in 1 .. Len(files) : i < j => pos[i] < pos[j]
        /\ \A k \in 1 .. Len(Said) :
              Said[k] \in Names \ {"dot"} <=> \E i \in 1 .. Len(files) : pos[i] = k
        /\ \A i \in 1 .. Len(files) : files[i] = Said[pos[i]]

\* What a read may wait for: an answer or more of it, the 'end' of the stream, or the
\* device closing a connection that its client has ended.
ToCome ==
    answered < asked \/ taken < Len(sent) \/ (fin /\ ~ended) \/ (at = "drainEnd" /\ shut)

\* How an operation of a sync connection settles follows from what the device
\* answered to it, whatever came before it on the connection; readdir gives all
\* entries but "." and ".." in their order.  And none that has not settled reads
\* more than the device has to say (Sync.stat, readdir, _writeData, _readError).
OpFollowsAnswer ==
    /\ op # "none" /\ outcome # "none" /\ ~push.dropped =>
           /\ outcome = OpOutcome \/ (broken /\ outcome = "error")
           /\ op = "readdir" /\ outcome = "ok" => Found
    /\ Running /\ phase = "waiting" /\ ~destroyed => ToCome

\* A push that ends without an error and was not cancelled has put the whole
\* source on the device, and DONE behind it (Sync._writeData).
EndMeansStored ==
    (push.ended /\ push.errors = 0 /\ ~push.dropped) \/ push.done =>
        push.done /\ push.source = "over" /\ push.put = push.made

\* The transfer of a push is a PushTransfer, although its reader, its writer and its
\* source can each fail on their own: it is over once, with one 'error' at most and
\* alone with 'end' only when the file is stored, never tells more progress than
\* bytes, and no further operation starts in the middle of a file (Sync._writeData,
\* PushTransfer).
Promise == INSTANCE PushTransfer WITH
    made <- push.made, stored <- push.put, complete <- push.done, told <- push.moved,
    errors <- push.errors, ended <- push.ended, dropped <- push.dropped
ImplementsPushTransfer == Promise!Spec

\* When all writes have been flushed, the progress adds up to what was read from
\* the source (PushTransfer.push, PushTransfer.pop).
ProgressAddsUp == push.stack = <<>> => push.moved = push.given

\* An operation settles when the device has answered it or hangs up, unless the
\* connection failed.
OpsSettle == (Running /\ (fin \/ answered = asked)) ~> (~Running \/ destroyed)
=============================================================================
