------------------------------ MODULE SyncPull ------------------------------
(***************************************************************************)
(* Sync.pull (src/adb/sync.ts): the chunks of a file, read by the Parser   *)
(* from the sync connection and written to a PullTransfer.                 *)
(*                                                                         *)
(* A token is what one read of the code asks for: a reply of four bytes,   *)
(* an integer of four bytes, the text of a failure; or one byte of the     *)
(* file, known by its position in it.  sent holds the tokens of the        *)
(* device, the socket has buffered the first arrived of them, and read()   *)
(* has returned the first taken.                                           *)
(*                                                                         *)
(* A read tries the buffer once when it starts, then on every 'readable'.  *)
(* Its promise settles before its continuation runs (phase "gap"; Bluebird *)
(* defers it with setImmediate), and until then a stream event finds       *)
(* nobody.  A destroyed stream still hands out its buffer but emits        *)
(* nothing more.                                                           *)
(*                                                                         *)
(* An operator named Faulty... is a mistake the definition after it could  *)
(* have contained; no action uses it.                                      *)
(***************************************************************************)
EXTENDS Integers, Sequences

CONSTANTS
    MaxChunks,   \* bound: DATA chunks the device sends
    MaxLen       \* bound: bytes of a chunk

ASSUME PullAssumption == MaxChunks \in Nat /\ MaxLen \in Nat

VARIABLES
    sent,        \* tokens the device sent
    chunks,      \* DATA chunks among them
    size,        \* bytes of the file among them
    verdict,     \* how the device ended its answer, "none" if it has not
    fin,         \* the device has closed its end
    arrived,     \* tokens that reached the socket's buffer
    taken,       \* tokens read() has returned
    broken,      \* the socket has failed with 'error', or a read with its 'timeout'
    destroyed,   \* the socket is destroyed
    shut,        \* the client has ended its side of the socket
    at,          \* the read of _readData that is pending or just settled
    phase,       \* it waits for the stream, or its continuation is due
    token,       \* what it read
    left,        \* readByteFlow: howMany
    attached,    \* the promise `reader` still depends on the reads
    got,         \* bytes written to the transfer
    ended,       \* transfer.end() was called
    errors,      \* 'error' events of the transfer
    cancelled    \* reader.cancel() took effect

device == <<sent, chunks, size, verdict, fin>>
socket == <<arrived, broken, destroyed, shut>>
read == <<taken, at, phase, token, left>>
transfer == <<got, ended, errors>>
vars == <<device, socket, read, attached, transfer, cancelled>>

Kinds == {"DATA", "DONE", "FAIL", "JUNK", "INT", "TEXT", "BYTE"}
Token == [kind : Kinds, val : Nat]
Tok(k, v) == [kind |-> k, val |-> v]

\* The value of a reply is the position in the file where it comes; the client
\* does not read it.
Chunk(from, n) == <<Tok("DATA", from), Tok("INT", n)>>
                    \o [i \in 1 .. n |-> Tok("BYTE", from + i)]
Answer(v, from) ==
    CASE v = "DONE" -> <<Tok("DONE", from), Tok("INT", 0)>>
      [] v = "FAIL" -> <<Tok("FAIL", from), Tok("INT", 1), Tok("TEXT", 0)>>
      [] v = "JUNK" -> <<Tok("JUNK", from)>>

Reads == {"reply", "length", "flow", "mtime", "failLength", "failText", "drain"}

\* pull() has sent RECV and readNext waits for the first reply.
Init ==
    /\ sent = <<>> /\ chunks = 0 /\ size = 0 /\ verdict = "none" /\ fin = FALSE
    /\ arrived = 0 /\ broken = FALSE /\ destroyed = FALSE /\ shut = FALSE
    /\ taken = 0 /\ at = "reply" /\ phase = "waiting"
    /\ token = Tok("JUNK", 0) /\ left = 0
    /\ attached = TRUE
    /\ got = <<>> /\ ended = FALSE /\ errors = 0
    /\ cancelled = FALSE

(***************************************************************************)
(* The device and the network.                                             *)
(***************************************************************************)
DeviceSends ==
    /\ ~fin /\ verdict = "none" /\ chunks < MaxChunks
    /\ \E n \in 0 .. MaxLen : sent' = sent \o Chunk(size, n) /\ size' = size + n
    /\ chunks' = chunks + 1
    /\ UNCHANGED <<verdict, fin, socket, read, attached, transfer, cancelled>>

DeviceAnswers ==
    /\ ~fin /\ verdict = "none"
    /\ \E v \in {"DONE", "FAIL", "JUNK"} : verdict' = v /\ sent' = sent \o Answer(v, size)
    /\ UNCHANGED <<chunks, size, fin, socket, read, attached, transfer, cancelled>>

\* At any byte: what has not arrived is never sent.
DeviceCloses ==
    /\ ~fin /\ fin' = TRUE
    /\ sent' = SubSeq(sent, 1, arrived)
    /\ UNCHANGED <<chunks, size, verdict, socket, read, attached, transfer, cancelled>>

Arrive ==
    /\ ~destroyed
    /\ \E n \in (arrived + 1) .. Len(sent) : arrived' = n
    /\ UNCHANGED <<device, broken, destroyed, shut, read, attached, transfer, cancelled>>

(***************************************************************************)
(* Parser: what starting a read does, and what settles one that waits.     *)
(***************************************************************************)
\* readAscii, readBytes: the token, if it is there.
StartRead(where) ==
    /\ at' = where
    /\ IF arrived > taken
         THEN taken' = taken + 1 /\ token' = sent[taken + 1] /\ phase' = "gap"
         ELSE phase' = "waiting" /\ UNCHANGED <<taken, token>>

\* read(howMany) || read(): as many bytes as there are, at most howMany.
FlowTake(n) == IF arrived - taken < n THEN arrived - taken ELSE n

FaultyFlowEarly(n) == TRUE
FaultyFlowPositive(n) == n = 0 /\ left > 0
FlowOver(n) == n = 0

\* readByteFlow's tryRead.
Flow(n) ==
    LET k == FlowTake(n) IN
    /\ got' = got \o [i \in 1 .. k |-> sent[taken + i].val]
    /\ taken' = taken + k
    /\ left' = n - k
    /\ phase' = IF FlowOver(n - k) THEN "gap" ELSE "waiting"

\* An error at the end of the chain of reads, and whom it reaches.
FaultyReject == errors' = errors
Reject == errors' = IF attached THEN errors + 1 ELSE errors

\* Parser.end as _readError calls it; it waits for 'end' unless that was seen.
Drain == /\ at' = "drain" /\ phase' = "waiting" /\ shut' = TRUE
         /\ UNCHANGED errors

FailReads == {"failLength", "failText"}

\* 'readable': the waiting read tries again.
Readable ==
    /\ phase = "waiting" /\ ~destroyed /\ arrived > taken
    /\ \/ at = "flow" /\ Flow(left) /\ UNCHANGED <<at, token>>
       \/ at = "drain" /\ taken' = arrived /\ UNCHANGED <<at, phase, token, left, got>>
       \/ at \notin {"flow", "drain", "over"} /\ StartRead(at) /\ UNCHANGED <<left, got>>
    /\ UNCHANGED <<device, socket, attached, ended, errors, cancelled>>

\* 'end': a PrematureEOFError, or the end of the drain.
StreamEnds ==
    /\ phase = "waiting" /\ at # "over" /\ ~destroyed /\ fin /\ arrived = taken
    /\ at' = "over" /\ Reject
    /\ UNCHANGED <<device, socket, taken, phase, token, left, attached, got, ended, cancelled>>

\* 'error': it rejects the read that waits and is lost on one that has settled.
\* A failed _readError first waits for the end of a stream that is destroyed.
StreamBreaks ==
    /\ ~destroyed /\ at # "over"
    /\ broken' = TRUE /\ destroyed' = TRUE
    /\ \/ phase = "gap" /\ UNCHANGED <<shut, at, phase, errors>>
       \/ phase = "waiting" /\ at \in FailReads /\ Drain
       \/ phase = "waiting" /\ at \notin FailReads
          /\ at' = "over" /\ Reject /\ UNCHANGED <<shut, phase>>
    /\ UNCHANGED <<device, arrived, taken, token, left, attached, got, ended, cancelled>>

\* 'timeout' half-closes the socket and rejects the read that waits (see
\* Conversations); the rest of the answer stays unread.
SocketTimesOut ==
    /\ ~destroyed /\ at # "over" /\ phase = "waiting"
    /\ broken' = TRUE /\ shut' = TRUE
    /\ \/ at \in FailReads /\ Drain
       \/ at \notin FailReads /\ at' = "over" /\ Reject /\ UNCHANGED phase
    /\ UNCHANGED <<device, arrived, destroyed, taken, token, left, attached, got, ended,
                   cancelled>>

(***************************************************************************)
(* _readData: the continuation of the read that has settled.               *)
(***************************************************************************)
Continues(where) == phase = "gap" /\ at = where

ReadLength ==
    /\ Continues("reply") /\ token.kind = "DATA"
    /\ StartRead("length")
    /\ UNCHANGED <<device, socket, left, attached, transfer, cancelled>>

ReadChunk ==
    /\ Continues("length")
    /\ at' = "flow" /\ Flow(token.val)
    /\ UNCHANGED <<device, socket, token, attached, ended, errors, cancelled>>

\* The promise of this readNext() is not returned: reader settles here.
ReadNext ==
    /\ Continues("flow")
    /\ StartRead("reply")
    /\ attached' = FALSE
    /\ UNCHANGED <<device, socket, left, transfer, cancelled>>

ReadMtime ==
    /\ Continues("reply") /\ token.kind = "DONE"
    /\ StartRead("mtime")
    /\ UNCHANGED <<device, socket, left, attached, transfer, cancelled>>

ReadEnd ==
    /\ Continues("mtime")
    /\ at' = "over" /\ ended' = TRUE
    /\ UNCHANGED <<device, socket, taken, phase, token, left, attached, got, errors, cancelled>>

\* readEnd(afterEnd) ends the transfer before the message is read.
ReadError == ended' = TRUE

ReadFail ==
    /\ Continues("reply") /\ token.kind = "FAIL"
    /\ ReadError /\ StartRead("failLength")
    /\ UNCHANGED <<device, socket, left, attached, got, errors, cancelled>>

ReadFailText ==
    /\ Continues("failLength")
    /\ StartRead("failText")
    /\ UNCHANGED <<device, socket, left, attached, transfer, cancelled>>

ReadFailDrain ==
    /\ Continues("failText")
    /\ Drain
    /\ UNCHANGED <<device, arrived, broken, destroyed, taken, token, left, attached,
                   got, ended, cancelled>>

\* Parser.unexpected.
Unexpected ==
    /\ Continues("reply") /\ token.kind \notin {"DATA", "DONE", "FAIL"}
    /\ ended' = TRUE /\ destroyed' = TRUE
    /\ at' = "over" /\ Reject
    /\ UNCHANGED <<device, arrived, broken, shut, taken, phase, token, left, attached, got,
                   cancelled>>

Continue == \/ ReadLength \/ ReadChunk \/ ReadNext \/ ReadMtime \/ ReadEnd
            \/ ReadFail \/ ReadFailText \/ ReadFailDrain \/ Unexpected

\* transfer.cancel() while 'cancel' has its listener.  It drops the chain of
\* reads as long as reader belongs to it, and does nothing later on.
FaultyStop == UNCHANGED at
Stop == at' = "over"

Cancel ==
    /\ attached /\ ~ended /\ at # "over"
    /\ cancelled' = TRUE /\ Stop
    /\ UNCHANGED <<device, socket, taken, phase, token, left, attached, transfer>>

Next ==
    \/ DeviceSends \/ DeviceAnswers \/ DeviceCloses \/ Arrive
    \/ Readable \/ StreamEnds \/ StreamBreaks \/ SocketTimesOut
    \/ Continue \/ Cancel

Spec == Init /\ [][Next]_vars

\* The event loop runs what is due, the network delivers, and a device closes
\* a connection its client has ended.
FairSpec ==
    /\ Spec
    /\ WF_vars(Continue) /\ WF_vars(Readable) /\ WF_vars(StreamEnds)
    /\ WF_vars(Arrive) /\ WF_vars(shut /\ DeviceCloses)

(***************************************************************************)
(* Properties.                                                             *)
(***************************************************************************)
TypeOK ==
    /\ sent \in Seq(Token) /\ chunks \in 0 .. MaxChunks /\ size \in Nat
    /\ verdict \in {"none", "DONE", "FAIL", "JUNK"} /\ fin \in BOOLEAN
    /\ arrived \in 0 .. Len(sent) /\ taken \in 0 .. arrived
    /\ broken \in BOOLEAN /\ destroyed \in BOOLEAN /\ shut \in BOOLEAN
    /\ at \in Reads \cup {"over"} /\ phase \in {"waiting", "gap"}
    /\ token \in Token /\ left \in Nat
    /\ attached \in BOOLEAN /\ cancelled \in BOOLEAN
    /\ got \in Seq(Nat) /\ ended \in BOOLEAN /\ errors \in 0 .. 1

Whole == ended /\ verdict = "DONE"

\* However the network splits the chunks, the transfer holds a prefix of the
\* file, and one that ended after DONE holds all of it and has left the
\* connection at the first byte after the answer (_readData, readByteFlow).
BytesIntact ==
    /\ got = [i \in 1 .. Len(got) |-> i]
    /\ Whole => Len(got) = size /\ taken = Len(sent)

\* The user is told what PullTransfer promises: nothing is written or emitted once
\* the transfer is ended, cancelled or has failed, and a pull that is over before
\* its first chunk has said why (_readData, readEnd, cancelListener).
Promise == INSTANCE PullTransfer WITH
    received <- Len(got), first <- attached, over <- at = "over"
ImplementsPullTransfer == Promise!Spec

\* A whole answer that has arrived ends the transfer, however long the chunks
\* are (a chunk may be empty), unless the user cancels or the socket fails or times out.
CompleteEnds ==
    (verdict = "DONE" /\ arrived = Len(sent) /\ ~fin)
        ~> (ended \/ cancelled \/ broken)

\* A refusal or an answer out of protocol makes the client give the connection
\* up, also when it comes after chunks (_readError, Parser.unexpected).
FailureReleases ==
    (verdict \in {"FAIL", "JUNK"} /\ arrived = Len(sent))
        ~> (shut \/ destroyed \/ cancelled \/ fin)

\* As long as the first chunk is not complete, an answer that breaks off, or is
\* a refusal, is reported by 'error' (_readData's catch).
EarlyFailureReported ==
    (fin /\ attached) ~> (errors > 0 \/ Whole \/ ~attached \/ cancelled \/ destroyed)

\* No transfer is left waiting by an answer that is not a whole file, as far as
\* the first chunk, and no connection by a refusal (_readData, _readError).
FailureSettles == FailureReleases /\ EarlyFailureReported

\* An answer that breaks off is reported by 'error' wherever it breaks off.
FailureReported ==
    fin ~> (errors > 0 \/ Whole \/ cancelled \/ broken)
=============================================================================
