------------------------------ MODULE AdbStream ------------------------------
(***************************************************************************)
(* What the TCP/USB bridge promises the remote adb host about its streams, *)
(* in the terms of the remote alone: no service objects, no transports, no *)
(* packets in flight.  A stream is opened once, is declared ready at most  *)
(* once and is over for good when it is closed.  Device bytes arrive in    *)
(* order, without gap or repetition, at most MaxPayload of them per write, *)
(* and no second write arrives before the first is acknowledged.  In the   *)
(* other direction an acknowledgement means the write reached the          *)
(* transport.  TcpUsbBridge is checked to implement this specification.    *)
(***************************************************************************)
EXTENDS Naturals

CONSTANTS
    Streams,     \* the streams of one connection
    MaxPayload   \* most bytes one write to the remote may carry

VARIABLES
    st,        \* st[s]: the stream as the remote sees it
    produced,  \* produced[s]: bytes the device side has emitted
    got,       \* got[s]: bytes the remote has received, always 1..got[s]
    owes,      \* owes[s]: the remote has a write to acknowledge
    written,   \* written[s]: writes the remote has sent
    accepted,  \* accepted[s]: writes handed to the device side
    waiting    \* waiting[s]: the remote's last write is not acknowledged yet

vars == <<st, produced, got, owes, written, accepted, waiting>>

Init ==
    /\ st = [s \in Streams |-> "idle"]
    /\ produced = [s \in Streams |-> 0]
    /\ got = [s \in Streams |-> 0]
    /\ owes = [s \in Streams |-> FALSE]
    /\ written = [s \in Streams |-> 0]
    /\ accepted = [s \in Streams |-> 0]
    /\ waiting = [s \in Streams |-> FALSE]

Open(s) ==
    /\ st[s] = "idle"
    /\ st' = [st EXCEPT ![s] = "opening"]
    /\ UNCHANGED <<produced, got, owes, written, accepted, waiting>>

Ready(s) ==
    /\ st[s] = "opening"
    /\ st' = [st EXCEPT ![s] = "open"]
    /\ UNCHANGED <<produced, got, owes, written, accepted, waiting>>

\* A refused open, an end on the device side, or the remote's own close.
Close(s) ==
    /\ st[s] \in {"opening", "open"}
    /\ st' = [st EXCEPT ![s] = "closed"]
    /\ UNCHANGED <<produced, got, owes, written, accepted, waiting>>

\* Any number of bytes at once.
Produce(s) ==
    /\ produced'[s] > produced[s]
    /\ produced' = [produced EXCEPT ![s] = produced'[s]]
    /\ UNCHANGED <<st, got, owes, written, accepted, waiting>>

Deliver(s) ==
    /\ st[s] = "open" /\ ~owes[s]
    /\ \E n \in 1..MaxPayload :
          /\ got[s] + n <= produced[s]
          /\ got' = [got EXCEPT ![s] = @ + n]
    /\ owes' = [owes EXCEPT ![s] = TRUE]
    /\ UNCHANGED <<st, produced, written, accepted, waiting>>

Ack(s) ==
    /\ owes[s]
    /\ owes' = [owes EXCEPT ![s] = FALSE]
    /\ UNCHANGED <<st, produced, got, written, accepted, waiting>>

Write(s) ==
    /\ st[s] = "open" /\ ~waiting[s]
    /\ written' = [written EXCEPT ![s] = @ + 1]
    /\ waiting' = [waiting EXCEPT ![s] = TRUE]
    /\ UNCHANGED <<st, produced, got, owes, accepted>>

\* The write reaches the device; the remote may have closed meanwhile.
Accept(s) ==
    /\ accepted[s] < written[s]
    /\ accepted' = [accepted EXCEPT ![s] = @ + 1]
    /\ UNCHANGED <<st, produced, got, owes, written, waiting>>

Acked(s) ==
    /\ waiting[s] /\ accepted[s] = written[s]
    /\ waiting' = [waiting EXCEPT ![s] = FALSE]
    /\ UNCHANGED <<st, produced, got, owes, written, accepted>>

Next ==
    \E s \in Streams :
        \/ Open(s) \/ Ready(s) \/ Close(s)
        \/ Produce(s) \/ Deliver(s) \/ Ack(s)
        \/ Write(s) \/ Accept(s) \/ Acked(s)

Spec == Init /\ [][Next]_vars
==============================================================================
