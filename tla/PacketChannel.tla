---------------------------- MODULE PacketChannel ----------------------------
(***************************************************************************)
(* What the bridge's Socket may assume of the packets it handles, in terms *)
(* of packets alone: no bytes, no chunks, no buffer.  They are handled in  *)
(* the order they were sent, each once, none skipped and none that is      *)
(* damaged; and once the channel is over no more are handled.              *)
(***************************************************************************)
EXTENDS Naturals, Sequences

VARIABLES
    sent,         \* for each packet sent so far: is it intact?
    handled,      \* the positions in sent of the packets handled so far
    over          \* the socket has ended

vars == <<sent, handled, over>>

Init == sent = <<>> /\ handled = <<>> /\ over = FALSE

Send ==
    /\ \E intact \in BOOLEAN : sent' = Append(sent, intact)
    /\ UNCHANGED <<handled, over>>

Handle ==
    /\ ~over /\ Len(handled) < Len(sent)
    /\ sent[Len(handled) + 1]
    /\ handled' = Append(handled, Len(handled) + 1)
    /\ UNCHANGED <<sent, over>>

Break ==
    /\ ~over /\ over' = TRUE
    /\ UNCHANGED <<sent, handled>>

Next == Send \/ Handle \/ Break

Spec == Init /\ [][Next]_vars
==============================================================================
