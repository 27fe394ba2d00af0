---------------------------- MODULE PullTransfer ----------------------------
(***************************************************************************)
(* What Sync.pull promises of the PullTransfer it returns, in terms of the *)
(* file and of what the user is told: no replies, no reads, no socket.     *)
(* The bytes come in order, none that is not the file's, and stop with the *)
(* first of 'end', 'error' and cancel().  'end' comes once; after DONE all *)
(* bytes have come before it.  A pull that is over has told so, unless     *)
(* its first chunk was complete.  SyncPull implements this specification.  *)
(***************************************************************************)
EXTENDS Naturals

VARIABLES
    size,        \* bytes of the file the device has sent
    verdict,     \* how the device ended its answer, "none" if it has not
    received,    \* bytes of the file the user has received, always 1..received
    first,       \* the first chunk is not complete
    over,        \* nothing of the answer is read any more
    ended,       \* 'end' was emitted
    errors,      \* 'error' events
    cancelled    \* the user has cancelled the transfer

told == <<received, first, over, ended, errors, cancelled>>
vars == <<size, verdict, told>>

Init ==
    /\ size = 0 /\ verdict = "none"
    /\ received = 0 /\ first = TRUE /\ over = FALSE
    /\ ended = FALSE /\ errors = 0 /\ cancelled = FALSE

Send ==
    /\ verdict = "none" /\ size' > size
    /\ UNCHANGED <<verdict, told>>

Answer ==
    /\ verdict = "none" /\ verdict' \in {"DONE", "FAIL", "JUNK"}
    /\ UNCHANGED <<size, told>>

Live == ~over /\ ~ended

Deliver ==
    /\ Live /\ received' > received /\ received' <= size
    /\ UNCHANGED <<size, verdict, first, over, ended, errors, cancelled>>

ChunkComplete ==
    /\ Live /\ first' = FALSE
    /\ UNCHANGED <<size, verdict, received, over, ended, errors, cancelled>>

Finish ==
    /\ Live /\ verdict = "DONE" /\ received = size
    /\ ended' = TRUE /\ over' = TRUE
    /\ UNCHANGED <<size, verdict, received, first, errors, cancelled>>

\* The device's message is still to come.
Refused ==
    /\ Live /\ verdict = "FAIL"
    /\ ended' = TRUE
    /\ UNCHANGED <<size, verdict, received, first, over, errors, cancelled>>

\* An answer out of protocol also ends the transfer.
Fail ==
    /\ ~over /\ over' = TRUE
    /\ errors' = IF first THEN errors + 1 ELSE errors
    /\ ended' \in {ended, ended \/ verdict = "JUNK"}
    /\ UNCHANGED <<size, verdict, received, first, cancelled>>

Cancel ==
    /\ Live /\ first
    /\ cancelled' = TRUE /\ over' = TRUE
    /\ UNCHANGED <<size, verdict, received, first, ended, errors>>

Next ==
    \/ Send \/ Answer \/ Deliver \/ ChunkComplete
    \/ Finish \/ Refused \/ Fail \/ Cancel

Spec == Init /\ [][Next]_vars
==============================================================================
