---------------------------- MODULE PushTransfer ----------------------------
(***************************************************************************)
(* What Sync.push promises of the PushTransfer it returns, in terms of the *)
(* file, of what the device gets of it, and of what the user is told: no   *)
(* pieces, no replies, no socket.  The user is told of no more bytes than  *)
(* there are.  It is over once, by 'end', 'error' or cancel(); an 'end'    *)
(* that comes alone comes when the device has the whole file.  A transfer  *)
(* that was dropped in the middle of it is the last of its connection.     *)
(*                                                                         *)
(* Whether 'end' also comes with an 'error' and with cancel() is left      *)
(* open: it does, and the README of the repository (line 1059) says that   *)
(* it does not.  SyncOps implements this specification.                    *)
(***************************************************************************)
EXTENDS Naturals

VARIABLES
    made,        \* bytes the source has produced
    stored,      \* bytes of them the device gets to see
    complete,    \* the device gets to see that these are all
    told,        \* bytes of stats.bytesTransferred
    errors,      \* 'error' events
    ended,       \* 'end' was emitted
    dropped      \* the device was left in the middle of the file

vars == <<made, stored, complete, told, errors, ended, dropped>>

Init ==
    /\ made = 0 /\ stored = 0 /\ complete = FALSE /\ told = 0
    /\ errors = 0 /\ ended = FALSE /\ dropped = FALSE

Over == ended \/ errors > 0 \/ dropped
Open == ~Over /\ ~complete

Produce ==
    /\ Open /\ made' > made
    /\ UNCHANGED <<stored, complete, told, errors, ended, dropped>>

\* What was read from the source before the transfer ended is still written.
Store ==
    /\ ~complete /\ stored' > stored /\ stored' <= made
    /\ UNCHANGED <<made, complete, told, errors, ended, dropped>>

Complete ==
    /\ ~complete /\ stored = made /\ complete' = TRUE
    /\ UNCHANGED <<made, stored, told, errors, ended, dropped>>

\* Writes are flushed in their own time, after 'end' too.
Progress ==
    /\ told' > told /\ told' <= made
    /\ UNCHANGED <<made, stored, complete, errors, ended, dropped>>

Finish ==
    /\ ~Over /\ complete /\ stored = made
    /\ ended' = TRUE
    /\ UNCHANGED <<made, stored, complete, told, errors, dropped>>

\* The device's side fails, or the source; a failed source drops the transfer.
Fail ==
    /\ ~Over /\ errors' = 1
    /\ ended' \in BOOLEAN /\ dropped' \in BOOLEAN
    /\ UNCHANGED <<made, stored, complete, told>>

Cancel ==
    /\ ~Over /\ dropped' = TRUE /\ ended' \in BOOLEAN
    /\ UNCHANGED <<made, stored, complete, told, errors>>

Renew == Over /\ ~dropped /\ Init'

Next ==
    \/ Produce \/ Store \/ Complete \/ Progress
    \/ Finish \/ Fail \/ Cancel \/ Renew

Spec == Init /\ [][Next]_vars
==============================================================================
