------------------------------ MODULE Trackers ------------------------------
(***************************************************************************)
(* Tracker (tracker.ts) and JdwpTracker (jdwptracker.ts): what becomes of  *)
(* the connection of a tracking command.  Reply and tracker share a        *)
(* Parser, so a tracker is the rest of its conversation: "at" goes on with *)
(*   list      a list is being read                                        *)
(*   drainEnd  Tracker's .finally() waits for parser.end()                 *)
(*   gone      the tracker has emitted 'end'                               *)
(*   idle      nothing is read any more, and no 'end' was emitted          *)
(*                                                                         *)
(* A list is one token.  It maps the listed devices to their type, or the  *)
(* listed pids to a type they all share, and is chosen when it is read.    *)
(* The user of the tracker keeps a map of its own by the events 'add',     *)
(* 'change' and 'remove' alone.  That is "view".                           *)
(*                                                                         *)
(* The commands handing over a plain stream have the same record as        *)
(* TrackJdwp, so after their OKAY it is open which one ran.                *)
(***************************************************************************)
EXTENDS Conversations, FiniteSets

CONSTANTS
    Serials,     \* device serials, or pids
    Types,       \* device types
    MaxLists     \* bound: lists sent to a tracker

ASSUME TrackersAssumption == MaxLists \in Nat

VARIABLES
    known,       \* Tracker.deviceMap, JdwpTracker.pidMap
    last,        \* Tracker.deviceList, JdwpTracker.pids: the last list told
    view         \* what the events have told the user
tracked == <<known, last, view>>

ListsOf(types) == UNION {[listed -> types] : listed \in SUBSET Serials}
Nobody == [d \in {} |-> "none"]
TracksDevices == cmd = TrackDevices
TracksPids == cmd = TrackJdwp
\* JDWP lists name no types; any one stands for all.
Lists == IF TracksDevices THEN ListsOf(Types) ELSE ListsOf({"pid"})

TrackersInit == known = Nobody /\ view = Nobody /\ last = Nobody

\* The tracker is running, or winding up.
Tracking == verdict = "handed" /\ at \in {"list", "drainEnd"}

\* The constructor reads at once, in the continuation of the reply.
StartsTracker ==
    /\ Got({"reply"}, {"OKAY"}) /\ Len(todo) = 1 /\ (TracksDevices \/ TracksPids)
    /\ verdict' = "handed" /\ StartRead("list")
    /\ UNCHANGED <<todo, asked, server, socket, ended, tracked>>

\* What changes at the ADB server is listed to the tracker as a whole.
SendList ==
    /\ verdict = "handed" /\ at \in {"list", "idle"} /\ ~fin /\ ~destroyed
    /\ Cardinality({i \in 1 .. Len(sent) : sent[i].kind = "payload"}) < MaxLists
    /\ sent' = Append(sent, Tok("payload", asked))
    /\ UNCHANGED <<todo, asked, answered, fin, socket, parser, verdict, tracked>>

\* JdwpTracker keeps the pids that were not known before.
Remembered(new) ==
    IF TracksDevices THEN new
    ELSE [d \in DOMAIN new \ DOMAIN known |-> new[d]]

\* The events of one update, applied by the user.
Added(new) == DOMAIN new \ DOMAIN known
FaultyChanged(new) == {}
Changed(new) == {d \in DOMAIN new \cap DOMAIN known : new[d] # known[d]}
Removed(new) == DOMAIN last \ DOMAIN Remembered(new)
Replayed(new) ==
    LET told == Added(new) \cup Changed(new)
    IN  [d \in (DOMAIN view \cup told) \ Removed(new) |->
            IF d \in told THEN new[d] ELSE view[d]]

\* Tracker reads on, JdwpTracker does not.
AfterUpdate ==
    IF TracksDevices THEN StartRead("list")
    ELSE at' = "idle" /\ UNCHANGED <<taken, phase, token>>

Updates ==
    /\ Got({"list"}, {"payload"})
    /\ \E new \in Lists :
         /\ last' = new /\ view' = Replayed(new) /\ known' = Remembered(new)
    /\ AfterUpdate
    /\ UNCHANGED <<todo, asked, server, socket, ended, verdict>>

\* 'error' ("Connection closed" for EOF), and .finally().
FaultyListBreaksOff ==
    /\ TracksDevices /\ Got({"list"}, Lost)
    /\ at' = "idle"
    /\ UNCHANGED <<todo, asked, server, socket, taken, phase, token, ended, verdict, tracked>>
ListBreaksOff ==
    /\ TracksDevices /\ Got({"list"}, Lost)
    /\ StartEnd
    /\ UNCHANGED <<todo, asked, server, arrived, broken, destroyed, ended, verdict, tracked>>

\* 'end' for EOF; for an error connection.end(), 'error' and 'end'.
PidsBreakOff ==
    /\ TracksPids /\ Got({"list"}, Lost)
    /\ at' = "gone" /\ shut' = (shut \/ token.kind = "ERROR")
    /\ UNCHANGED <<todo, asked, server, arrived, broken, destroyed>>
    /\ UNCHANGED <<taken, phase, token, ended, verdict, tracked>>

\* end() cancels the reader, also with a list read and not yet told; Bluebird 3
\* then runs .finally() but no .catch().
UserEnds ==
    /\ at = "list" /\ TracksDevices
    /\ StartEnd
    /\ UNCHANGED <<todo, asked, server, arrived, broken, destroyed, ended, verdict, tracked>>

UserEndsPids ==
    /\ at = "list" /\ TracksPids
    /\ at' = "idle"
    /\ UNCHANGED <<todo, asked, server, socket, taken, phase, token, ended, verdict, tracked>>

\* parser.end() resolves, and 'end' is emitted; if it rejects, nothing is.
Farewell ==
    /\ TracksDevices /\ verdict = "handed" /\ Got({"drainEnd"}, Lost)
    /\ at' = IF token.kind = "EOF" THEN "gone" ELSE "idle"
    /\ UNCHANGED <<todo, asked, server, socket, taken, phase, token, ended, verdict, tracked>>

TrackerContinues == StartsTracker \/ Updates \/ ListBreaksOff \/ PidsBreakOff \/ Farewell
TrackerSteps == TrackerContinues \/ SendList \/ UserEnds \/ UserEndsPids

(***************************************************************************)
(* Properties.                                                             *)
(***************************************************************************)
\* Who only listens to 'add', 'change' and 'remove' knows the last list that was
\* told, whatever was listed before it (Tracker.update, JdwpTracker.update).
ViewIsLastList == view = last

\* A device tracker that is ended by its user, or by the ADB server hanging up,
\* at any time emits 'end', unless the connection fails or times out (Tracker's
\* .finally).
TrackerEnds ==
    TracksDevices /\ Tracking /\ (fin \/ at = "drainEnd") ~> (at = "gone" \/ broken)

\* A device tracker never stops listening: again and again, every list that has
\* arrived is told (Tracker.read).
ListsTold == []<>(TracksDevices /\ at = "list" => phase = "waiting" /\ taken = arrived)

\* A device tracker tells every list, and says when it is over.
TrackerServes == TrackerEnds /\ ListsTold
=============================================================================
