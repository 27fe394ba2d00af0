------------------------------ MODULE ProcStat ------------------------------
(***************************************************************************)
(* CPU statistics (proc/stat.ts): every second /proc/stat is pulled and    *)
(* compared with the one before, and 'load' tells how each CPU spent the   *)
(* ticks in between, in percent.                                           *)
(*                                                                         *)
(* A CPU's line is its columns of ticks, here two for the code's ten; a    *)
(* CPU that is offline has no line, or one that stands still.              *)
(***************************************************************************)
EXTENDS Integers, FiniteSets, Sequences

CONSTANTS
    Cpus,
    MaxTicks     \* bound: value of a column

ASSUME ProcStatAssumption == MaxTicks \in Nat

Columns == {"busy", "idle"}
Lines == [Columns -> 0 .. MaxTicks]
Samples == UNION {[online -> Lines] : online \in SUBSET Cpus}
Total(line) == line["busy"] + line["idle"]

VARIABLES
    stats,       \* stats.cpus: the lines to compare with
    ignore,      \* _ignore: the lines to skip
    loads,       \* the last 'load' event
    pulling,     \* an update waits for its pull
    failed,      \* 'error' events
    closed,      \* the timer is cleared and sync gone
    seen         \* the last three files pulled, oldest first

procStat == <<stats, ignore, loads, pulling, failed, closed, seen>>

None == [c \in {} |-> [col \in Columns |-> 0]]

\* The constructor calls update at once.
ProcStatInit ==
    /\ stats = None /\ ignore = None /\ loads = None
    /\ pulling = TRUE /\ failed = 0 /\ closed = FALSE /\ seen = <<>>

(***************************************************************************)
(* _parse and _set.                                                        *)
(***************************************************************************)
Skipped(c, file) == c \in DOMAIN ignore /\ ignore[c] = file[c]
Parsed(file) == {c \in DOMAIN file : ~Skipped(c, file)}

Counts(c, file) == c \in DOMAIN stats /\ Total(file[c]) > Total(stats[c])
Stopped(file) == {c \in Parsed(file) \cap DOMAIN stats : ~Counts(c, file)}

\* Rounded down, as Math.floor does.
Share(old, cur) ==
    [col \in Columns |-> (100 * (cur[col] - old[col])) \div (Total(cur) - Total(old))]
Loads(file) == [c \in {p \in Parsed(file) : Counts(p, file)} |-> Share(stats[c], file[c])]

\* A CPU that stood still, or went back in time, is out of the statistics and its
\* line is skipped whenever it comes again.
FaultyIgnored(file) == ignore
Ignored(file) ==
    [c \in DOMAIN ignore \cup Stopped(file) |-> IF c \in Stopped(file) THEN file[c] ELSE ignore[c]]
Compared(file) == [c \in Parsed(file) \ Stopped(file) |-> file[c]]

\* Counters run on, or idle drops so far that the total does.
Follows(old, cur) == (\A col \in Columns : old[col] <= cur[col]) \/ Total(cur) <= Total(old)
Previous == IF seen = <<>> THEN None ELSE seen[Len(seen)]
Files == {f \in Samples : \A c \in DOMAIN f \cap DOMAIN Previous : Follows(Previous[c], f[c])}

(***************************************************************************)
(* The timer, the answers and end().                                       *)
(***************************************************************************)
Updates(file) ==
    /\ pulling /\ pulling' = FALSE
    /\ seen' = Append(IF Len(seen) < 3 THEN seen ELSE Tail(seen), file)
    /\ stats' = Compared(file) /\ ignore' = Ignored(file) /\ loads' = Loads(file)
    /\ UNCHANGED <<failed, closed>>

UpdateFails ==
    /\ pulling /\ failed < 1
    /\ pulling' = FALSE /\ failed' = failed + 1 /\ loads' = None
    /\ UNCHANGED <<stats, ignore, closed, seen>>

Ticks ==
    /\ ~closed /\ ~pulling /\ pulling' = TRUE /\ loads' = None
    /\ UNCHANGED <<stats, ignore, failed, closed, seen>>

EndsStat ==
    /\ ~closed /\ closed' = TRUE /\ loads' = None
    /\ UNCHANGED <<stats, ignore, pulling, failed, seen>>

ProcStatNext == (\E f \in Files : Updates(f)) \/ UpdateFails \/ Ticks \/ EndsStat
ProcStatSpec == ProcStatInit /\ [][ProcStatNext]_procStat

(***************************************************************************)
(* Properties.                                                             *)
(***************************************************************************)
\* The file pulled n before the last.
Ago(n) == IF Len(seen) > n THEN seen[Len(seen) - n] ELSE None

\* A load compares the last two files, in percentages that add up.
Percentages ==
    \A c \in DOMAIN loads :
        /\ c \in DOMAIN Ago(0) \cap DOMAIN Ago(1)
        /\ loads[c] = Share(Ago(1)[c], Ago(0)[c])
        /\ \A col \in Columns : loads[c][col] \in 0 .. 100
        /\ loads[c]["busy"] + loads[c]["idle"] \in 100 - Cardinality(Columns) .. 100

\* A CPU that stood still from one file to the next has no load in the next.
StillHidden ==
    \A c \in DOMAIN loads : c \in DOMAIN Ago(1) \cap DOMAIN Ago(2) => Ago(1)[c] # Ago(2)[c]

\* What 'load' tells are percentages of the ticks since the last file, never of
\* a CPU that was offline before it or has gone back (_parse, _set).
LoadsTold == Percentages /\ StillHidden
=============================================================================
