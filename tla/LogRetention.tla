---------------------------- MODULE LogRetention ----------------------------
(***************************************************************************)
(* The log directory over the lives of a daemon (logging/mod.rs and        *)
(* logging/retention.rs): two appenders that begin a file a day and never  *)
(* prune, and a scan for old files when logging is set up, with the        *)
(* subscriber live already.  The date is the same for both (UTC) and may   *)
(* change between any two steps.  Operators named Mut_... are seeded       *)
(* faults.                                                                 *)
(***************************************************************************)
EXTENDS Integers

CONSTANTS
    Retention,  \* RETENTION_DAYS
    LastDay,    \* bound: the days of one behaviour
    Others      \* names in the directory that are no log files

VARIABLES
    today,    \* the date
    dir,      \* "absent", "dir" or "file": what is at the log directory
    files,    \* what is in it
    pc,       \* where the daemon is
    open,     \* [Prefix -> the date of the appender's file]
    cutoff,   \* of the scan
    todo,     \* entries the scan has not looked at
    stuck     \* entries whose removal fails (bound: one, of the first day)

vars == <<today, dir, files, pc, open, cutoff, todo, stuck>>

Prefix  == {"vik.log", "vik-error.log"}
LogFile == [prefix : Prefix, date : 0 .. LastDay]
Other   == [prefix : Others, date : {0}]

TypeOK ==
    /\ today \in 0 .. LastDay
    /\ dir \in {"absent", "dir", "file"}
    /\ files \subseteq LogFile \cup Other
    /\ pc \in {"off", "open", "read", "scan", "up"}
    /\ open \in [Prefix -> 0 .. LastDay]
    /\ cutoff \in -Retention .. LastDay
    /\ todo \subseteq LogFile \cup Other
    /\ stuck \subseteq LogFile

Init ==
    /\ today = 0
    /\ dir \in {"absent", "dir", "file"}
    /\ files \in IF dir = "dir" THEN {{}, Other} ELSE {{}}
    /\ pc = "off"
    /\ open = [p \in Prefix |-> 0]
    /\ cutoff = 0
    /\ todo = {}
    /\ stuck \in {{}} \cup {{[prefix |-> p, date |-> 0]} : p \in Prefix}

-----------------------------------------------------------------------------
(* logging::init.                                                          *)

\* ensure_log_dir refuses what is no directory, and the daemon ends.
SetUpFails ==
    /\ pc = "off" /\ dir = "file"
    /\ UNCHANGED vars

Opened == {[prefix |-> p, date |-> today] : p \in Prefix}

\* The directory is there, both appenders have today's file.
SetUp ==
    /\ pc = "off" /\ dir # "file"
    /\ dir' = "dir"
    /\ open' = [p \in Prefix |-> today]
    /\ files' = files \cup Opened
    /\ pc' = "open"
    /\ UNCHANGED <<today, cutoff, todo, stuck>>

\* prune_old_logs takes the date once.
TakeCutoff ==
    /\ pc = "open"
    /\ cutoff' = today - Retention
    /\ pc' = "read"
    /\ UNCHANGED <<today, dir, files, open, todo, stuck>>

ReadDir ==
    /\ pc = "read"
    /\ todo' = files
    /\ pc' = "scan"
    /\ UNCHANGED <<today, dir, files, open, cutoff, stuck>>

\* read_dir fails: a warning, and the old files stay.
ReadDirFails ==
    /\ pc = "read"
    /\ pc' = "up"
    /\ UNCHANGED <<today, dir, files, open, cutoff, todo, stuck>>

\* parse_log_date, then the comparison.
Expired(f) == f.prefix \in Prefix /\ f.date < cutoff

Mut_PruneStops(f) ==
    /\ pc = "scan" /\ f \in todo
    /\ todo' = IF Expired(f) /\ f \in stuck THEN {} ELSE todo \ {f}
    /\ files' = IF Expired(f) /\ f \notin stuck THEN files \ {f} ELSE files
    /\ UNCHANGED <<today, dir, pc, open, cutoff, stuck>>

\* One entry; a removal that fails is a warning.
Prune(f) ==
    /\ pc = "scan" /\ f \in todo
    /\ todo' = todo \ {f}
    /\ files' = IF Expired(f) /\ f \notin stuck THEN files \ {f} ELSE files
    /\ UNCHANGED <<today, dir, pc, open, cutoff, stuck>>

ScanEnds ==
    /\ pc = "scan" /\ todo = {}
    /\ pc' = "up"
    /\ UNCHANGED <<today, dir, files, open, cutoff, todo, stuck>>

-----------------------------------------------------------------------------
(* The daemon at work, and time.                                           *)

\* The appender's worker writes: the first write of a day begins a file.
Write(p) ==
    /\ pc \in {"open", "read", "scan", "up"}
    /\ open' = [open EXCEPT ![p] = today]
    /\ files' = files \cup {[prefix |-> p, date |-> today]}
    /\ UNCHANGED <<today, dir, pc, cutoff, todo, stuck>>

\* Bound: setting logging up takes less than a day.
Midnight ==
    /\ today < LastDay
    /\ pc \in {"open", "read", "scan"} => \A p \in Prefix : open[p] = today
    /\ today' = today + 1
    /\ UNCHANGED <<dir, files, pc, open, cutoff, todo, stuck>>

\* The process ends, wherever it is.
DaemonEnds ==
    /\ pc # "off"
    /\ pc' = "off"
    /\ todo' = {}
    /\ UNCHANGED <<today, dir, files, open, cutoff, stuck>>

Next ==
    \/ SetUpFails \/ SetUp \/ TakeCutoff \/ ReadDir \/ ReadDirFails
    \/ (\E f \in todo : Prune(f)) \/ ScanEnds
    \/ (\E p \in Prefix : Write(p)) \/ Midnight \/ DaemonEnds

Spec == Init /\ [][Next]_vars

-----------------------------------------------------------------------------
(* Properties.                                                             *)

\* No file is lost that retention keeps or that is not Vik's: not an
\* operator's, not one of the last days, not the one an appender writes to,
\* whatever midnight falls between.
LosesOnlyOld ==
    \A f \in files \ files' :
        /\ f \in LogFile
        /\ f.date < today - Retention
        /\ f.date # open[f.prefix]

KeepsWhatItMust == [][LosesOnlyOld]_files

\* One file that refuses to go does not save the others: once a whole scan is
\* over, what is left of the old days is what could not be removed, or was
\* written by an appender after the scan had read the directory.
LeavesOnlyStuck == ScanEnds => \A f \in files : Expired(f) => f \in stuck

ScanIsComplete == [][LeavesOnlyStuck]_vars

=============================================================================
