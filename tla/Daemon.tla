------------------------------- MODULE Daemon -------------------------------
(***************************************************************************)
(* The daemon as its operators see it: `vik run`, `run -d`, `stop`,        *)
(* `restart`, `uninstall` and `status` as processes of one workflow        *)
(* (cli/run.rs, cli/lifecycle.rs, daemon/lifecycle.rs) that meet in the    *)
(* state file (daemon/state.rs), the process table and signals             *)
(* (daemon/signals).  Detach is one step here (module Detach has it), and  *)
(* so is the orchestrator (module Orchestrator).  The file's content is    *)
(* its pid.  restart and uninstall probe the pid once more before they     *)
(* signal it; a second probe decides as the first one does.  Reading,      *)
(* writing and removing the record may fail, and so may a signal.          *)
(* Operators named Mut_... are seeded faults; no action uses them.         *)
(***************************************************************************)
EXTENDS Naturals, FiniteSets

CONSTANTS
    Pids,         \* bound: the process ids of the machine
    Disciplined   \* bound: commands are given one after the other, each once
                  \* the last one is over and what it started has booted

VARIABLES
    proc,  \* [Pids -> the process: where it is, its command, the pid it read,
           \* the signals its handlers have not received, its shutdown token]
    file   \* the state file: a pid, NoPid when absent

vars == <<proc, file>>

NoPid == "none"
Verbs == {"run", "run -d", "stop", "restart", "uninstall", "status"}

Booting == {"boot", "armed", "writing"}
Serving == {"serving", "cleanup"}
Closing == {"closing", "leaving"}          \* past its record: removed, or not
Over    == {"exited", "died", "left"}      \* left: with its record behind
Idle    == Over \cup {"free"}

pc(p)       == proc[p].pc
verb(p)     == proc[p].verb
target(p)   == proc[p].target
Handling(p) == pc(p) \in {"armed", "writing"} \cup Serving \cup Closing
Works(p)    == pc(p) \in Booting \cup Serving
IsDaemon(p) == Works(p) \/ pc(p) \in Closing
IsVerb(p)   == ~IsDaemon(p) /\ pc(p) \notin Idle
Alive(p)    == pc(p) \notin Over \cup {"free"}

Process(where, v) ==
    [pc |-> where, verb |-> v, target |-> NoPid, pending |-> {}, token |-> FALSE]

TypeOK ==
    /\ proc \in [Pids ->
         [pc : {"read", "probe", "signal", "wait", "remove", "running", "stale", "fork"}
                 \cup Booting \cup Serving \cup Closing \cup Idle,
          verb : Verbs \cup {"none"},
          target : Pids \cup {NoPid},
          pending : SUBSET {"INT", "TERM"},
          token : BOOLEAN]]
    /\ file \in Pids \cup {NoPid}

Init ==
    /\ proc = [p \in Pids |-> Process("free", "none")]
    /\ file = NoPid

\* What is left of process r once it is at `to'.
Moved(r, to) == IF to \in Over THEN Process(to, "none") ELSE [r EXCEPT !.pc = to]

At(p, from, to) == pc(p) = from /\ proc' = [proc EXCEPT ![p] = Moved(@, to)]

-----------------------------------------------------------------------------
(* The operator and the process table.                                     *)

\* Without discipline any command may come at any time; `vik run' refuses
\* nothing, so a disciplined operator asks `vik status' first.
MayStart(v) ==
    Disciplined =>
        /\ \A q \in Pids : ~IsVerb(q) /\ pc(q) \notin Booting
        /\ v = "run" => ~(file \in Pids /\ Alive(file))

Start(p, v) ==
    /\ pc(p) = "free"
    /\ MayStart(v)
    /\ proc' = [proc EXCEPT ![p] = Process(IF v = "run" THEN "boot" ELSE "read", v)]
    /\ UNCHANGED file

Remembered(p) == file = p \/ \E q \in Pids : target(q) = p

\* Bound: the pid of a process that is over is given out again, to a command
\* of this workflow, once nobody remembers it.
Recycle(p) ==
    /\ pc(p) \in Over /\ ~Remembered(p)
    /\ At(p, pc(p), "free")
    /\ UNCHANGED file

\* Signal s is delivered to q: a handler takes note of it, the default ends
\* the process.
Signalled(q, s) ==
    CASE Handling(q) -> [proc[q] EXCEPT !.pending = @ \cup {s}]
      [] Alive(q) /\ ~Handling(q) -> Moved(proc[q], "exited")
      [] OTHER -> proc[q]

Interrupt(p) ==
    /\ verb(p) = "run"
    /\ proc' = [proc EXCEPT ![p] = Signalled(p, "INT")]
    /\ UNCHANGED file

Crash(p) ==
    /\ IsDaemon(p)
    /\ At(p, pc(p), "died")
    /\ UNCHANGED file

-----------------------------------------------------------------------------
(* The verbs.                                                              *)

\* restart is over with the old daemon, and goes on as a `run -d'.
RunAfresh(p) == proc' = [proc EXCEPT ![p] = Process("read", "run -d")]

\* State::try_read found nothing.
ReadAbsent(p) ==
    /\ pc(p) = "read" /\ file = NoPid
    /\ \/ verb(p) = "restart" /\ RunAfresh(p)
       \/ verb(p) = "run -d" /\ At(p, "read", "fork")
       \/ verb(p) \in {"stop", "uninstall", "status"} /\ At(p, "read", "exited")
    /\ UNCHANGED file

\* ... a record, or could not read it.
Read(p) ==
    /\ \/ At(p, "read", "exited")
       \/ /\ pc(p) = "read" /\ file \in Pids
          /\ proc' = [proc EXCEPT ![p].pc = "probe", ![p].target = file]
    /\ UNCHANGED file

Mut_ProbeOnlyToStop(p) ==
    /\ pc(p) = "probe"
    /\ LET alive == Alive(target(p)) IN
        CASE verb(p) = "status" -> At(p, "probe", IF alive THEN "running" ELSE "stale")
          [] verb(p) = "run -d" -> At(p, "probe", "fork")
          [] OTHER              -> At(p, "probe", IF alive THEN "signal" ELSE "remove")
    /\ UNCHANGED file

\* pid_alive of what was read.
Probe(p) ==
    /\ pc(p) = "probe"
    /\ LET alive == Alive(target(p)) IN
        CASE verb(p) = "status" -> At(p, "probe", IF alive THEN "running" ELSE "stale")
          [] verb(p) = "run -d" -> At(p, "probe", IF alive THEN "exited" ELSE "fork")
          [] OTHER              -> At(p, "probe", IF alive THEN "signal" ELSE "remove")
    /\ UNCHANGED file

Report(p) ==
    /\ At(p, "running", "exited") \/ At(p, "stale", "exited")
    /\ UNCHANGED file

\* send_sigterm: a pid that is gone is no error, one of another user is.
Sigterm(p) ==
    /\ \/ At(p, "signal", "exited")
       \/ /\ pc(p) = "signal"
          /\ LET q == target(p) IN
              proc' = [proc EXCEPT ![p].pc = "wait", ![q] = Signalled(q, "TERM")]
    /\ UNCHANGED file

SeesDeath(p) ==
    /\ At(p, "wait", "remove")
    /\ ~Alive(target(p))
    /\ UNCHANGED file

\* STOP_TIMEOUT: the error, with the daemon and its file as they are.
StopTimesOut(p) == At(p, "wait", "exited") /\ UNCHANGED file

\* State::remove, whatever the file says by now, or an error.
RemoveRecord(p) ==
    \/ /\ pc(p) = "remove"
       /\ IF verb(p) = "restart" THEN RunAfresh(p) ELSE At(p, "remove", "exited")
       /\ file' = NoPid
    \/ At(p, "remove", "exited") /\ UNCHANGED file

\* daemon::detach: the launcher is over before the daemon q has booted.
ForkDaemon(p) ==
    /\ \/ At(p, "fork", "exited")   \* an error
       \/ /\ pc(p) = "fork"
          /\ \E q \in Pids :
                /\ pc(q) = "free"
                /\ proc' = [proc EXCEPT ![p] = Moved(@, "exited"),
                                        ![q] = Process("boot", "run -d")]
    /\ UNCHANGED file

-----------------------------------------------------------------------------
(* The daemon: run_inner from init_logging on.                             *)

Mut_RecordThenArm(p) ==
    \/ pc(p) = "boot" /\ file' = p /\ UNCHANGED proc
    \/ At(p, "boot", "armed") /\ UNCHANGED file

\* Logging, the runtime and install_shutdown_handler, or an error.
Arm(p) ==
    /\ At(p, "boot", "armed") \/ At(p, "boot", "exited")
    /\ UNCHANGED file

\* State::write, to the temporary file.
WriteTemporary(p) ==
    /\ At(p, "armed", "writing") \/ At(p, "armed", "exited")
    /\ UNCHANGED file

RenameRecord(p) ==
    \/ At(p, "writing", "serving") /\ file' = p
    \/ At(p, "writing", "exited") /\ UNCHANGED file

Mut_ReceiveWhenServing(p) ==
    /\ Handling(p)
    /\ \E s \in proc[p].pending :
        IF proc[p].token
        THEN At(p, pc(p), "died")
        ELSE proc' = [proc EXCEPT ![p].pending = @ \ {s}, ![p].token = pc(p) \in Serving]
    /\ UNCHANGED file

\* The signal streams: the second signal aborts, whichever it is.
Receive(p) ==
    /\ Handling(p)
    /\ \E s \in proc[p].pending :
        IF proc[p].token
        THEN At(p, pc(p), "died")
        ELSE proc' = [proc EXCEPT ![p].pending = @ \ {s}, ![p].token = TRUE]
    /\ UNCHANGED file

\* drive_runtime: graceful waits for the orchestrator, past GRACE if need be.
Drain(p) == At(p, "serving", "cleanup") /\ UNCHANGED file

\* State::remove, whatever the file says; an error is a warning in the log.
CleanUp(p) ==
    \/ At(p, "cleanup", "closing") /\ file' = NoPid
    \/ At(p, "cleanup", "leaving") /\ UNCHANGED file

\* The runtime is dropped, the log flushed, and the process over.
EndProcess(p) ==
    /\ At(p, "closing", "exited") \/ At(p, "leaving", "left")
    /\ UNCHANGED file

-----------------------------------------------------------------------------

VerbStep(p) ==
    \/ ReadAbsent(p) \/ Read(p) \/ Probe(p) \/ Report(p) \/ Sigterm(p)
    \/ SeesDeath(p) \/ StopTimesOut(p) \/ RemoveRecord(p) \/ ForkDaemon(p)

Boot(p)  == Arm(p) \/ WriteTemporary(p) \/ RenameRecord(p)
Close(p) == (proc[p].token /\ Drain(p)) \/ CleanUp(p) \/ EndProcess(p)

Next == \E p \in Pids :
    \/ \E v \in Verbs : Start(p, v)
    \/ Recycle(p) \/ Interrupt(p) \/ Crash(p)
    \/ VerbStep(p)
    \/ Boot(p) \/ Receive(p) \/ Drain(p) \/ CleanUp(p) \/ EndProcess(p)

Spec == Init /\ [][Next]_vars

\* A daemon boots and receives its signals; a drain the token asked for
\* completes (Orchestrator).
DaemonSpec == Spec /\ \A p \in Pids :
    WF_vars(Boot(p)) /\ WF_vars(Receive(p)) /\ WF_vars(Close(p))

-----------------------------------------------------------------------------
(* Properties.                                                             *)

\* A record outlives its daemon only when that crashed, was told twice to
\* stop, or could not remove it: a signal that comes while a daemon boots
\* never kills it with its record written.
StaleIsExplained == file \in Pids /\ ~Alive(file) => pc(file) \in {"died", "left"}

\* Commands given one by one never lead to two daemons that work, through
\* crashes, aborts, timed-out stops, stale records and failed removals.  (One
\* that has ended its work and removed its record may still be closing.)
OneDaemon == Cardinality({p \in Pids : Works(p)}) <= 1

\* ... and when none is under way, the daemon that serves is the one in the
\* state file.
ServingIsRecorded ==
    (\A p \in Pids : ~IsVerb(p)) => \A p \in Pids : pc(p) \in Serving => file = p

\* A daemon that was sent SIGTERM or SIGINT ends, also when it came while it
\* was starting up.
Signals(p) == proc[p].pending # {}

SignalledEnds == \A p \in Pids : Signals(p) ~> ~IsDaemon(p)
=============================================================================
