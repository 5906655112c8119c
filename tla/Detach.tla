------------------------------- MODULE Detach -------------------------------
(***************************************************************************)
(* `vik run -d` goes to the background (daemon/detach/unix.rs): the        *)
(* launcher forks an intermediate process, which starts a session and      *)
(* forks the daemon; the daemon reports down a pipe the launcher reads.    *)
(* Every system call may fail, and the launcher may be interrupted or the  *)
(* young daemon hung up on between two of them.  Operators named Mut_...   *)
(* are seeded faults; no action uses them.                                 *)
(***************************************************************************)
EXTENDS Naturals, Sequences, FiniteSets

Launcher     == "launcher"
Intermediate == "intermediate"
Daemon       == "daemon"
Processes    == {Launcher, Intermediate, Daemon}

VARIABLES
    pc,         \* where each process is in detach()
    writers,    \* who holds the write end of the pipe
    pipe,       \* the bytes in it: "OK", "FAIL", "message"
    session,    \* whose session the daemon is in
    hupIgnored, \* SIGHUP is ignored by the daemon
    nulled      \* which of its streams are /dev/null

vars == <<pc, writers, pipe, session, hupIgnored, nulled>>

\* detach() returned Ok or Err into run_inner; exited with 0 or 1; killed.
Over == {"ok", "err", "exit0", "exit1", "killed"}

TypeOK ==
    /\ pc \in [Processes -> {"none", "pipe", "fork", "wait", "read", "rest", "setsid", "fork2",
                             "hup", "stdin", "stdout", "report", "message", "handshake",
                             "stderr"} \cup Over]
    /\ pipe \in {<<>>, <<"OK">>, <<"FAIL">>, <<"message">>, <<"FAIL", "message">>}
    /\ writers = {p \in Processes :
                     pc[p] \in {"fork", "setsid", "fork2", "hup", "stdin", "stdout",
                               "report", "message", "handshake"}}
    /\ session \in {Launcher, Intermediate}
    /\ hupIgnored \in BOOLEAN
    /\ nulled \subseteq {"stdin", "stdout", "stderr"}

Init ==
    /\ pc = [p \in Processes |-> IF p = Launcher THEN "pipe" ELSE "none"]
    /\ writers = {} /\ pipe = <<>>
    /\ session = Launcher /\ hupIgnored = FALSE /\ nulled = {}

\* Process p moves on, or is over; what is over holds no descriptor.
Step(p, from, to) ==
    /\ pc[p] = from
    /\ pc' = [pc EXCEPT ![p] = to]
    /\ writers' = IF to \in Over THEN writers \ {p} ELSE writers

Fork(p, from, child, first, keep) ==
    /\ pc[p] = from
    /\ pc' = [pc EXCEPT ![p] = keep, ![child] = first]

daemonVars == <<session, hupIgnored, nulled>>

-----------------------------------------------------------------------------
(* The launcher.                                                           *)

OpenPipe ==
    /\ pc[Launcher] = "pipe"
    /\ \/ pc' = [pc EXCEPT ![Launcher] = "fork"] /\ writers' = {Launcher}
       \/ pc' = [pc EXCEPT ![Launcher] = "err"] /\ UNCHANGED writers
    /\ UNCHANGED <<pipe, daemonVars>>

\* The launcher drops its copy of the write end, and waits for the child.
FirstFork ==
    /\ \/ /\ Fork(Launcher, "fork", Intermediate, "setsid", "wait")
          /\ writers' = {Intermediate}
       \/ Step(Launcher, "fork", "err")
    /\ UNCHANGED <<pipe, daemonVars>>

\* waitpid(child); an error is ignored.
ReapIntermediate ==
    /\ pc[Intermediate] \in Over
    /\ Step(Launcher, "wait", "read")
    /\ UNCHANGED <<pipe, daemonVars>>

\* One byte, or the end of the file once nobody holds the write end.
ReadHandshake ==
    /\ pc[Launcher] = "read"
    /\ \/ /\ pipe # <<>>
          /\ pipe' = Tail(pipe)
          /\ Step(Launcher, "read", IF Head(pipe) = "OK" THEN "exit0" ELSE "rest")
       \/ /\ pipe = <<>> /\ writers = {}
          /\ Step(Launcher, "read", "err")
          /\ UNCHANGED pipe
    /\ UNCHANGED daemonVars

ReadFails == Step(Launcher, "read", "err") /\ UNCHANGED <<pipe, daemonVars>>

\* read_to_string: to the end of the file.
ReadMessage ==
    /\ writers = {}
    /\ Step(Launcher, "rest", "err")
    /\ pipe' = <<>>
    /\ UNCHANGED daemonVars

\* Ctrl-C at the shell before the launcher is done.
Interrupted ==
    /\ pc[Launcher] \in {"wait", "read", "rest"}
    /\ Step(Launcher, pc[Launcher], "killed")
    /\ UNCHANGED <<pipe, daemonVars>>

-----------------------------------------------------------------------------
(* The intermediate process.  Its errors are returned, not reported: it    *)
(* goes on as a second launcher that fails.                                *)

Setsid ==
    /\ \/ Step(Intermediate, "setsid", "fork2") /\ session' = Intermediate
       \/ Step(Intermediate, "setsid", "err") /\ UNCHANGED session
    /\ UNCHANGED <<pipe, hupIgnored, nulled>>

SecondFork ==
    /\ \/ /\ Fork(Intermediate, "fork2", Daemon, "hup", "exit0")
          /\ writers' = {Daemon}
       \/ Step(Intermediate, "fork2", "err")
    /\ UNCHANGED <<pipe, daemonVars>>

-----------------------------------------------------------------------------
(* The daemon: grandchild_setup.                                           *)

IgnoreHup ==
    /\ \/ Step(Daemon, "hup", "stdin") /\ hupIgnored' = TRUE
       \/ Step(Daemon, "hup", "report") /\ UNCHANGED hupIgnored
    /\ UNCHANGED <<pipe, session, nulled>>

Redirect(stream, next) ==
    /\ \/ Step(Daemon, stream, next) /\ nulled' = nulled \cup {stream}
       \/ Step(Daemon, stream, "report") /\ UNCHANGED nulled
    /\ UNCHANGED <<pipe, session, hupIgnored>>

Mut_RedirectStdin == Redirect("stdin", "handshake")

RedirectStdio == Redirect("stdin", "stdout") \/ Redirect("stdout", "handshake")

\* The write may fail when the launcher is gone; the daemon does not mind.
Handshake ==
    /\ pc[Daemon] = "handshake"
    /\ pc' = [pc EXCEPT ![Daemon] = "stderr"]
    /\ writers' = writers \ {Daemon}
    /\ pipe' = IF pc[Launcher] \in Over THEN pipe ELSE Append(pipe, "OK")
    /\ UNCHANGED daemonVars

\* Best effort.
RedirectStderr ==
    /\ Step(Daemon, "stderr", "ok")
    /\ nulled' \in {nulled, nulled \cup {"stderr"}}
    /\ UNCHANGED <<pipe, session, hupIgnored>>

\* report_failure_and_exit: the byte, the message, _exit(1).
ReportFailure ==
    /\ \/ Step(Daemon, "report", "message") /\ pipe' = Append(pipe, "FAIL")
       \/ Step(Daemon, "message", "exit1") /\ pipe' = Append(pipe, "message")
    /\ UNCHANGED daemonVars

\* The terminal goes away while the daemon has the default disposition.
HungUp ==
    /\ ~hupIgnored
    /\ pc[Daemon] \notin Over \cup {"none"}
    /\ Step(Daemon, pc[Daemon], "killed")
    /\ UNCHANGED <<pipe, daemonVars>>

-----------------------------------------------------------------------------

LauncherStep     == OpenPipe \/ FirstFork \/ ReapIntermediate \/ ReadHandshake \/ ReadMessage
IntermediateStep == Setsid \/ SecondFork
DaemonStep       == IgnoreHup \/ RedirectStdio \/ Handshake \/ RedirectStderr \/ ReportFailure

Done == (\A p \in Processes : pc[p] \in Over \cup {"none"}) /\ UNCHANGED vars

Next == LauncherStep \/ IntermediateStep \/ DaemonStep \/ ReadFails \/ Interrupted \/ HungUp \/ Done

Spec == Init /\ [][Next]_vars

\* The three processes are scheduled.
FairSpec ==
    Spec /\ WF_vars(LauncherStep) /\ WF_vars(IntermediateStep) /\ WF_vars(DaemonStep)

-----------------------------------------------------------------------------
(* Properties.                                                             *)

\* The shell sees a clean exit only when a daemon is on its own: in another
\* session, deaf to SIGHUP, off the terminal's input and output.
SuccessMeansDetached ==
    pc[Launcher] = "exit0" =>
        /\ pc[Daemon] \in {"stderr", "ok"}
        /\ session = Intermediate /\ hupIgnored /\ {"stdin", "stdout"} \subseteq nulled

\* A failure the launcher reports leaves no daemon behind, unless its own
\* read of the pipe failed.
FailureIsTheDaemons ==
    /\ pc[Launcher] # "err" /\ pc'[Launcher] = "err"
    /\ (pipe = <<>> /\ writers = {}) \/ pc[Launcher] = "rest"
    => pc[Daemon] \notin {"stderr", "ok"}

FailureMeansNoDaemon == [][FailureIsTheDaemons]_vars

\* The launcher never hangs on the pipe, whatever fails on the other side.
LauncherIsOver == pc[Launcher] \in Over

LauncherReturns == <>LauncherIsOver
=============================================================================
