---------------------------- MODULE ShellCommand ----------------------------
(***************************************************************************)
(* One shell command run with Command::output (shell/command_ext.rs): a    *)
(* hook, a prompt command or the issue pull command.                       *)
(*                                                                         *)
(* The caller joins three futures: the exit of the child, which a task of  *)
(* its own (wait_for_child) reports, and the end of each of the two output *)
(* pipes.  A descendant of the child may keep a pipe open.  Only the pull  *)
(* command is cancelled; the others are dropped with the task that runs    *)
(* them.  Operators named Mut_... are seeded faults; no action uses them.  *)
(***************************************************************************)
EXTENDS Naturals

CONSTANTS
    PipeCapacity,   \* units of output a pipe holds before a write blocks
    MaxOutput,      \* bound: units written to each pipe in one behaviour
    Descendants,    \* whether the command may leave a process with its pipes
    Cancellable     \* whether the caller is the pull command

ASSUME PipeCapacityAssumption == PipeCapacity \in Nat \ {0}
ASSUME MaxOutputAssumption == MaxOutput \in Nat
ASSUME ModeAssumption == Descendants \in BOOLEAN /\ Cancellable \in BOOLEAN

VARIABLES
    call,       \* where the caller is
    result,     \* what it got
    inner,      \* ChildInner: Running until wait() has returned once
    cancelled,  \* the child's cancellation token
    reaper,     \* wait_for_child
    child,      \* the shell
    unread,     \* [Pipe -> output in the pipe]
    taken,      \* [Pipe -> output the caller has read]
    holders     \* [Pipe -> the processes that hold its write end]

callVars == <<call, result, inner, cancelled>>
procVars == <<child, holders>>
vars == <<callVars, reaper, procVars, unread, taken>>

Pipe   == {"stdout", "stderr"}
Exit   == {"ok", "bad"}
Killed == {"timeout", "cancelled"}

TypeOK ==
    /\ call \in {"idle", "collecting", "cancelling", "returned", "dropped"}
    /\ result \in {"none", "spawn_error"} \cup Exit \cup Killed
    /\ inner \in {"running"} \cup Exit \cup Killed
    /\ cancelled \in BOOLEAN
    /\ reaper \in {"none", "pending"} \cup Exit \cup Killed
    /\ child \in {"none", "alive", "killed"} \cup Exit
    /\ unread \in [Pipe -> 0 .. PipeCapacity]
    /\ taken \in [Pipe -> 0 .. MaxOutput]
    /\ holders \in [Pipe -> SUBSET {"child", "heir"}]

Init ==
    /\ call = "idle"
    /\ result = "none"
    /\ inner = "running"
    /\ cancelled = FALSE
    /\ reaper = "none"
    /\ child = "none"
    /\ unread = [p \in Pipe |-> 0]
    /\ taken = [p \in Pipe |-> 0]
    /\ holders = [p \in Pipe |-> {}]

-----------------------------------------------------------------------------
(* The caller.                                                             *)

Return(from, r) ==
    /\ call = from
    /\ call' = "returned"
    /\ result' = r

SpawnFails ==
    /\ Return("idle", "spawn_error")
    /\ UNCHANGED <<inner, cancelled, reaper, procVars, unread, taken>>

\* Command::spawn and RunningChild::spin; both pipes are captured.
Spawn ==
    /\ call = "idle"
    /\ call' = "collecting"
    /\ reaper' = "pending"
    /\ child' = "alive"
    /\ holders' = [p \in Pipe |-> {"child"}]
    /\ UNCHANGED <<result, inner, cancelled, unread, taken>>

Mut_ReadPipeAfterExit(p) ==
    /\ call = "collecting"
    /\ inner # "running"
    /\ unread[p] > 0
    /\ unread' = [unread EXCEPT ![p] = @ - 1]
    /\ taken' = [taken EXCEPT ![p] = @ + 1]
    /\ UNCHANGED <<callVars, reaper, procVars>>

\* read_to_end of one pipe, while the others go on.
ReadPipe(p) ==
    /\ call = "collecting"
    /\ unread[p] > 0
    /\ unread' = [unread EXCEPT ![p] = @ - 1]
    /\ taken' = [taken EXCEPT ![p] = @ + 1]
    /\ UNCHANGED <<callVars, reaper, procVars>>

\* Child::wait has its answer and remembers it.
WaitReturns ==
    /\ call = "collecting"
    /\ inner = "running"
    /\ reaper \notin {"none", "pending"}
    /\ inner' = reaper
    /\ UNCHANGED <<call, result, cancelled, reaper, procVars, unread, taken>>

AtEof(p) == unread[p] = 0 /\ holders[p] = {}

Mut_CollectedAtExit ==
    /\ inner \in Exit
    /\ Return("collecting", inner)
    /\ UNCHANGED <<inner, cancelled, reaper, procVars, unread, taken>>

Collected ==
    /\ inner \in Exit
    /\ \A p \in Pipe : AtEof(p)
    /\ Return("collecting", inner)
    /\ UNCHANGED <<inner, cancelled, reaper, procVars, unread, taken>>

\* try_join3 gives up at the first error, whatever the pipes do.
WaitFails ==
    /\ inner \in Killed
    /\ Return("collecting", inner)
    /\ UNCHANGED <<inner, cancelled, reaper, procVars, unread, taken>>

\* The shutdown branch of run_pull_command drops wait_with_output and with it
\* the read ends of the pipes.
Cancel ==
    /\ Cancellable
    /\ call = "collecting"
    /\ call' = "cancelling"
    /\ cancelled' = (inner = "running")
    /\ UNCHANGED <<result, inner, reaper, procVars, unread, taken>>

Mut_CancelledWithoutWait ==
    /\ Return("cancelling", "cancelled")
    /\ UNCHANGED <<inner, cancelled, reaper, procVars, unread, taken>>

\* child.wait() once more: its answer is thrown away.
CancelledAndWaited ==
    /\ inner # "running" \/ reaper \notin {"none", "pending"}
    /\ Return("cancelling", "cancelled")
    /\ UNCHANGED <<inner, cancelled, reaper, procVars, unread, taken>>

\* The task that runs the command is dropped: a preparation or a session at
\* shutdown, intake by abort.  Dropping the Child cancels nothing.
Drop ==
    /\ call \in {"collecting", "cancelling"}
    /\ call' = "dropped"
    /\ UNCHANGED <<result, inner, cancelled, reaper, procVars, unread, taken>>

-----------------------------------------------------------------------------
(* wait_for_child: an unbiased select.                                     *)

KillChild ==
    /\ child' = IF child = "alive" THEN "killed" ELSE child
    /\ holders' = [p \in Pipe |-> holders[p] \ {"child"}]

ReapExited ==
    /\ reaper = "pending"
    /\ child \in Exit
    /\ reaper' = child
    /\ UNCHANGED <<callVars, procVars, unread, taken>>

ReapTimeout ==
    /\ reaper = "pending"
    /\ reaper' = "timeout"
    /\ KillChild
    /\ UNCHANGED <<callVars, unread, taken>>

ReapCancelled ==
    /\ reaper = "pending"
    /\ cancelled
    /\ reaper' = "cancelled"
    /\ KillChild
    /\ UNCHANGED <<callVars, unread, taken>>

-----------------------------------------------------------------------------
(* The command, which may do anything a process may.                       *)

WriteOutput(p) ==
    /\ holders[p] # {}
    /\ call = "collecting"
    /\ unread[p] < PipeCapacity
    /\ unread[p] + taken[p] < MaxOutput
    /\ unread' = [unread EXCEPT ![p] = @ + 1]
    /\ UNCHANGED <<callVars, reaper, procVars, taken>>

\* The child exits by itself, with a status of its own or by a signal from
\* outside, which counts as a bad one.
ChildExits ==
    /\ child = "alive"
    /\ child' \in Exit
    /\ holders' = [p \in Pipe |-> holders[p] \ {"child"}]
    /\ UNCHANGED <<callVars, reaper, unread, taken>>

LeaveHeir ==
    /\ Descendants
    /\ child = "alive"
    /\ holders' = [p \in Pipe |-> holders[p] \cup {"heir"}]
    /\ UNCHANGED <<callVars, reaper, child, unread, taken>>

HeirExits ==
    /\ \E p \in Pipe : "heir" \in holders[p]
    /\ holders' = [p \in Pipe |-> holders[p] \ {"heir"}]
    /\ UNCHANGED <<callVars, reaper, child, unread, taken>>

-----------------------------------------------------------------------------

Caller ==
    \/ Spawn \/ SpawnFails
    \/ \E p \in Pipe : ReadPipe(p)
    \/ WaitReturns \/ Collected \/ WaitFails
    \/ CancelledAndWaited

Process == (\E p \in Pipe : WriteOutput(p)) \/ ChildExits \/ LeaveHeir \/ HeirExits

Done == call \in {"returned", "dropped"} /\ child # "alive" /\ UNCHANGED vars

Next ==
    \/ Caller \/ Cancel \/ Drop
    \/ ReapExited \/ ReapTimeout \/ ReapCancelled
    \/ Process \/ Done

Spec == Init /\ [][Next]_vars

\* The runtime polls the caller and the reaper.  Whether and when the timer
\* expires is left open here; the command owes nothing.
FairSpec ==
    /\ Spec
    /\ WF_vars(Caller)
    /\ WF_vars(ReapExited \/ ReapCancelled)

-----------------------------------------------------------------------------
(* Properties.                                                             *)

\* The exit of the shell and the end of its output arrive separately: a
\* command that succeeded has left nothing unread, also from its
\* descendants, and its status is that of the shell.
OutputIsWhole ==
    result \in Exit => child = result /\ \A p \in Pipe : AtEof(p)

\* A call that returns, by exit, timeout or cancellation, leaves no shell
\* behind; only a dropped one may.
NoShellAfterReturn == call = "returned" => child # "alive"

\* A killed shell ends the call although a descendant keeps a pipe open; one
\* that exits by itself does unless a descendant keeps one.
ReapedCallReturns ==
    (reaper \in Killed \/ (reaper \in Exit /\ \A p \in Pipe : holders[p] = {}))
        ~> call \in {"returned", "dropped"}

\* A shell that fills one pipe while the caller waits for its exit and for
\* the other pipe is never stuck: no timeout is needed to free it.
WriterIsServed ==
    \A p \in Pipe :
        unread[p] = PipeCapacity ~> (unread[p] < PipeCapacity \/ call # "collecting")

\* ... so neither side of a call waits for the other in vain.
NobodyIsStuck == ReapedCallReturns /\ WriterIsServed

\* How the child, its reaper, and what the caller knows of them agree.
\* (Inductive, and with it the two properties above.)
ShellInv ==
    /\ TypeOK
    /\ result # "none" <=> call = "returned"
    /\ call = "idle" => child = "none" /\ reaper = "none"
    /\ reaper = "none" <=> child = "none"
    /\ reaper \in Killed => child # "alive"
    /\ reaper \in Exit => child = reaper
    /\ inner # "running" => inner = reaper
    /\ child # "alive" => \A p \in Pipe : "child" \notin holders[p]
    /\ \A p \in Pipe : unread[p] + taken[p] <= MaxOutput
=============================================================================
