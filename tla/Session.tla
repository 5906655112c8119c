------------------------------- MODULE Session -------------------------------
(***************************************************************************)
(* One session task (session/mod.rs) with the agent process it spawns and  *)
(* the background task that waits for that process (command_ext.rs).       *)
(*                                                                         *)
(* The task prepares, spawns the agent, writes the prompt to its stdin,    *)
(* follows its stdout until end of file, and then waits for its exit.      *)
(* Three things end independently of each other: the agent process, its    *)
(* pipes (which a descendant of the agent may keep open) and the session.  *)
(* The shutdown token may be cancelled between any two steps, and the      *)
(* daemon process may end, which drops both tasks where they are.          *)
(* Operators named Mut_... are seeded faults; no action uses them.         *)
(*                                                                         *)
(* A line of output is what the adapter makes of it: "progress" (events    *)
(* that change no state), "completed", "failed" (an error event, or a line *)
(* that is not JSON) or "unreadable" (not UTF-8: the reader fails).        *)
(* The state channel holds eight states and a session sends at most three, *)
(* so no send waits.  The Snapshot command has no sender in the program.   *)
(***************************************************************************)
EXTENDS Naturals, Sequences

CONSTANTS
    MaxLines,       \* bound: lines written to stdout in one behaviour
    PipeCapacity,   \* lines the stdout pipe holds before a write blocks
    Descendants     \* whether an agent may leave a process that holds its pipes

ASSUME MaxLinesAssumption == MaxLines \in Nat
ASSUME PipeCapacityAssumption == PipeCapacity \in Nat \ {0}
ASSUME DescendantsAssumption == Descendants \in BOOLEAN

VARIABLES
    pc,         \* where the session task is
    state,      \* snapshot.state, sent over the state channel at each change
    ran,        \* history: Running was sent
    shutdown,   \* the shutdown token the session was given
    cancel,     \* the Cancel command
    killed,     \* child.cancel() was called
    child,      \* the agent process
    stdin,      \* the prompt on its way to the agent
    heir,       \* a descendant of the agent holds the read end of stdin
    waiter,     \* wait_for_child
    output,     \* every line written to the agent's stdout
    read,       \* how many of them the session has read
    holders     \* the processes that hold the write end of stdout

taskVars  == <<pc, state, ran, cancel, killed, read>>
agentVars == <<child, stdin, heir, waiter, output, holders>>
vars == <<taskVars, agentVars, shutdown>>

-----------------------------------------------------------------------------

PC       == {"init", "preparing", "writing", "spawned", "streaming", "waiting",
             "ended", "dropped"}
Terminal == {"Completed", "Failed", "Cancelled"}
Line     == {"progress", "completed", "failed", "unreadable"}
Reaped   == {"exited", "timeout", "cancelled"}

TypeOK ==
    /\ pc \in PC
    /\ state \in {"UnStarted", "Preparing", "Running"} \cup Terminal
    /\ ran \in BOOLEAN
    /\ shutdown \in BOOLEAN
    /\ cancel \in {"unsent", "queued", "taken"}
    /\ killed \in BOOLEAN
    /\ child \in {"none", "alive", "dead"}
    /\ stdin \in {"none", "buffered", "unread", "read", "closed"}
    /\ heir \in BOOLEAN
    /\ waiter \in {"none", "pending", "dropped"} \cup Reaped
    /\ output \in Seq(Line)
    /\ read \in 0 .. Len(output)
    /\ holders \subseteq {"child", "heir"}

\* Session::spawn.  The token it is given may be cancelled already.
Init ==
    /\ pc = "init"
    /\ state = "UnStarted"
    /\ ran = FALSE
    /\ shutdown \in BOOLEAN
    /\ cancel = "unsent"
    /\ killed = FALSE
    /\ child = "none"
    /\ stdin = "none"
    /\ heir = FALSE
    /\ waiter = "none"
    /\ output = <<>>
    /\ read = 0
    /\ holders = {}

-----------------------------------------------------------------------------
(* The session task.                                                       *)

\* set_state: a terminal state is never replaced.
SetState(s) == state' = IF state \in Terminal THEN state ELSE s

Go(from, to) == pc = from /\ pc' = to

\* The last thing a session does: its channels are dropped with it.
EndWith(s) == pc' = "ended" /\ SetState(s)

Prepare ==
    /\ Go("init", "preparing")
    /\ SetState("Preparing")
    /\ UNCHANGED <<ran, cancel, killed, read, agentVars, shutdown>>

\* The log file, the template, a prompt command or the spawn fails.
PrepareFails ==
    /\ pc = "preparing"
    /\ EndWith("Failed")
    /\ UNCHANGED <<ran, cancel, killed, read, agentVars, shutdown>>

CancelBeforeSpawn ==
    /\ pc = "preparing"
    /\ shutdown
    /\ EndWith("Cancelled")
    /\ UNCHANGED <<ran, cancel, killed, read, agentVars, shutdown>>

\* A short prompt fits into the stdin pipe, a long one must be read.
SpawnChild ==
    /\ Go("preparing", "writing")
    /\ ~shutdown
    /\ child' = "alive"
    /\ stdin' \in {"buffered", "unread"}
    /\ waiter' = "pending"
    /\ holders' = {"child"}
    /\ UNCHANGED <<state, ran, cancel, killed, read, heir, output, shutdown>>

Readable == heir \/ (child = "alive" /\ stdin # "closed")

\* The session does not read stdout while it writes: an agent that fills its
\* stdout before it reads a long prompt is stuck, and the session with it.
WritePrompt ==
    /\ Go("writing", "spawned")
    /\ stdin = "read" \/ (stdin = "buffered" /\ Readable)
    /\ UNCHANGED <<state, ran, cancel, killed, read, agentVars, shutdown>>

\* A pipe that nobody reads is broken, which ends the session; the agent is
\* neither cancelled nor waited for.  A descendant that has the read end keeps
\* the pipe whole, and the write waiting, though the agent is gone.
WritePromptFails ==
    /\ pc = "writing"
    /\ stdin # "read" /\ ~Readable
    /\ EndWith("Failed")
    /\ UNCHANGED <<ran, cancel, killed, read, agentVars, shutdown>>

Mut_CancelForgetsChild ==
    /\ pc \in {"writing", "spawned"}
    /\ shutdown
    /\ EndWith("Cancelled")
    /\ UNCHANGED <<ran, cancel, killed, read, agentVars, shutdown>>

\* The shutdown branch of the write, and the check after it.
CancelBeforeRunning ==
    /\ pc \in {"writing", "spawned"}
    /\ shutdown
    /\ killed' = TRUE
    /\ EndWith("Cancelled")
    /\ UNCHANGED <<ran, cancel, read, agentVars, shutdown>>

StartRunning ==
    /\ Go("spawned", "streaming")
    /\ ~shutdown
    /\ SetState("Running")
    /\ ran' = TRUE
    /\ UNCHANGED <<cancel, killed, read, agentVars, shutdown>>

\* The loop over stdout is left and wait_child entered, which looks at the
\* token before it waits.
StopReading(s) ==
    /\ Go("streaming", "waiting")
    /\ SetState(s)
    /\ killed' = (killed \/ shutdown)

Mut_StreamShutdownOnlyRunning ==
    /\ shutdown
    /\ state = "Running"
    /\ StopReading("Cancelled")
    /\ UNCHANGED <<ran, cancel, read, agentVars, shutdown>>

StreamShutdown ==
    /\ shutdown
    /\ StopReading("Cancelled")
    /\ UNCHANGED <<ran, cancel, read, agentVars, shutdown>>

StreamCancel ==
    /\ cancel = "queued"
    /\ cancel' = "taken"
    /\ Go("streaming", "waiting")
    /\ SetState("Cancelled")
    /\ killed' = TRUE
    /\ UNCHANGED <<ran, read, agentVars, shutdown>>

\* Lines after the terminal event are read and dropped: the loop goes on to
\* the end of the output.
ReadLine ==
    /\ pc = "streaming"
    /\ read < Len(output)
    /\ LET line == output[read + 1] IN
        CASE line = "unreadable" -> StopReading("Failed")
          [] line = "completed"  -> SetState("Completed") /\ UNCHANGED <<pc, killed>>
          [] line = "failed"     -> SetState("Failed") /\ UNCHANGED <<pc, killed>>
          [] line = "progress"   -> UNCHANGED <<pc, state, killed>>
    /\ read' = read + 1
    /\ UNCHANGED <<ran, cancel, agentVars, shutdown>>

Mut_EofWhenChildExits ==
    /\ child = "dead"
    /\ StopReading("Failed")
    /\ UNCHANGED <<ran, cancel, read, agentVars, shutdown>>

Mut_EofOnlyAfterVerdict ==
    /\ read = Len(output)
    /\ holders = {}
    /\ state \in Terminal
    /\ StopReading("Failed")
    /\ UNCHANGED <<ran, cancel, read, agentVars, shutdown>>

\* End of file: every line is read and nobody holds the write end.  Output
\* that ends without a terminal event is a failure.
ReadEof ==
    /\ read = Len(output)
    /\ holders = {}
    /\ StopReading("Failed")
    /\ UNCHANGED <<ran, cancel, read, agentVars, shutdown>>

\* The Cancel command or the token while waiting: the agent is killed, the
\* state stays.
WaitCancel ==
    /\ pc = "waiting"
    /\ \/ cancel = "queued" /\ cancel' = "taken"
       \/ shutdown /\ ~killed /\ UNCHANGED cancel
    /\ killed' = TRUE
    /\ SetState("Cancelled")
    /\ UNCHANGED <<pc, ran, read, agentVars, shutdown>>

Mut_WaitChildSkipsReaping ==
    /\ Go("waiting", "ended")
    /\ killed \/ waiter \in Reaped
    /\ UNCHANGED <<state, ran, cancel, killed, read, agentVars, shutdown>>

\* child.wait() returns: a bad exit status makes a session Failed that has no
\* terminal state yet.
WaitChild ==
    /\ Go("waiting", "ended")
    /\ waiter \in Reaped
    /\ \/ waiter = "exited" /\ UNCHANGED state
       \/ SetState("Failed")
    /\ UNCHANGED <<ran, cancel, killed, read, agentVars, shutdown>>

-----------------------------------------------------------------------------
(* wait_for_child, a task of its own that outlives the session: the exit   *)
(* of the agent, its timeout and its cancellation race.                    *)

ChildGone ==
    /\ child' = "dead"
    /\ holders' = holders \ {"child"}

ReapExited ==
    /\ waiter = "pending"
    /\ child = "dead"
    /\ waiter' = "exited"
    /\ UNCHANGED <<taskVars, child, stdin, heir, output, holders, shutdown>>

Mut_TimeoutWithoutKill ==
    /\ waiter = "pending"
    /\ waiter' = "timeout"
    /\ UNCHANGED <<taskVars, child, stdin, heir, output, holders, shutdown>>

\* The hour is over: kill() also waits for the process to be gone.
ReapTimeout ==
    /\ waiter = "pending"
    /\ waiter' = "timeout"
    /\ ChildGone
    /\ UNCHANGED <<taskVars, stdin, heir, output, shutdown>>

ReapCancelled ==
    /\ waiter = "pending"
    /\ killed
    /\ waiter' = "cancelled"
    /\ ChildGone
    /\ UNCHANGED <<taskVars, stdin, heir, output, shutdown>>

-----------------------------------------------------------------------------
(* The agent process, which may do anything a process may.                 *)

\* The session reads stdout or is going to.
Listening == pc \in {"writing", "spawned", "streaming"}

WriteLine ==
    /\ holders # {}
    /\ Listening
    /\ Len(output) < MaxLines
    /\ Len(output) - read < PipeCapacity
    /\ \E line \in Line : output' = Append(output, line)
    /\ UNCHANGED <<taskVars, child, stdin, heir, waiter, holders, shutdown>>

ReadOrCloseStdin ==
    /\ child = "alive"
    /\ stdin \in {"buffered", "unread"}
    /\ stdin' \in {"read", "closed"}
    /\ UNCHANGED <<taskVars, child, heir, waiter, output, holders, shutdown>>

\* A descendant inherits the read end, may read the prompt, and lets go of it.
HeirOfStdin ==
    /\ Descendants
    /\ \/ /\ child = "alive" /\ stdin \in {"buffered", "unread"}
          /\ heir' = TRUE
          /\ UNCHANGED stdin
       \/ /\ heir
          /\ stdin' = "read"
          /\ UNCHANGED heir
       \/ /\ heir
          /\ heir' = FALSE
          /\ UNCHANGED stdin
    /\ UNCHANGED <<taskVars, child, waiter, output, holders, shutdown>>

CloseStdout ==
    /\ child = "alive" /\ "child" \in holders
    /\ holders' = holders \ {"child"}
    /\ UNCHANGED <<taskVars, child, stdin, heir, waiter, output, shutdown>>

Fork ==
    /\ Descendants
    /\ child = "alive" /\ "child" \in holders
    /\ holders' = holders \cup {"heir"}
    /\ UNCHANGED <<taskVars, child, stdin, heir, waiter, output, shutdown>>

HeirExits ==
    /\ "heir" \in holders
    /\ holders' = holders \ {"heir"}
    /\ UNCHANGED <<taskVars, child, stdin, heir, waiter, output, shutdown>>

ChildExits ==
    /\ child = "alive"
    /\ ChildGone
    /\ UNCHANGED <<taskVars, stdin, heir, waiter, output, shutdown>>

-----------------------------------------------------------------------------
(* cancel_all: the token first, then one Cancel to a session that has not  *)
(* dropped its channel.                                                    *)

ShutDown ==
    /\ ~shutdown
    /\ shutdown' = TRUE
    /\ UNCHANGED <<taskVars, agentVars>>

SendCancel ==
    /\ shutdown
    /\ cancel = "unsent"
    /\ pc \notin {"ended", "dropped"}
    /\ cancel' = "queued"
    /\ UNCHANGED <<pc, state, ran, killed, read, agentVars, shutdown>>

\* The orchestrator returns right after cancel_all, or when every key is
\* drained, which a terminal state is enough for.  The daemon then ends and
\* drops the tasks that are left; no child is killed with its handle.
RuntimeDropped ==
    /\ shutdown \/ state \in Terminal
    /\ pc \notin {"ended", "dropped"} \/ waiter = "pending"
    /\ pc' = IF pc = "ended" THEN pc ELSE "dropped"
    /\ waiter' = IF waiter = "pending" THEN "dropped" ELSE waiter
    /\ UNCHANGED <<state, ran, cancel, killed, read, child, stdin, heir, output, holders, shutdown>>

-----------------------------------------------------------------------------

Task ==
    \/ Prepare \/ PrepareFails \/ CancelBeforeSpawn \/ SpawnChild
    \/ WritePrompt \/ WritePromptFails \/ CancelBeforeRunning \/ StartRunning
    \/ StreamShutdown \/ StreamCancel \/ ReadLine \/ ReadEof
    \/ WaitCancel \/ WaitChild

Waiter == ReapExited \/ ReapTimeout \/ ReapCancelled

Agent ==
    \/ WriteLine \/ ReadOrCloseStdin \/ HeirOfStdin \/ CloseStdout
    \/ Fork \/ HeirExits \/ ChildExits

\* The session is over and so is the process it spawned.
Done ==
    /\ pc \in {"ended", "dropped"}
    /\ child # "alive"
    /\ UNCHANGED vars

Next == Task \/ Waiter \/ Agent \/ ShutDown \/ SendCancel \/ RuntimeDropped \/ Done

\* The runtime, as long as there is one, runs both tasks, and the timer of
\* wait_for_child expires.
\* The agent owes nothing: it may hang, and so may its descendants.  Nor does
\* the preparation: it renders the prompt without looking at shutdown, and
\* waits for whoever holds the output of a command in it (PromptRender).
Fairness == WF_vars(Task /\ pc # "preparing") /\ WF_vars(Waiter)

Spec     == Init /\ [][Next]_vars
FairSpec == Spec /\ Fairness

-----------------------------------------------------------------------------
(* Properties.                                                             *)

\* Where the task is, what it has sent, and what its agent may be doing: a
\* session that waits or has ended has sent a terminal state, and a reaped
\* agent is gone.  (Inductive.)
SessionInv ==
    /\ TypeOK
    /\ pc = "init" => state = "UnStarted"
    /\ state = "UnStarted" => pc \in {"init", "dropped"}
    /\ pc \in {"preparing", "writing", "spawned"} => state = "Preparing"
    /\ pc = "streaming" => state \in {"Running"} \cup Terminal
    /\ pc \in {"waiting", "ended"} => state \in Terminal
    /\ pc \in {"init", "preparing"} => child = "none"
    /\ pc \in {"writing", "spawned", "streaming", "waiting"} => child # "none"
    /\ waiter = "none" <=> child = "none"
    /\ waiter \in Reaped => child = "dead"
    /\ cancel # "unsent" => shutdown

\* What the manager relies on (the session actions of StageSessions).
Contract == INSTANCE SessionContract WITH
    ended <- (pc = "ended"),
    agent <- IF child = "dead" THEN "gone" ELSE child

ImplementsContract == Contract!Spec

\* The agent's exit, its remaining output and a cancellation race; the
\* session's verdict is still the first one in the output: every line is
\* read before the end of the output counts, later verdicts and the exit
\* status change nothing, and Cancelled means that nothing was decided.
Verdicts == {j \in 1 .. read : output[j] # "progress"}

OutputDecides ==
    ran /\ pc \in {"waiting", "ended"} =>
        IF state = "Cancelled" THEN shutdown /\ Verdicts = {}
        ELSE /\ \/ shutdown \/ read = Len(output)
                \/ read > 0 /\ output[read] = "unreadable"
             /\ state = "Completed" <=>
                  \E j \in Verdicts : output[j] = "completed" /\ \A i \in Verdicts : j <= i

\* A session does not leave a running agent behind, with one exception: an
\* agent that closed its stdin before the prompt was written, and that no
\* descendant reads for, is left to the one-hour timeout of wait_for_child,
\* while its key is free again.
LeftBehindOnlyIfStdinClosed ==
    pc = "ended" /\ child = "alive" => killed \/ (stdin = "closed" /\ ~heir)

\* No agent process outlives the hour, whatever became of its session, as
\* long as the daemon runs.
AgentIsBounded == child = "alive" ~> (child = "dead" \/ waiter = "dropped")

\* Shutdown ends every session and its agent, even one that has its verdict
\* already and only waits for output that a descendant holds open, if the
\* daemon lives to see it; but not one whose prompt is never rendered.
ShutdownEndsSession ==
    shutdown ~> \/ pc = "ended" /\ child # "alive"
                \/ pc = "dropped" \/ waiter = "dropped"
                \/ [](pc = "preparing")

\* A session whose agent is gone ends, unless the daemon does, or a descendant
\* of the agent holds its output or the read end of its stdin.
AgentEndsSession ==
    child = "dead" /\ holders = {} /\ ~heir ~> pc \in {"ended", "dropped"}

\* docs/development/architecture.md: on a terminal state the session closes
\* its state channel.
TerminalClosesChannel == state \in Terminal ~> pc \in {"ended", "dropped"}

\* docs/development/architecture.md: the daemon cancels running sessions when
\* the shutdown token trips; no agent is left running when it is gone.
ShutdownCancelsAgent == shutdown /\ waiter = "dropped" => child # "alive"

=============================================================================
