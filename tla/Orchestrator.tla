---------------------------- MODULE Orchestrator ----------------------------
(***************************************************************************)
(* The orchestrator loop (orchestrator/mod.rs), the intake task it starts  *)
(* (orchestrator/intake.rs) and the event channel between them (event.rs), *)
(* over the contract of the stage-session manager (ManagerContract).       *)
(*                                                                         *)
(* The loop polls shutdown, the channel and the manager in this order; the *)
(* polls are steps of their own, since the token may be cancelled and      *)
(* events may arrive between them.  The pull command is seen as a child    *)
(* that exits, is killed at its timeout, or is cancelled, and its output   *)
(* ends once nobody holds it (ShellCommand has it in full).  The manager   *)
(* always holds a sender of its own channel, so sessions.recv() is never   *)
(* None.  Operators named Mut_... are seeded faults; no action uses them.  *)
(***************************************************************************)
EXTENDS Naturals, Sequences, FiniteSets

CONSTANTS
    Issues,         \* issue ids
    Stages,         \* stage names
    Batches,        \* what a pull may return: sequences of [id, version]
    MaxIterations,  \* loop.max_iterations (None is a bound never reached)
    EventCapacity,  \* EVENT_BUFFER
    IntakeMayDie    \* bound: whether the intake task may panic

ASSUME IterationsAssumption == MaxIterations \in Nat
ASSUME EventCapacityAssumption == EventCapacity \in Nat \ {0}
ASSUME IntakeMayDieAssumption == IntakeMayDie \in BOOLEAN
ASSUME BatchesAssumption ==
    \A b \in Batches : Len(b) \in Nat /\ \A j \in 1 .. Len(b) : b[j].id \in Issues

VARIABLES
    shutdown,       \* the token of the daemon
    intake,         \* where the intake task is
    iterations,     \* cycles begun
    batch,          \* the issues of the last pull
    pos,            \* how many of them have been looked at
    seen,           \* the ids among them
    emitted,        \* history: the issues sent in this cycle
    child,          \* the pull command
    killed,         \* it was cancelled
    queue,          \* the event channel
    loop,           \* where the orchestrator loop is
    intakeStopped,
    intakeClosed,
    active,         \* the keys of the manager
    cancelled,      \* cancel_all was called
    ready,          \* the keys whose last event waits in the manager's channel
    runtime,        \* the daemon process lives
    afterShutdown   \* history: events the loop took after the token

pullVars   == <<iterations, batch, pos, seen, emitted>>
childVars  == <<child, killed>>
intakeVars == <<intake, pullVars, childVars>>
mgrVars    == <<active, cancelled, ready>>
loopVars   == <<loop, intakeStopped, intakeClosed>>
vars == <<shutdown, intakeVars, queue, loopVars, mgrVars, runtime, afterShutdown>>

Key     == [issue : Issues, stage : Stages]
Manager == INSTANCE ManagerContract

Returned == {"ok", "error"}

\* event.rs: IntakeEvent.
Pulled == UNION {{b[j] : j \in 1 .. Len(b)} : b \in Batches}
Event  == [type : {"Failed", "Stopped"}] \cup [type : {"Issue"}, issue : Pulled]

TypeOK ==
    /\ shutdown \in BOOLEAN
    /\ intake \in {"render", "check", "pulling", "cancelling", "emitting", "failing",
                   "idle", "stopping", "broken", "ended", "died", "dropped"}
    /\ iterations \in 0 .. MaxIterations
    /\ batch \in Batches \cup {<<>>}
    /\ pos \in 0 .. Len(batch)
    /\ seen \subseteq Issues
    /\ child \in {"none", "alive", "gone"}
    /\ killed \in BOOLEAN
    /\ queue \in Seq(Event) /\ Len(queue) <= EventCapacity
    /\ loop \in {"top", "shutdown?", "intake?", "sessions?", "cancelled"} \cup Returned
    /\ intakeStopped \in BOOLEAN /\ intakeClosed \in BOOLEAN
    /\ active \subseteq Key /\ ready \subseteq active
    /\ cancelled \in BOOLEAN /\ runtime \in BOOLEAN
    /\ afterShutdown \in Nat

Init ==
    /\ shutdown = FALSE
    /\ intake = "render"
    /\ iterations = 0 /\ batch = <<>> /\ pos = 0 /\ seen = {} /\ emitted = <<>>
    /\ child = "none" /\ killed = FALSE
    /\ queue = <<>>
    /\ loop = "top" /\ intakeStopped = FALSE /\ intakeClosed = FALSE
    /\ Manager!Init /\ ready = {}
    /\ runtime = TRUE
    /\ afterShutdown = 0

-----------------------------------------------------------------------------
(* The intake task.                                                        *)

\* EventProducer::send waits for room, and gives up once the receiver is gone.
Send(event) ==
    IF loop \in Returned
    THEN UNCHANGED queue
    ELSE Len(queue) < EventCapacity /\ queue' = Append(queue, event)

Go(from, to) == intake = from /\ intake' = to

outside == <<shutdown, loopVars, mgrVars, runtime, afterShutdown>>

Render ==
    /\ Go("render", "check") \/ Go("render", "broken")
    /\ UNCHANGED <<pullVars, childVars, queue, outside>>

\* The pull command does not render: Failed, and no Stopped after it.
ReportBroken ==
    /\ Go("broken", "ended")
    /\ Send([type |-> "Failed"])
    /\ UNCHANGED <<pullVars, childVars, outside>>

Check ==
    /\ intake = "check"
    /\ IF shutdown \/ iterations >= MaxIterations
       THEN intake' = "stopping" /\ UNCHANGED <<iterations, childVars>>
       ELSE /\ iterations' = iterations + 1
            /\ \/ intake' = "pulling" /\ child' = "alive" /\ killed' = FALSE
               \/ intake' = "failing" /\ UNCHANGED childVars  \* spawn error
    /\ UNCHANGED <<batch, pos, seen, emitted, queue, outside>>

\* The command's shell exits; its descendants may hold the output.
PullExits ==
    /\ intake = "pulling"
    /\ child = "alive"
    /\ child' = "gone"
    /\ UNCHANGED <<intake, pullVars, killed, queue, outside>>

\* PULL_COMMAND_TIMEOUT: the shell is killed, and nobody waits for its output.
PullTimesOut ==
    /\ child = "alive"
    /\ Go("pulling", "failing")
    /\ child' = "gone"
    /\ UNCHANGED <<pullVars, killed, queue, outside>>

\* The output ends after the exit: issues, or a bad status or output.
PullEnds ==
    /\ intake = "pulling"
    /\ child = "gone"
    /\ \/ /\ intake' = "emitting"
          /\ batch' \in Batches
          /\ pos' = 0 /\ seen' = {} /\ emitted' = <<>>
       \/ /\ intake' = "failing"
          /\ UNCHANGED <<batch, pos, seen, emitted>>
    /\ UNCHANGED <<iterations, childVars, queue, outside>>

Mut_PullCancelledAtOnce ==
    /\ shutdown
    /\ Go("pulling", "stopping")
    /\ killed' = TRUE
    /\ UNCHANGED <<pullVars, child, queue, outside>>

\* child.cancel(), then wait for the child.
PullCancelled ==
    /\ shutdown
    /\ Go("pulling", "cancelling")
    /\ killed' = TRUE
    /\ UNCHANGED <<pullVars, child, queue, outside>>

\* run_once returns Cancelled, and the loop is left.
CancelledPullReaped ==
    /\ child = "gone"
    /\ Go("cancelling", "stopping")
    /\ UNCHANGED <<pullVars, childVars, queue, outside>>

\* run_once: the first issue of an id wins.
Emit ==
    /\ intake = "emitting"
    /\ pos < Len(batch)
    /\ LET issue == batch[pos + 1] IN
        IF issue.id \in seen
        THEN UNCHANGED <<seen, emitted, queue>>
        ELSE /\ seen' = seen \cup {issue.id}
             /\ emitted' = Append(emitted, issue)
             /\ Send([type |-> "Issue", issue |-> issue])
    /\ pos' = pos + 1
    /\ UNCHANGED <<intake, iterations, batch, childVars, outside>>

EmitEnds ==
    /\ pos = Len(batch)
    /\ Go("emitting", "idle")
    /\ UNCHANGED <<pullVars, childVars, queue, outside>>

ReportFailed ==
    /\ Go("failing", "idle")
    /\ Send([type |-> "Failed"])
    /\ UNCHANGED <<pullVars, childVars, outside>>

\* sleep(idle_sec) against the token.
Idle ==
    /\ Go("idle", "check") \/ (shutdown /\ Go("idle", "stopping"))
    /\ UNCHANGED <<pullVars, childVars, queue, outside>>

Stop ==
    /\ Go("stopping", "ended")
    /\ Send([type |-> "Stopped"])
    /\ UNCHANGED <<pullVars, childVars, outside>>

Ended == {"ended", "died", "dropped"}

\* The task panics; the other end of the channel sees it closed.
IntakeDies ==
    /\ IntakeMayDie
    /\ intake \notin Ended
    /\ intake' = "died"
    /\ UNCHANGED <<pullVars, childVars, queue, outside>>

\* wait_for_child kills a cancelled child while there is a runtime.
KillPull ==
    /\ runtime /\ killed
    /\ child = "alive"
    /\ child' = "gone"
    /\ UNCHANGED <<intake, pullVars, killed, queue, outside>>

-----------------------------------------------------------------------------
(* The orchestrator loop.                                                  *)

Counted == afterShutdown' = afterShutdown + (IF shutdown THEN 1 ELSE 0)

Mut_ReturnWhenStopped ==
    /\ loop = "top"
    /\ loop' = IF intakeStopped THEN "ok" ELSE "shutdown?"
    /\ UNCHANGED <<shutdown, intakeVars, queue, intakeStopped, intakeClosed, mgrVars, runtime, afterShutdown>>

Mut_TopPollsIntakeFirst ==
    /\ loop = "top"
    /\ loop' = IF intakeStopped /\ active = {} THEN "ok" ELSE "intake?"
    /\ UNCHANGED <<shutdown, intakeVars, queue, intakeStopped, intakeClosed, mgrVars, runtime, afterShutdown>>

Top ==
    /\ loop = "top"
    /\ loop' = IF intakeStopped /\ active = {} THEN "ok" ELSE "shutdown?"
    /\ UNCHANGED <<shutdown, intakeVars, queue, intakeStopped, intakeClosed, mgrVars, runtime, afterShutdown>>

Mut_CancelThenDrain ==
    /\ loop = "shutdown?"
    /\ loop' = "intake?"
    /\ IF shutdown /\ ~cancelled THEN Manager!CancelAll ELSE UNCHANGED <<active, cancelled>>
    /\ UNCHANGED <<shutdown, intakeVars, queue, intakeStopped, intakeClosed, ready, runtime, afterShutdown>>

PollShutdown ==
    /\ loop = "shutdown?"
    /\ IF shutdown
       THEN loop' = "cancelled" /\ Manager!CancelAll
       ELSE loop' = "intake?" /\ UNCHANGED <<active, cancelled>>
    /\ UNCHANGED <<shutdown, intakeVars, queue, intakeStopped, intakeClosed, ready, runtime, afterShutdown>>

\* The shutdown branch after cancel_all: intake is aborted where it awaits.
AbortIntake ==
    /\ loop = "cancelled"
    /\ loop' = "ok"
    /\ intake' = IF intake \in Ended THEN intake ELSE "dropped"
    /\ UNCHANGED <<shutdown, pullVars, childVars, queue, intakeStopped, intakeClosed, mgrVars,
                   runtime, afterShutdown>>

\* handle_event: the manager takes an issue and reserves what it will of it.
HandleEvent ==
    /\ loop = "intake?"
    /\ queue # <<>>
    /\ queue' = Tail(queue)
    /\ loop' = "top"
    /\ LET event == Head(queue) IN
        /\ intakeStopped' = (intakeStopped \/ event.type = "Stopped")
        /\ IF event.type = "Issue"
           THEN \E K \in SUBSET [issue : {event.issue.id}, stage : Stages] : Manager!Accept(K)
           ELSE UNCHANGED <<active, cancelled>>
    /\ Counted
    /\ UNCHANGED <<shutdown, intakeVars, intakeClosed, ready, runtime>>

Mut_ChannelClosedIgnored ==
    /\ loop = "intake?"
    /\ ~intakeClosed /\ queue = <<>> /\ intake \in Ended
    /\ intakeClosed' = TRUE
    /\ loop' = "top"
    /\ UNCHANGED <<shutdown, intakeVars, queue, intakeStopped, mgrVars, runtime, afterShutdown>>

\* recv() is None: every event is taken and the producer is gone.
ChannelClosed ==
    /\ loop = "intake?"
    /\ ~intakeClosed /\ queue = <<>> /\ intake \in Ended
    /\ intakeClosed' = TRUE
    /\ loop' = CASE active = {} -> "ok" [] active # {} /\ ~intakeStopped -> "error" [] OTHER -> "top"
    /\ UNCHANGED <<shutdown, intakeVars, queue, intakeStopped, mgrVars, runtime, afterShutdown>>

NoEvent ==
    /\ loop = "intake?"
    /\ queue = <<>>
    /\ intakeClosed \/ intake \notin Ended
    /\ loop' = "sessions?"
    /\ UNCHANGED <<shutdown, intakeVars, queue, intakeStopped, intakeClosed, mgrVars, runtime, afterShutdown>>

\* sessions.recv(): an event that releases keys (all others leave the
\* contract as it is).
HandleSession ==
    /\ loop = "sessions?"
    /\ \E K \in (SUBSET ready) \ {{}} : Manager!Release(K) /\ ready' = ready \ K
    /\ loop' = "top"
    /\ Counted
    /\ UNCHANGED <<shutdown, intakeVars, queue, intakeStopped, intakeClosed, runtime>>

\* Nothing was ready; the select is polled again, from the top, once the
\* token or the channel wakes it.
Wake ==
    /\ loop = "sessions?"
    /\ ready = {}
    /\ shutdown \/ (~intakeClosed /\ (queue # <<>> \/ intake \in Ended))
    /\ loop' = "shutdown?"
    /\ UNCHANGED <<shutdown, intakeVars, queue, intakeStopped, intakeClosed, mgrVars, runtime, afterShutdown>>

-----------------------------------------------------------------------------
(* The stages, the operator, and the end of the daemon.                    *)

StageEnds(k) ==
    /\ k \in active \ ready
    /\ ready' = ready \cup {k}
    /\ UNCHANGED <<shutdown, intakeVars, queue, loopVars, active, cancelled, runtime, afterShutdown>>

ShutDown ==
    /\ ~shutdown
    /\ shutdown' = TRUE
    /\ UNCHANGED <<intakeVars, queue, loopVars, mgrVars, runtime, afterShutdown>>

\* run_inner drops the runtime after run() has returned.
RuntimeDropped ==
    /\ loop \in Returned /\ runtime
    /\ runtime' = FALSE
    /\ intake' = IF intake \in Ended THEN intake ELSE "dropped"
    /\ UNCHANGED <<shutdown, pullVars, childVars, queue, loopVars, mgrVars, afterShutdown>>

-----------------------------------------------------------------------------

\* What the intake task does by itself or by a timeout.
Timely ==
    \/ Render \/ ReportBroken \/ Check \/ PullTimesOut \/ PullCancelled \/ CancelledPullReaped
    \/ Emit \/ EmitEnds \/ ReportFailed \/ Idle \/ Stop

Intake == Timely \/ PullExits \/ PullEnds

Loop ==
    \/ Top \/ PollShutdown \/ AbortIntake \/ HandleEvent \/ ChannelClosed \/ NoEvent
    \/ HandleSession \/ Wake

Done == ~runtime /\ UNCHANGED vars

Next ==
    \/ Intake \/ IntakeDies \/ KillPull
    \/ Loop
    \/ \E k \in Key : StageEnds(k)
    \/ ShutDown \/ RuntimeDropped \/ Done

Spec == Init /\ [][Next]_vars

\* Both tasks are polled, and the timeout of the pull command ends its shell.
\* Nothing is assumed of the end of its output, which a descendant may hold,
\* of the stages, of shutdown or of a panic.
Fairness ==
    /\ WF_vars(Timely)
    /\ WF_vars(Loop)
    /\ WF_vars(KillPull)

FairSpec == Spec /\ Fairness

-----------------------------------------------------------------------------
(* Properties.                                                             *)

\* Without shutdown the daemon goes away only when intake is over, each of
\* its events was handled and every stage is drained, however intake ended.
ReturnsDrained ==
    loop = "ok" /\ ~shutdown => intake \in Ended /\ queue = <<>> /\ active = {}

\* The error is kept for an intake that broke off while stages were active:
\* a template that does not render ends the daemon without one.
ErrorMeansBrokenOff ==
    loop = "error" => intake = "died" /\ active # {} /\ ~intakeStopped

\* Of equal ids in one pull exactly the first is passed on, in pull order.
FirstIssueWins ==
    LET First == {j \in 1 .. pos : \A i \in 1 .. j - 1 : batch[i].id # batch[j].id}
    IN  intake \in {"emitting", "idle"} =>
            /\ Len(emitted) = Cardinality(First)
            /\ \A j \in First : emitted[Cardinality(First \cap 1 .. j)] = batch[j]

\* When intake says Stopped no pull command is running.
StoppedMeansNoPull ==
    intakeStopped \/ [type |-> "Stopped"] \in {queue[j] : j \in DOMAIN queue} => child # "alive"

\* Shutdown is not starved by a full channel or a busy manager: the loop
\* takes at most the one event it was polling for.
ShutdownComesFirst == afterShutdown <= 1

\* Only others can keep a bounded loop from its end: the output of a pull
\* whose shell has exited is held for ever, or a stage never ends.  No way to
\* end intake is overlooked, and what ends is drained.
BoundedLoopReturns ==
    <>(\/ loop \in Returned
       \/ [](intake = "pulling" /\ child = "gone")
       \/ \E k \in Key : [](k \in active \ ready))

\* Shutdown ends the loop at once, and intake with it.
ShutdownReturns == shutdown ~> (loop \in Returned /\ intake \in Ended)

Idling == active = {} /\ \A j \in DOMAIN queue : queue[j].type # "Issue"

\* Where the word Stopped is, and what may still come before it.  (Inductive;
\* with TypeOK it implies ReturnsDrained, ErrorMeansBrokenOff and
\* StoppedMeansNoPull.)
OrchInv ==
    /\ child = "alive" => intake \in {"pulling", "cancelling", "died", "dropped"}
    /\ intakeStopped => intake = "ended" /\ queue = <<>>
    /\ \A j \in DOMAIN queue : queue[j].type = "Stopped" => intake = "ended" /\ j = Len(queue)
    /\ intake \in {"render", "broken"} => Idling
    /\ intake = "ended" /\ loop \notin Returned =>
         intakeStopped \/ Idling \/ \E j \in DOMAIN queue : queue[j].type = "Stopped"
    /\ loop \notin Returned => runtime /\ intake # "dropped"
    /\ intakeClosed => queue = <<>> /\ intake \in Ended
    /\ loop = "cancelled" => shutdown
    /\ ReturnsDrained
    /\ ErrorMeansBrokenOff
=============================================================================
