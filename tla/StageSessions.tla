--------------------------- MODULE StageSessions ---------------------------
(***************************************************************************)
(* The stage-session manager of the orchestrator (session_manager.rs).     *)
(* Operators named Mut_... are faults seeded to show that the properties   *)
(* can fail; no action uses them.                                          *)
(*                                                                         *)
(* An intake result (an issue in some tracker state) becomes an IssueRun:  *)
(* the manager reserves one key (issue, stage) per matching stage that is  *)
(* not already in its maps, and hands the reserved issue stages to a task  *)
(* that prepares the issue workspace.  From then on every stage is driven  *)
(* by tasks of its own (before_run hook, session, state proxy, after_run   *)
(* hook) which report to the manager over one bounded channel; only the    *)
(* manager changes the maps, one event at a time.                          *)
(*                                                                         *)
(* A Run is one IssueStage value: its key and the number of the IssueRun   *)
(* it belongs to.  The code tells two IssueStage values of one key apart   *)
(* only by their log file (a fresh UUID), and every event carries the key  *)
(* alone: the handlers below use r.key, and r.n only names the task that   *)
(* sent the event.                                                         *)
(***************************************************************************)
EXTENDS Naturals, Sequences, FiniteSets

CONSTANTS
    Issues,               \* issue ids a tracker can return
    Stages,               \* stage names of the workflow
    IssueStates,          \* tracker states
    StagesFor,            \* StagesFor[s]: the stages whose when.state is s
    MaxIssueConcurrency,  \* loop.max_issue_concurrency
    EventCapacity,        \* capacity of session_events_channel (8 in the code)
    MaxIssueRuns,         \* bound: IssueRuns dispatched in one behaviour
    MaxStageRuns,         \* bound: issue stages reserved in one behaviour
    MayShutDown           \* bound: whether cancel_all may be called

ASSUME StagesForAssumption == StagesFor \in [IssueStates -> SUBSET Stages]
ASSUME ConcurrencyAssumption == MaxIssueConcurrency \in Nat
ASSUME CapacityAssumption == EventCapacity \in Nat \ {0}
ASSUME MaxIssueRunsAssumption == MaxIssueRuns \in Nat
ASSUME MaxStageRunsAssumption == MaxStageRuns \in Nat
ASSUME MayShutDownAssumption == MayShutDown \in BOOLEAN
ASSUME StagesFiniteAssumption == IsFiniteSet(Stages)

VARIABLES
    sessions,   \* the keys that have an entry in the sessions map
    senders,    \* [Key -> run number whose command sender is saved, 0 for None]
    stages,     \* [Key -> run number of the IssueStage stored, 0 for no entry]
    finishing,  \* the keys in the finishing set
    shutdown,   \* the manager's own token: cancel_all has run
    issueRuns,  \* number of IssueRuns dispatched so far
    prepare,    \* [run number -> pc of its preparation task]
    reserved,   \* [run number -> the keys reserved for it]
    task,       \* [Run -> pc of its launch task, which ends as the state proxy]
    after,      \* [Run -> pc of its after_run task]
    state,      \* [Run -> SessionState of its session]
    unread,     \* [Run -> states sent by the session and not yet proxied]
    ended,      \* [Run -> the session task is gone and its channels closed]
    agent,      \* [Run -> the agent child process]
    cancels,    \* the Runs whose session was sent a Cancel command
    queue       \* session_events_channel

mapVars     == <<sessions, senders, stages, finishing>>
prepareVars == <<issueRuns, prepare, reserved>>
sessionVars == <<state, unread, ended, agent>>
vars == <<mapVars, shutdown, prepareVars, task, after, sessionVars, cancels, queue>>

-----------------------------------------------------------------------------

Key     == [issue : Issues, stage : Stages]
RunNo   == 1 .. MaxIssueRuns
Run     == [key : Key, n : RunNo]

Terminal     == {"Completed", "Failed", "Cancelled"}
SessionState == {"UnStarted", "Preparing", "Running"} \cup Terminal

PreparePC == {"none", "preparing", "ready", "failed", "done"}
TaskPC    == {"none", "before_run", "aborting", "spawned", "proxy", "proxied", "done"}
AfterPC   == {"none", "hook", "finishing", "done"}
AgentPC   == {"none", "alive", "gone"}

Event ==
         [type : {"Prepared", "PreparationFailed"}, runs : SUBSET Run]
    \cup [type : {"Started", "Finished"}, run : Run]
    \cup [type : {"StateUpdated"}, run : Run, state : SessionState]

Mut_SendUnbounded(e) == queue' = Append(queue, e)

Send(e) == /\ Len(queue) < EventCapacity
           /\ queue' = Append(queue, e)

TypeOK ==
    /\ sessions \subseteq Key
    /\ senders \in [Key -> 0 .. MaxIssueRuns]
    /\ stages \in [Key -> 0 .. MaxIssueRuns]
    /\ finishing \subseteq Key
    /\ shutdown \in BOOLEAN
    /\ issueRuns \in 0 .. MaxIssueRuns
    /\ prepare \in [RunNo -> PreparePC]
    /\ reserved \in [RunNo -> SUBSET Key]
    /\ task \in [Run -> TaskPC]
    /\ after \in [Run -> AfterPC]
    /\ state \in [Run -> SessionState]
    /\ unread \in [Run -> Seq(SessionState)]
    /\ ended \in [Run -> BOOLEAN]
    /\ agent \in [Run -> AgentPC]
    /\ cancels \subseteq Run
    /\ queue \in Seq(Event)
    /\ Len(queue) <= EventCapacity

Init ==
    /\ sessions = {}
    /\ senders = [k \in Key |-> 0]
    /\ stages = [k \in Key |-> 0]
    /\ finishing = {}
    /\ shutdown = FALSE
    /\ issueRuns = 0
    /\ prepare = [n \in RunNo |-> "none"]
    /\ reserved = [n \in RunNo |-> {}]
    /\ task = [r \in Run |-> "none"]
    /\ after = [r \in Run |-> "none"]
    /\ state = [r \in Run |-> "UnStarted"]
    /\ unread = [r \in Run |-> <<>>]
    /\ ended = [r \in Run |-> FALSE]
    /\ agent = [r \in Run |-> "none"]
    /\ cancels = {}
    /\ queue = <<>>

-----------------------------------------------------------------------------
(* Dispatch: try_run_issue.                                                *)

\* contains_issue and running_issue_count look at the stages map, not at
\* the sessions map.
ActiveIssues == {k.issue : k \in {k \in Key : stages[k] # 0}}

Mut_CanAcceptOneMore(i) ==
    i \in ActiveIssues \/ Cardinality(ActiveIssues) <= MaxIssueConcurrency

CanAcceptIssue(i) ==
    i \in ActiveIssues \/ Cardinality(ActiveIssues) < MaxIssueConcurrency

\* should_dispatch: the keys of the matching stages that are not active,
\* none of them when the issue cap is reached.
ShouldDispatch(i, s) ==
    IF CanAcceptIssue(i)
    THEN {k \in Key : k.issue = i /\ k.stage \in StagesFor[s]} \ sessions
    ELSE {}

\* reserve_issue_stages: its filter sees what should_dispatch saw, because
\* nothing runs between the two and the first insertion makes the issue
\* active for the others.
ReserveIssueStages(K, n) ==
    /\ sessions' = sessions \cup K
    /\ senders' = [k \in Key |-> IF k \in K THEN 0 ELSE senders[k]]
    /\ stages' = [k \in Key |-> IF k \in K THEN n ELSE stages[k]]

RunsOf(n) == {[key |-> k, n |-> n] : k \in reserved[n]}

\* An intake result that dispatches nothing leaves the manager as it was.
\* After cancel_all the orchestrator returns: it neither passes issues in
\* nor receives events again.
TryRunIssue(i, s) ==
    LET K == ShouldDispatch(i, s)
        n == issueRuns + 1
    IN  /\ ~shutdown
        /\ K # {}
        /\ n <= MaxIssueRuns
        /\ Cardinality(UNION {RunsOf(m) : m \in RunNo}) + Cardinality(K) <= MaxStageRuns
        /\ ReserveIssueStages(K, n)
        /\ issueRuns' = n
        /\ prepare' = [prepare EXCEPT ![n] = "preparing"]
        /\ reserved' = [reserved EXCEPT ![n] = K]
        /\ UNCHANGED <<finishing, shutdown, task, after, sessionVars, cancels, queue>>

\* issue_run.prepare() returns; the select is biased towards its result.
PrepareEnds(n) ==
    /\ prepare[n] = "preparing"
    /\ \E result \in {"ready", "failed"} : prepare' = [prepare EXCEPT ![n] = result]
    /\ UNCHANGED <<mapVars, shutdown, issueRuns, reserved, task, after, sessionVars, cancels, queue>>

\* The shutdown branch of the select: the task returns without an event.
PrepareDropped(n) ==
    /\ prepare[n] = "preparing"
    /\ shutdown
    /\ prepare' = [prepare EXCEPT ![n] = "done"]
    /\ UNCHANGED <<mapVars, shutdown, issueRuns, reserved, task, after, sessionVars, cancels, queue>>

Mut_PrepareReportsOnlySuccess(n) ==
    /\ prepare[n] \in {"ready", "failed"}
    /\ IF prepare[n] = "ready"
       THEN Send([type |-> "Prepared", runs |-> RunsOf(n)])
       ELSE UNCHANGED queue
    /\ prepare' = [prepare EXCEPT ![n] = "done"]
    /\ UNCHANGED <<mapVars, shutdown, issueRuns, reserved, task, after, sessionVars, cancels>>

PrepareReports(n) ==
    /\ prepare[n] \in {"ready", "failed"}
    /\ Send([type |-> IF prepare[n] = "ready" THEN "Prepared" ELSE "PreparationFailed",
             runs |-> RunsOf(n)])
    /\ prepare' = [prepare EXCEPT ![n] = "done"]
    /\ UNCHANGED <<mapVars, shutdown, issueRuns, reserved, task, after, sessionVars, cancels>>

-----------------------------------------------------------------------------
(* The launch task of a stage: before_run, spawn_stage, then the proxy.    *)

Mut_SpawnStageUnannounced(r) ==
    /\ task[r] = "before_run"
    /\ task' = [task EXCEPT ![r] = "proxy"]
    /\ UNCHANGED <<mapVars, shutdown, prepareVars, after, sessionVars, cancels, queue>>

\* before_run succeeds and the factory knows the profile: the session task
\* is spawned with its own command and state channels.
SpawnStage(r) ==
    /\ task[r] = "before_run"
    /\ task' = [task EXCEPT ![r] = "spawned"]
    /\ UNCHANGED <<mapVars, shutdown, prepareVars, after, sessionVars, cancels, queue>>

\* The before_run hook fails, or the agent profile is not defined.
LaunchFails(r) ==
    /\ task[r] = "before_run"
    /\ task' = [task EXCEPT ![r] = "aborting"]
    /\ UNCHANGED <<mapVars, shutdown, prepareVars, after, sessionVars, cancels, queue>>

Mut_AbortSilently(r) ==
    /\ task[r] = "aborting"
    /\ task' = [task EXCEPT ![r] = "done"]
    /\ UNCHANGED <<mapVars, shutdown, prepareVars, after, sessionVars, cancels, queue>>

ReportAborted(r) ==
    /\ task[r] = "aborting"
    /\ Send([type |-> "Finished", run |-> r])
    /\ task' = [task EXCEPT ![r] = "done"]
    /\ UNCHANGED <<mapVars, shutdown, prepareVars, after, sessionVars, cancels>>

ReportStarted(r) ==
    /\ task[r] = "spawned"
    /\ Send([type |-> "Started", run |-> r])
    /\ task' = [task EXCEPT ![r] = "proxy"]
    /\ UNCHANGED <<mapVars, shutdown, prepareVars, after, sessionVars, cancels>>

Mut_ProxyBesideStarted(r) ==
    /\ task[r] \in {"spawned", "proxy", "proxied"}
    /\ unread[r] # <<>>
    /\ LET s == Head(unread[r]) IN
        /\ Send([type |-> "StateUpdated", run |-> r, state |-> s])
        /\ task' = [task EXCEPT ![r] = IF s \in Terminal /\ @ # "spawned" THEN "proxied" ELSE @]
    /\ unread' = [unread EXCEPT ![r] = Tail(@)]
    /\ UNCHANGED <<mapVars, shutdown, prepareVars, after, state, ended, agent, cancels>>

\* proxy_session_state forwards every state; "proxied" is its terminal flag.
ProxyState(r) ==
    /\ task[r] \in {"proxy", "proxied"}
    /\ unread[r] # <<>>
    /\ LET s == Head(unread[r]) IN
        /\ Send([type |-> "StateUpdated", run |-> r, state |-> s])
        /\ task' = [task EXCEPT ![r] = IF s \in Terminal THEN "proxied" ELSE @]
    /\ unread' = [unread EXCEPT ![r] = Tail(@)]
    /\ UNCHANGED <<mapVars, shutdown, prepareVars, after, state, ended, agent, cancels>>

ChannelClosed(r) == ended[r] /\ unread[r] = <<>>

ProxyEnds(r) ==
    /\ task[r] = "proxied"
    /\ ChannelClosed(r)
    /\ task' = [task EXCEPT ![r] = "done"]
    /\ UNCHANGED <<mapVars, shutdown, prepareVars, after, sessionVars, cancels, queue>>

Mut_ProxyAlwaysReportsLost(r) ==
    /\ task[r] \in {"proxy", "proxied"}
    /\ ChannelClosed(r)
    /\ Send([type |-> "StateUpdated", run |-> r, state |-> "Failed"])
    /\ task' = [task EXCEPT ![r] = "done"]
    /\ UNCHANGED <<mapVars, shutdown, prepareVars, after, sessionVars, cancels>>

\* The channel closed before a terminal state: the proxy reports Failed.
ProxyReportsLost(r) ==
    /\ task[r] = "proxy"
    /\ ChannelClosed(r)
    /\ Send([type |-> "StateUpdated", run |-> r, state |-> "Failed"])
    /\ task' = [task EXCEPT ![r] = "done"]
    /\ UNCHANGED <<mapVars, shutdown, prepareVars, after, sessionVars, cancels>>

-----------------------------------------------------------------------------
(* The session task, as much of it as the manager can observe; the module  *)
(* Session has it in full.                                                 *)

SetState(r, s) ==
    /\ state' = [state EXCEPT ![r] = s]
    /\ unread' = [unread EXCEPT ![r] = Append(@, s)]

SessionPrepares(r) ==
    /\ task[r] \in {"spawned", "proxy"}
    /\ ~ended[r]
    /\ state[r] = "UnStarted"
    /\ SetState(r, "Preparing")
    /\ UNCHANGED <<mapVars, shutdown, prepareVars, task, after, ended, agent, cancels, queue>>

\* The shutdown token is read before the child is spawned, and may be
\* cancelled right after.
SessionSpawnsAgent(r) ==
    /\ state[r] = "Preparing"
    /\ ~ended[r]
    /\ agent[r] = "none"
    /\ agent' = [agent EXCEPT ![r] = "alive"]
    /\ UNCHANGED <<mapVars, shutdown, prepareVars, task, after, state, unread, ended, cancels, queue>>

\* prepare_and_spawn returns without a running child to follow: an I/O,
\* template or spawn error, a failed write of the prompt to an agent that
\* already runs, or the shutdown token.  The task ends; a spawned agent is
\* not waited for.
SessionStopsEarly(r) ==
    /\ state[r] = "Preparing"
    /\ ~ended[r]
    /\ \/ SetState(r, "Failed")
       \/ shutdown /\ SetState(r, "Cancelled")
    /\ ended' = [ended EXCEPT ![r] = TRUE]
    /\ UNCHANGED <<mapVars, shutdown, prepareVars, task, after, agent, cancels, queue>>

SessionRuns(r) ==
    /\ state[r] = "Preparing"
    /\ ~ended[r]
    /\ agent[r] # "none"
    /\ SetState(r, "Running")
    /\ UNCHANGED <<mapVars, shutdown, prepareVars, task, after, ended, agent, cancels, queue>>

\* A terminal agent event, end of the agent's output, a bad line, or a
\* cancellation.  The agent process may outlive it.
SessionTerminates(r) ==
    /\ state[r] = "Running"
    /\ ~ended[r]
    /\ \/ SetState(r, "Completed")
       \/ SetState(r, "Failed")
       \/ (shutdown \/ r \in cancels) /\ SetState(r, "Cancelled")
    /\ UNCHANGED <<mapVars, shutdown, prepareVars, task, after, ended, agent, cancels, queue>>

AgentExits(r) ==
    /\ agent[r] = "alive"
    /\ agent' = [agent EXCEPT ![r] = "gone"]
    /\ UNCHANGED <<mapVars, shutdown, prepareVars, task, after, state, unread, ended, cancels, queue>>

\* wait_child returns when the agent has exited; the task ends and drops
\* the sender of the state channel.
SessionEnds(r) ==
    /\ state[r] \in Terminal
    /\ ~ended[r]
    /\ agent[r] # "alive"
    /\ ended' = [ended EXCEPT ![r] = TRUE]
    /\ UNCHANGED <<mapVars, shutdown, prepareVars, task, after, state, unread, agent, cancels, queue>>

\* The session task panics; the proxy is written for this case.
SessionPanics(r) ==
    /\ state[r] \in {"Preparing", "Running"}
    /\ ~ended[r]
    /\ ended' = [ended EXCEPT ![r] = TRUE]
    /\ UNCHANGED <<mapVars, shutdown, prepareVars, task, after, state, unread, agent, cancels, queue>>

-----------------------------------------------------------------------------
(* The after_run task spawned by finish_stage.                             *)

AfterRunEnds(r) ==
    /\ after[r] = "hook"
    /\ after' = [after EXCEPT ![r] = "finishing"]
    /\ UNCHANGED <<mapVars, shutdown, prepareVars, task, sessionVars, cancels, queue>>

ReportFinished(r) ==
    /\ after[r] = "finishing"
    /\ Send([type |-> "Finished", run |-> r])
    /\ after' = [after EXCEPT ![r] = "done"]
    /\ UNCHANGED <<mapVars, shutdown, prepareVars, task, sessionVars, cancels>>

-----------------------------------------------------------------------------
(* recv and handle_event: one event at a time, in the order sent.  The     *)
(* orchestrator polls recv only while the sessions map has an entry.       *)

Receive == /\ ~shutdown
           /\ sessions # {}
           /\ queue # <<>>
           /\ queue' = Tail(queue)

DrainKeyState(K) ==
    /\ sessions' = sessions \ K
    /\ senders' = [k \in Key |-> IF k \in K THEN 0 ELSE senders[k]]
    /\ stages' = [k \in Key |-> IF k \in K THEN 0 ELSE stages[k]]
    /\ finishing' = finishing \ K

\* launch_issue_stages spawns one launch task per stage.  The shutdown check
\* of launch_issue_stage cannot fire: cancel_all is the last call the
\* orchestrator makes.
HandlePrepared ==
    /\ Receive
    /\ Head(queue).type = "Prepared"
    /\ task' = [r \in Run |-> IF r \in Head(queue).runs THEN "before_run" ELSE task[r]]
    /\ UNCHANGED <<mapVars, shutdown, prepareVars, after, sessionVars, cancels>>

HandlePreparationFailed ==
    /\ Receive
    /\ Head(queue).type = "PreparationFailed"
    /\ DrainKeyState({r.key : r \in Head(queue).runs})
    /\ UNCHANGED <<shutdown, prepareVars, task, after, sessionVars, cancels>>

\* save_stage_session stores the sender only while the key has an entry.
HandleStarted ==
    /\ Receive
    /\ Head(queue).type = "Started"
    /\ LET r == Head(queue).run IN
        senders' = IF r.key \in sessions THEN [senders EXCEPT ![r.key] = r.n] ELSE senders
    /\ UNCHANGED <<sessions, stages, finishing, shutdown, prepareVars, task, after, sessionVars, cancels>>

\* finish_stage: the first terminal state of a key that has a stage starts
\* after_run for the IssueStage stored under the key; a cancelled session
\* skips the hook.
FinishStage(k, s) ==
    IF k \in finishing \/ stages[k] = 0
    THEN UNCHANGED <<finishing, after>>
    ELSE /\ finishing' = finishing \cup {k}
         /\ after' = [after EXCEPT ![[key |-> k, n |-> stages[k]]] =
                        IF s = "Cancelled" THEN "finishing" ELSE "hook"]

Mut_FinishOnAnyState ==
    /\ Receive
    /\ Head(queue).type = "StateUpdated"
    /\ FinishStage(Head(queue).run.key, Head(queue).state)
    /\ UNCHANGED <<sessions, senders, stages, shutdown, prepareVars, task, sessionVars, cancels>>

HandleStateUpdated ==
    /\ Receive
    /\ Head(queue).type = "StateUpdated"
    /\ IF Head(queue).state \in Terminal
       THEN FinishStage(Head(queue).run.key, Head(queue).state)
       ELSE UNCHANGED <<finishing, after>>
    /\ UNCHANGED <<sessions, senders, stages, shutdown, prepareVars, task, sessionVars, cancels>>

HandleFinished ==
    /\ Receive
    /\ Head(queue).type = "Finished"
    /\ DrainKeyState({Head(queue).run.key})
    /\ UNCHANGED <<shutdown, prepareVars, task, after, sessionVars, cancels>>

Mut_CancelAllDrains ==
    /\ MayShutDown
    /\ ~shutdown
    /\ shutdown' = TRUE
    /\ cancels' = {r \in Run : r.key \in sessions /\ senders[r.key] = r.n}
    /\ sessions' = {}
    /\ UNCHANGED <<senders, stages, finishing, prepareVars, task, after, sessionVars, queue>>

\* cancel_all: the token first, then a Cancel to every saved sender.  A
\* session's command channel holds eight commands and this is the only one
\* ever sent, so no send waits.
CancelAll ==
    /\ MayShutDown
    /\ ~shutdown
    /\ shutdown' = TRUE
    /\ cancels' = {r \in Run : r.key \in sessions /\ senders[r.key] = r.n}
    /\ UNCHANGED <<mapVars, prepareVars, task, after, sessionVars, queue>>

-----------------------------------------------------------------------------

PrepareTask(n) == PrepareEnds(n) \/ PrepareDropped(n) \/ PrepareReports(n)

LaunchTask(r) ==
    \/ SpawnStage(r) \/ LaunchFails(r)
    \/ ReportAborted(r) \/ ReportStarted(r)
    \/ ProxyState(r) \/ ProxyEnds(r) \/ ProxyReportsLost(r)

SessionTask(r) ==
    \/ SessionPrepares(r) \/ SessionSpawnsAgent(r) \/ SessionStopsEarly(r)
    \/ SessionRuns(r) \/ SessionTerminates(r) \/ SessionEnds(r)

AfterTask(r) == AfterRunEnds(r) \/ ReportFinished(r)

HandleEvent ==
    \/ HandlePrepared \/ HandlePreparationFailed \/ HandleStarted
    \/ HandleStateUpdated \/ HandleFinished

\* The program may stop only when it has been told to shut down or when no
\* key is reserved, no event is queued and every session is gone.
Stopped ==
    /\ shutdown \/ (sessions = {} /\ queue = <<>>)
    /\ UNCHANGED vars

Next ==
    \/ \E i \in Issues, s \in IssueStates : TryRunIssue(i, s)
    \/ \E n \in RunNo : PrepareTask(n)
    \/ \E r \in Run : LaunchTask(r)
    \/ \E r \in Run : SessionTask(r) \/ AgentExits(r) \/ SessionPanics(r)
    \/ \E r \in Run : AfterTask(r)
    \/ HandleEvent
    \/ CancelAll
    \/ Stopped

\* What a task does once nothing outside keeps it waiting.
Delivers(r) ==
    \/ ReportAborted(r) \/ ReportStarted(r) \/ ProxyState(r) \/ ProxyReportsLost(r)
    \/ ReportFinished(r)

\* Spawned tasks are polled, a session begins, its timeout ends the agent, and
\* the loop polls recv while the manager is not empty.  Nothing is assumed of
\* the end of a hook or of what a session waits for: a descendant that holds
\* the output of a command, or a pipe of the agent, outlasts every timeout
\* (ShellCommand, Session).  Intake, panics and shutdown owe nothing either.
Fairness ==
    /\ \A n \in RunNo : WF_vars(PrepareReports(n))
    /\ \A r \in Run : WF_vars(Delivers(r))
    /\ \A r \in Run : WF_vars(SessionPrepares(r)) /\ WF_vars(AgentExits(r))
    /\ WF_vars(HandleEvent)

Spec     == Init /\ [][Next]_vars
FairSpec == Spec /\ Fairness

-----------------------------------------------------------------------------
(* Properties.                                                             *)

\* The lifecycle of a key as the maps show it, and what is promised of it.
phase ==
    [k \in Key |->
        CASE k \notin sessions                       -> "idle"
          [] k \in sessions /\ k \in finishing        -> "finishing"
          [] k \in sessions \ finishing /\ senders[k] = 0 -> "reserved"
          [] k \in sessions \ finishing /\ senders[k] # 0 -> "running"]

Lifecycle == INSTANCE StageLifecycle

\* The manager implements StageLifecycle: a key goes from idle through
\* reserved, running and finishing back to idle within the issue cap, is
\* given back early only before its session was started, and never skips
\* after_run once it was.  This rests on the order of Started and
\* StateUpdated in the channel.
ImplementsLifecycle == Lifecycle!Spec

Contract == INSTANCE ManagerContract WITH active <- sessions, cancelled <- shutdown

\* What the orchestrator loop needs of the manager: an issue reserves keys of
\* that issue which nobody holds, every other step only gives keys back, and
\* none does after cancel_all.
ImplementsManager == Contract!Spec

\* The number of distinct issue ids with a stage in the manager's maps never
\* exceeds loop.max_issue_concurrency, whatever the order of intake results,
\* failures and completions (can_accept_issue is asked before two separate
\* insertions and reads the stages map only).
IssueCapHolds == Cardinality(ActiveIssues) <= MaxIssueConcurrency

\* The pending work that will drain the key of run r: its preparation task,
\* its launch task up to the terminal state, the after_run task, or an event
\* on its way to the manager.
Carries(e, r) ==
    \/ e.type \in {"Prepared", "PreparationFailed"} /\ r \in e.runs
    \/ e.type = "Finished" /\ r = e.run
    \/ e.type = "StateUpdated" /\ e.state \in Terminal /\ r = e.run

Duties(r) ==
    {<<"event", j>> : j \in {j \in DOMAIN queue : Carries(queue[j], r)}}
    \cup {<<d, 0>> : d \in
           {d \in {"prepare", "launch", "after"} :
              \/ d = "prepare" /\ prepare[r.n] \in {"preparing", "ready", "failed"}
                               /\ r.key \in reserved[r.n]
              \/ d = "launch"  /\ task[r] \in {"before_run", "aborting", "spawned", "proxy"}
              \/ d = "after"   /\ after[r] \in {"hook", "finishing"}}}

\* Every reservation is driven by exactly one task or event at any moment
\* until shutdown: no error path of prepare, before_run, spawn_stage or the
\* proxy forgets a key (it would stay reserved for ever) and none drains it
\* twice.
ExactlyOneDuty ==
    \A k \in sessions :
        shutdown \/ Cardinality(Duties([key |-> k, n |-> stages[k]])) = 1

\* Events carry only the key, so work left over from an earlier reservation
\* would hit the stage that holds the key now.  No such work exists: whatever
\* is still going to drain a key belongs to the IssueStage stored under it.
NoStaleDuty == \A r \in Run : Duties(r) # {} => stages[r.key] = r.n

\* A saved command sender belongs to the current reservation of its key: a
\* Cancel never goes to the session of an earlier run, and an entry that was
\* drained keeps no sender.
SendersAreCurrent == \A k \in Key : senders[k] # 0 => senders[k] = stages[k]

\* When the sessions map is empty the orchestrator stops polling recv and may
\* return: no event is in the channel then and no task is going to send one.
DrainedIsSilent ==
    sessions = {} => /\ queue = <<>>
                     /\ \A r \in Run : /\ Duties(r) = {}
                                       /\ task[r] = "proxied" => unread[r] = <<>>

\* after_run is started at most once per IssueStage, and only for a stage
\* whose session was started, has reached a terminal state (or is lost), and
\* still holds its key.
AfterRunFollowsSession ==
    [][\A r \in Run : after'[r] = "hook" /\ after[r] # "hook" =>
          /\ after[r] = "none"
          /\ state[r] \in {"Completed", "Failed"} \/ ended[r]
          /\ senders[r.key] = r.n]_vars

\* The stage that holds k waits for others: for the preparation or a hook of
\* its own to return, for the commands of its prompt, or, its agent gone, for
\* the end of a pipe.
Waits(k) ==
    /\ stages[k] # 0
    /\ LET r == [key |-> k, n |-> stages[k]] IN
        \/ prepare[r.n] = "preparing"
        \/ task[r] = "before_run"
        \/ after[r] = "hook"
        \/ ~ended[r] /\ agent[r] # "alive" /\ state[r] \in {"Preparing", "Running"}

\* Every reservation is drained again, unless the manager is shut down or the
\* stage waits for others for ever: hook failures, failed spawns, lost sessions
\* and a full event channel delay a key but never hold it.
ReservationsDrain ==
    \A k \in Key : k \in sessions ~> (k \notin sessions \/ shutdown \/ []Waits(k))

\* What the operator may expect of the deduplication by key: while an agent
\* process of (issue, stage) is alive, no second one is started for that key.
OneAgentPerKey ==
    \A r1, r2 \in Run :
        r1.key = r2.key /\ agent[r1] = "alive" /\ agent[r2] = "alive" => r1 = r2

=============================================================================
