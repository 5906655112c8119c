# Formal models of vik

Vik is a daemon that pulls issues from a tracker with a user-supplied command and runs coding agents on them.
This directory holds TLA+ models of it: the orchestrator with its intake, the stage-session manager that decides what runs,
the session that runs one agent, the shell commands around it, and the daemon with its workflow file, state file and signals.
TLC checks them on small instances, their liveness included; TLAPS proves their safety for all instances.

## Running the checks

    tlc -workers 2 -config StageSessions_safety.cfg MCStageSessions.tla
    tlc -workers 2 -config Session_safety.cfg Session.tla
    tlapm StageSessions_proofs.tla
    tlapm Components_proofs.tla
    tlapm ComponentsData_proofs.tla

A configuration `X_<question>.cfg` belongs to the module `MCX` if there is one, otherwise to `X`
(and `MCComponents_<question>.cfg` to `MCComponents`).

## The system

| Component | State | Operations | Interaction |
| --- | --- | --- | --- |
| Intake loop (`orchestrator/intake.rs`) | iteration count, ids seen in a batch | pull, parse, wait | sends Issue, Failed, Stopped over a bounded channel |
| Orchestrator loop (`orchestrator/mod.rs`) | intake stopped, intake closed | one biased select: shutdown, intake event, session event | owns the manager, ends the daemon |
| Stage-session manager (`orchestrator/session_manager.rs`) | maps `sessions`, `stages`, set `finishing`, event channel, shutdown token | `try_run_issue`, `handle_event`, `cancel_all` | spawns the tasks of every stage; hears from them only through the event channel |
| Issue run and workspace (`context/run.rs`) | the issue directory on disk | `prepare`, `matching_stages` | runs the `after_create` hook |
| Hooks (`hooks/mod.rs`) | none | `after_create`, `before_run`, `after_run` | a shell with a 30 s timeout |
| Session (`session/mod.rs`) | snapshot (state, tokens, limits), child, log writer | prepare, spawn, write prompt, stream output, wait | state channel to the manager, command channel and token from it |
| Subprocess wrapper (`shell/command_ext.rs`) | child, cancellation token, result | `spawn`, `cancel`, `wait`, `wait_for_child` | a background task per child |
| Agent adapters (`agent/`) | none | build a command, map a line to events | the session applies the events |
| Daemon (`daemon/`, `cli/run.rs`, `cli/shutdown.rs`) | state file, signal latch | run, detach, status, stop, restart, uninstall | processes that share one file and signals |
| Configuration (`config/`, `workflow/`, `workspace/`, `utils/paths.rs`) | the loaded workflow | load, diagnose, resolve paths | read-only once loaded |
| Templates (`template/`) | none | render, expand prompt commands | prompts, hooks, pull command |
| Logging, session log (`logging/`, `session/jsonl_writer.rs`) | files | append, delete old files | none |

What is hard in this code:

- every stage is a chain of tasks (preparation, launch, session, proxy, `after_run`) that report over one
  bounded channel whose events name the key only, never the run;
- a key is freed and reserved again while tasks and the agent of the earlier run may still exist;
- any step can fail, and a key must be given back exactly once;
- a session follows a process, the pipe of that process and two cancellation signals, which end independently;
- shutdown does not drain: the daemon process ends with tasks at any step;
- the state file is shared by processes that check it and act on it later.

`PROJECT.json` lists these at their lines under `hazards`.

What makes each component correct:

- manager: the issue cap; no key forgotten and none drained twice; no event acts on a later run;
  `after_run` at most once per stage and only after its session;
- session: one terminal state, decided by the output; the session ends when its agent is gone; no agent is left running;
- intake and orchestrator: first of equal ids wins; every end of intake is noticed; the daemon returns only when drained or told to;
- issue workspace: a stage starts in a directory whose `after_create` has succeeded, or that an earlier IssueRun made;
- shell commands: all of the output and the shell's own status, or an error; no shell left behind by a call that returns;
- adapters and snapshot: no line disappears, the last word decides, counts do not wrap, the newest limit stays;
- daemon: the state file names the daemon that serves; a command given alone never affects another one; a signal ends it;
- workflow file: what runs is workable, doctor foretells it, the same file leads to the same workspace, another to another;
- prompts: each command's output in its own place, or no prompt; logs: retention never deletes what it should keep.

## Modules

| Module | Role |
| --- | --- |
| `Orchestrator` | the orchestrator loop, the intake task and their channel |
| `ManagerContract` | what the loop relies on in the manager |
| `StageSessions` | the manager with all tasks of a stage, its properties |
| `StageLifecycle` | what the manager promises of a key |
| `StageSessionsInv` | the inductive invariants `DutyInv` and `OrderInv` |
| `IssuePrep` | the preparation of an issue workspace and its `after_create` hook |
| `Session` | one session task, its agent, the reaper of the agent, the stdout pipe |
| `SessionContract` | what the manager relies on in a session |
| `ShellCommand` | a hook, prompt command or pull command with both of its output pipes |
| `Adapters` | the events of a line of each provider |
| `AgentEvents` | the snapshot and the log that a session makes of those events |
| `PromptRender` | the commands in a prompt: found, run at the same time, spliced |
| `Daemon` | `run`, `run -d`, `stop`, `restart`, `uninstall`, `status` and daemons as processes |
| `Detach` | the double fork of `run -d` and its handshake |
| `WorkflowConfig` | defaults and diagnostics of a workflow file |
| `Startup` | invocations of vik on a file that its author may change meanwhile |
| `Workspaces` | which workspace, and so which daemon, an invocation finds |
| `LogRetention` | daily log files and the scan for old ones |
| `MCComponents` | the sum of the components around the core, for TLC |
| `MCAgentEvents`, `MCPromptRender`, `MCStartup`, `MCWorkspaces` | lines, texts, documents and paths for it |
| `MCStageSessions`, `MCOrchestrator` | small instances for TLC |
| `StageSessions_proofs`, `StageSessionsOrder_proofs` | proofs of the manager: types, cap and duties; order and refinement |
| `Session_proofs`, `ShellCommand_proofs`, `IssuePrep_proofs`, `Orchestrator_proofs` | proofs of these components |
| `Components_proofs` | proofs of the components around them, as parts of `MCComponents` |
| `ComponentsData_proofs` | what operators on events, texts, chunks and paths compute, and the parts of `MCComponents` that need it |

How they compose:

    Daemon (one process per command) --- Detach (the step ForkDaemon in full)
      Orchestrator (the step Drain in full)
        ManagerContract  <- refined by -  StageSessions
                                            IssuePrep (PrepareEnds in full)
                                            SessionContract  <- refined by -  Session
                                                                                AgentEvents, Adapters (a line in full)
                                                                                PromptRender (Preparing in full)
                                            ShellCommand (a hook, a prompt command or the pull command in full)
    Startup, WorkflowConfig, Workspaces: from the command line to the workflow a daemon runs and the state file it writes

`StageSessions` implements `ManagerContract` and `StageLifecycle`, `Session` implements `SessionContract`: these are checked as
properties of runs (`reuse`, `safety`, `session_safety`). The other links are by the outcomes named below.

`MCComponents` is not a composition but a sum: a behaviour belongs to one part, which is one of the components `Daemon`, `Detach`,
`AgentEvents`, `Workspaces`, `Startup`, `PromptRender` and `LogRetention` in one setting. These are small enough to be checked in one
run, and each property names its part.

Operators named `Mut_...` are seeded faults. No action uses them: each replaces one operator to show that
a property can fail.

### Orchestrator

The loop is four polls in the order of the biased `select!` (`Top`, `PollShutdown`, the intake channel, the manager); each is a step,
because the token, the channel and the manager may change between them. The intake task is `Render`, `Check`, `PullEnds`,
`PullCancelled`, `Emit`, `Idle`, `Stop` and their errors. The shell of the pull command exits (`PullExits`) or is killed at its
timeout (`PullTimesOut`); after an exit the call goes on to the end of the output, which `PullEnds` may keep to itself.
Its channel is bounded (`Send`), and a send to a loop that has returned is lost, as in the code.
`AbortIntake` is `intake_handle.abort()`; `RuntimeDropped` the end of the process.
The manager is `ManagerContract` with the keys whose last event is queued (`ready`).

### IssuePrep and ShellCommand

`IssuePrep` has one task per IssueRun of one issue (`Stat`, `MakeDir`, `StartHook`, `HookReturns`, `HookTimesOut`), which share the
directory. `Restart` stands for any end of a daemon and the start of the next: the directory and running hooks survive.
`ShellCommand` has the caller, `wait_for_child`, the shell, a descendant of it, and the two pipes. `Cancel` exists for the pull command
only; `Drop` is the caller's task being dropped, which kills nothing.

### Adapters, AgentEvents, PromptRender

A JSON object is a record of the fields the decoders read; the model value `Bad` stands for a value of the wrong type.
`MapEvent` follows `map_value` of each provider: what one field of a block, an item or a usage that does not decode takes with it is
the point, so `BlockOk`, `ItemOk` and `UsageOk` name every field the decoders look at. `ApplyEvent` follows `apply_event` and the write
to the log, two chunks per event in a queue that drops what it has no room for, with a worker that may write between the two.
The runtime `custom` is an adapter that emits any sequence of events; it is there for rate limits, which neither
provider emits today.
A prompt is a sequence of tokens. `Commands` finds what the regular expression finds, `Spliced` puts the outputs in. A command whose
shell has exited may be `held`: a descendant has its output, and no timeout applies any more.

### Daemon and Detach

A pid has a record of where its process is: a verb (`read`, `probe`, `signal`, `wait`, `remove`) or a daemon (`boot`, `armed`,
`writing`, `serving`, `cleanup`, and past its record `closing` or, when that would not go, `leaving`). Each access of the state file,
each look at a pid and each signal is a step, and each may fail as the code's error paths have it. A daemon that is `closing` is alive
without a record, until the runtime and the log are dropped (`EndProcess`). `Disciplined` is the operator who gives one command after the
other; without it any command may come at any time.
`Detach` has every system call of the two forks, each of which may fail. It has no constants: TLC's check of it is exhaustive.

### WorkflowConfig, Startup, Workspaces

A document is a record of the sections with options as sequences of length zero or one; `Parse` fills in defaults, `Diagnose` collects
the diagnostics. `Startup` looks at the file, reads and parses it as separate steps, with edits in between, and keeps the answers of
doctor and run to compare them. `Workspaces` has paths as sequences of names, `Canonicalize`, `ResolveFrom` and `PathKey` as in the
code, and each command as one step: interleaving is the business of `Daemon`.

### StageSessions

The state is the manager's own (`sessions`, `senders`, `stages`, `finishing`, `shutdown`, and `queue` for
`session_events_channel`) and the program counters of the tasks it spawns: `prepare[n]` for IssueRun `n`
with the keys `reserved[n]`, and for each run `r` of a key `task[r]` (launch task, then state proxy),
`after[r]` (`after_run` task), and the session as the manager sees it (`state`, `unread` states, `ended`, `agent`).

| Action | Code |
| --- | --- |
| `TryRunIssue` | `try_run_issue`, `should_dispatch`, `reserve_issue_stages` |
| `PrepareEnds`, `PrepareDropped`, `PrepareReports` | the task spawned by `try_run_issue` |
| `SpawnStage`, `LaunchFails`, `ReportAborted`, `ReportStarted` | the task spawned by `launch_issue_stage` |
| `ProxyState`, `ProxyEnds`, `ProxyReportsLost` | `proxy_session_state` |
| `SessionPrepares` ... `SessionEnds`, `SessionPanics` | the session task, see below |
| `AfterRunEnds`, `ReportFinished` | the task spawned by `finish_stage` |
| `HandlePrepared` ... `HandleFinished` | `recv` and the branches of `handle_event` |
| `CancelAll` | `cancel_all` |

Three points decide what the model can show.

- An event carries `r`, but handlers use `r.key` only, as the code does. `r.n` is there so that properties can tell runs apart.
- The handlers are atomic because `handle_event` does not await. A `Send` waits for room in the channel, so each
  report is a step of its own, separate from the work before it.
- `TryRunIssue` takes any issue in any state at any time. The intake loop can only send less.

After `CancelAll` the manager handles nothing more, since the orchestrator returns; the tasks may still take any
number of steps, until the runtime is dropped.

### Session

`pc` follows `Session::run`; `waiter` follows `wait_for_child`, a task of its own that outlives the session.
The agent is a process that may do anything: write lines, fill its pipe, never read its stdin or close it,
close its stdout, leave a descendant that holds stdout (`holders`) or stdin (`heir`), exit, or hang.
A line of output stands for what the adapter makes of it. A line and everything it changes is one step: the
events of one line are applied without another branch in between.
`StopReading` includes the look at the token on entry of `wait_child`.
`RuntimeDropped` is the end of the daemon: it drops both tasks and kills nothing.

The state channel holds eight states and a session sends at most three, so `set_state` never waits.

How the two models fit: the session actions of `StageSessions` are those of `SessionContract` for each run
(plus `SessionPanics`), and `Session` implements `SessionContract`.

## Runs

| Run | Question | Distinct states |
| --- | --- | --- |
| `safety` | cap, one duty per reservation, no stale duty, the life of a stage, with shutdown at any moment | 338,000 |
| `reuse` | one key reserved twice, shutdown at any moment: saved senders, drained manager, `after_run`, `ManagerContract`; every reservation is drained or waits for others | 201,000 |
| `overlap` | two agents of one key at once | found |
| `session_safety` | verdict, agent left behind, contract, every agent bounded, shutdown and the agent's end end the session | 192,000 |
| `session_heldpipe` | a terminal session that never closes its channel | found |
| `session_stop` | an agent that outlives a stopped daemon | found |
| `shell` | what a call returns is the whole truth; no shell left behind; neither side waits in vain | 20,000 |
| `prepare` | four IssueRuns, failing hooks, descendants, restarts: who may start stages, who may run the hook | 38,000 |
| `prepare_rerun` | a failed `after_create` that is not retried | found |
| `orchestrator` | the ways the loop returns, shutdown first; bounded intake and shutdown end the loop | 24,000 |
| `components` | the parts below | 469,000 |
| `collision` | a stop that ends the daemon of another file | found |

"Found" means that the run expects a counterexample; see Findings.

| Part of `MCComponents` | Setting | Properties |
| --- | --- | --- |
| `disciplined` | commands one by one, crashes, aborts, timeouts, failed removals; three pids | `OneDaemonOnRecord` |
| `races` | any commands at any time; two pids | `StaleIsExplained`, `EveryoneIsAnswered` |
| `detach` | every failure of the double fork | `LauncherTellsTruth`, `EveryoneIsAnswered` |
| `spelled` | two files in many spellings, from many places | `DaemonOfTheFile` |
| `edited` | files that share a home, edits and changing environments | `DaemonOfTheFile`; `WorkflowsKeepApart` in `collision` |
| `documents` | 400 documents and what doctor, strict doctor and run, with a home and without, make of them | `DoctorIsRight`, `RunsOnlyWorkable` |
| `rewritten` | a file that changes between any two steps | `RunsOnlyWorkable` |
| `prompt` | texts of up to three pieces, commands that end in any order | `OutputInItsPlace`, `EveryoneIsAnswered` |
| `retention` | daemons over four days, midnight anywhere, files that do not go | `PrunesExactly` |
| `events` | lines of any kind, from both providers, and a log queue that fills | `SnapshotIsWhatWasHeard`, `NothingIsLost`, `LogIsOrdered` |

The properties of `MCComponents` are conjunctions of those the components state. The documents, lines, paths, pids and days of its
parts are constants: small in the configurations, arbitrary in the proofs. `DutyInv`, `OrderInv`, `SessionInv`, `ShellInv`, `PrepInv` and `OrchInv`
are the inductive invariants of the core; they are what a change of the code would break first.

### Bounds

- `Issues`: two, so that they compete for a cap of one, or share a cap of two.
- `Stages`: two where stages of one issue matter (one tracker state matches both, one matches a single stage, one none);
  one where the reuse of a key matters.
- `MaxIssueRuns`, `MaxStageRuns`: dispatches in one behaviour, two or three. Two reservations of one key are enough for every
  confusion of an old run with a new one.
- `EventCapacity`: one or two instead of eight, so that the channel is full early. The order of events does not depend on it.
- `MaxLines`, `PipeCapacity`: three lines and two in the pipe: a verdict, a line before and one after it, and a full pipe.
- `MayShutDown` is off in `overlap` only, which shows that it takes no shutdown.
- Symmetry (issue ids) is used in `safety`, whose properties are invariants and a refinement without fairness, none of which tells one
  issue from another. Runs with liveness use none.
- `Orchestrator`: two issues and one stage; batches of up to three with a repeated id, since deduplication compares two; two
  iterations, so that a cycle follows another; a channel of two, so that it is full.
- `IssuePrep`: four IssueRuns of which two at once: two that race, one after a failure, one after a restart. `prepare_rerun` has two,
  one after the other.
- `ShellCommand`: four units through a pipe of two.
- `Daemon`: three pids for commands one by one: two daemons and a command; two where commands race and liveness is checked. A pid is
  given out again only once nobody remembers it.
- `AgentEvents`: two lines of a provider, from every kind of line and every kind of malformed line, three of `custom`; counts end at
  four, so that they saturate. `LogRoom` is four chunks, so that the queue is full within a session, and is not in others.
- `Workspaces`: two files, one below the directory of the other; arguments from above, below and beside them; no symbolic links. In the
  part `edited` there is a third, whose name has the dash that makes its key that of another.
- `Startup`: each field of a document wrong in each way it can be, one or a few at a time; two invocations, so that doctor and run see
  the same text, and two edits.
- `PromptRender`: three pieces of text, where a piece is a command, a broken one, or what could be glued to one.
- `LogRetention`: one day of retention, four days, and at most one file that does not go, of the first day. Setting logging up takes
  less than a day, as the model says by letting midnight pass once between the creation of the files and the scan.

### Fairness

`StageSessions`: weak fairness of what a task does once nothing outside keeps it waiting (`Delivers`, `PrepareReports`,
`SessionPrepares`), of the agent's exit, which its one-hour timeout enforces (`AgentIsBounded`), and of `HandleEvent`. Tasks run on
tokio's multi-threaded runtime, and the orchestrator polls `recv` as long as the manager has an entry. Nothing is assumed of the end of a
hook, of a preparation or of a session: a shell command whose shell has exited waits for its output, and a descendant that holds it
outlasts every timeout (`command_ext.rs`, `wait_with_output`), as does one that holds a pipe of the agent. So `ReservationsDrain` says that a
reservation is drained or that its stage, from some point on, waits for one of these (`Waits`). Nothing is assumed of intake, panics or
shutdown.

`Session`: weak fairness of the session task and of `wait_for_child`, whose timer expires. The agent owes nothing, and neither does the
preparation, which renders the prompt and runs its commands: `ShutdownEndsSession` has the exception of a session that prepares for ever,
as the token is looked at only after it. No fairness is assumed past the end of the daemon: each liveness property allows for
`dropped` tasks.

`Orchestrator`: weak fairness of the loop, of the intake task but for `PullEnds`, of the timeout of the pull command and of the kill.
`BoundedLoopReturns` has the two exceptions that follow: a pull command whose output is held, and a stage that is not drained (see
`ReservationsDrain`). `ShutdownReturns` has none. `IssuePrep`: of the tasks and of the hook's timeout; `PreparationReturns` allows for a
hook whose descendant holds its output. `ShellCommand`: of the caller and of `wait_for_child`, with the same allowance.
`MCComponents`: of a daemon that has something to do in the part `races`; of the three processes of a detach; of a session that renders
and of the timeouts of commands whose shell still runs, with the same allowance for prompts. Operators and their commands owe nothing.
No fairness is assumed of what the code does not schedule: agents, shells, operators, panics.

## What is proved

All proofs are for arbitrary constants under the assumptions named in the modules (finite `Stages`, positive capacities and the like;
no bound on issues, processes or documents, nor on the lines of a session and what lines and texts say). They say nothing of
liveness, which stays with TLC.

### The manager

- `TypeCorrect`: `TypeOK`, one lemma per task.
- `IssueCap`: `IssueCapHolds`. `ActiveIssues` shrinks or stays in every step but `TryRunIssue`, which adds at most the
  issue it was asked for, and only below the cap. The strengthening is that `ActiveIssues` is finite and that the maps are typed.
- `DutyInvariant`: `DutyInv`, the conjunction of `FreshNumbers`, `UntouchedBeforeReport`, `DutyPlaces`, `DutyHoldsKey`,
  `KeyHasDuty`, `MapsAgree` and `TerminalIsLast`. `ExactlyOneDuty` alone is not inductive: a handler acts on a key, so one must
  know that the run that sent the event is the run stored under the key (`DutyHoldsKey`), that a run has its duty in one place
  (`DutyPlaces`), and that a session's terminal state is the last it sends, or a second terminal event would follow (`TerminalIsLast`).
  The lemmas `SendQueued` and `ReceiveQueued` say what sending and receiving do to the set of queued events; then each action has a lemma
  of its own. `NoStale` and `OneDuty` follow.
- `OrderInvariant`: `OrderInv`, given `DutyInv`. That a sender is current (`SendersAreCurrent`) depends on the order of the queue, which
  a set of events does not show: `Started` is before the terminal event of its run (`VerdictAfterStart`), a report that drains nothing
  is followed by the one that does (`ReportsBeforeVerdict`), `Finished` comes last (`FinishedAtTheEnd`), and what the proxy forwards as
  the end of a session is its end (`VerdictIsTrue`). `SendersCurrent`, `DrainedSilence` and `AfterRunFollows` follow.
- `LifecycleImplemented`: `ImplementsLifecycle`, each step is a step of `StageLifecycle` or a stutter, under both invariants.
- `ContractKept`: `ImplementsManager`, each step is a step of `ManagerContract` or a stutter, under the same invariants.

### Session, shell commands, preparation, orchestrator

- `SessionInvariant`: `SessionInv`, inductive as it stands, with descendants that inherit stdin or stdout. `EndedLeavesNoAgent` follows.
- `SessionKeepsContract`: `ImplementsContract`, each step of the session is a step of the contract or a stutter, under `SessionInv`.
- `VerdictIsFirst`: `OutputDecides`, from `VerdictInv`: while the session streams, its state already is the first verdict it has read.
- `ShellInvAlways`: `ShellInv`, inductive as it stands; `ReturnedShellIsGone` and `OutputOfExitIsWhole` follow from it and one more
  step for the result. For all capacities and amounts of output, with and without descendants.
- `PrepInvAlways`: `PrepInv`. That a late IssueRun never makes the directory needs that the directory exists from the first
  `create_dir_all` on, and that whoever is past `metadata()` without having seen it was dispatched before. `LaunchExplained` and
  `EstablishedLeftAlone` follow.
- `TypeAlways`, `OrchInvAlways`: `OrchInv` says where `Stopped` is (sent last, by an intake that is over) and that before the first
  cycle nothing is active. `ReturnIsDrained`, `ErrorIsBrokenOff`, `StoppedHasNoPull` follow.
- `ShutdownIsFirst`: `ShutdownComesFirst`, from `ShutInv`: after the one event the loop is at the top or on its way out.
- `FirstIsSent`: `FirstIssueWins`, from `EmitInv`: the issues sent are the first ones of the part of the batch that was looked at, one for
  each id, in the order of the batch. It is about cardinalities of initial segments, so `FiniteSetTheorems` does the counting.

### The parts of MCComponents

A behaviour stays in its part, so each invariant is one of its part.

- `RecordsAreExplained`: `StaleIsExplained`, for any number of processes. It is inductive with the types of processes
  (`RacesInv`), under `PidAssumption`: a process id is not the absence of one. A daemon that is alive past its record never comes back to
  it, and one that could not remove it is told apart from one that did.
- `DaemonIsAlone`: `OneDaemonOnRecord`, for any number of processes, from `OnesInv`. That one daemon works is not inductive: a command
  that has read the record must have read the daemon's, and one about to remove the record or to fork must have none to fear. Daemons
  that are `closing` are not among them: a `run -d` after a stop that timed out can start one beside a daemon whose work is over and whose
  process is not.
- `RetentionIsExact`: `PrunesExactly`, from `PruneInv`: the files in use are not older than the cutoff, and what the scan has passed is
  young, foreign or stuck. `RetentionAssumption` says that logs are kept for a day at least, as the code does (seven): with none, a
  midnight between the creation of the files and the cutoff would let the scan remove a file in use.
- `ExitStatusIsTrue`: `LauncherTellsTruth`, from `DetachInv`: what is in the pipe, or was read from it, is the word of a daemon that has
  come that far.
- `DoctorForetells`, `WhatRunsIsWorkable`: `DoctorIsRight` and `RunsOnlyWorkable`, for every set of documents of which
  `DocumentAssumption` holds (an option has at most one value, numbers are natural, as the types of the schema say), and for any number
  of invocations and edits. `CleanIsWorkable` and `StrictIsUnderstood` say what a schema without errors and one without warnings are; they
  follow a finding from its section up to the document. `DocsInv` and `RewrittenInv` say that an invocation goes on with the text it has
  read, whatever the file says by now, and that each answer is what the diagnosis says of that text and, for a run, whether its root
  resolves for its caller.
- `SnapshotIsTrue`: `SnapshotIsWhatWasHeard`, for all lines of which `EventAssumption` holds: it says what the wire types say of a field
  that decodes. That the adapters then make a sequence of typed events of any such line is proved (`CodexIsMapped`, `ClaudeIsMapped`).
  The sum of a history is a recursive function, of which the proof needs no induction over data: `TotalsInv` says of every function that
  satisfies the recursion that its last value is the count, and that there is one, and each event extends these functions by one value
  (`SumsGrow`, `SumsShrink`).
- `NothingGetsLost`: `NothingIsLost`, from `EventsInv` and `RecordInv`, for any lines and any number of them. That a session
  ends with its last event is not inductive: the events of a line are a queue, so one must know that no queue is left behind by an event
  that ends the session (`EndInv`), and for a turn's usage that it is next in the queue or the last one applied (`TurnInv`). The log is
  complete as long as its queue has room for two chunks of each event (`LogInv`). What a line must lead to is counted
  (`AssistantKeepsAll` for the blocks of a message).
- `PromptIsWhatWasWritten`: `OutputInItsPlace`, from `PromptInv` under `TextAssumption`: texts and outputs are sequences. The invariant is
  simple, as the work is in the operators. `CommandsAre`: the scan finds commands that lie in the text, in order and apart
  from each other, by a loop invariant of the scan (`ScanIsOrdered`). `SplicedIs`: splicing at such places is the concatenation of what
  stands at each token. `PromptIs` puts them together.
- `StopFindsItsDaemon`: `DaemonOfTheFile`, for any files and arguments of which `PlaceAssumption` holds, in any number of commands, crashes
  and edits. In the part `spelled`, where arguments become canonical and no file changes, a live daemon is on record in the workspace its
  file leads to now (`SpelledInv`). In the part `edited` it is not, and the invariant says instead where a record came from: some argument,
  text and environment led to its workspace (`EditedInv`). Two ways to one workspace may go through different homes, but they end in one
  key (`SameEnd`). What canonicalisation makes of a path is proved: from a direct path, without `.` and `..`, it
  makes a direct one (`DirectFrom`), and a direct one is where it leads (`DirectStays`).
  Nothing is assumed of keys: the property allows for files whose paths make the same one (`OneKey`), which `/a/b-w` and `/a/b/w` do.
  `PathKeysDiffer` says that it takes a dash in a name to do so.

### Induction over data

No step of a behaviour builds a line or a text element by element, so what an operator computes of one is an induction of its own, and
the library's induction theorems cannot be used, as they take an operator for a parameter. `Induction` is stated of a set instead:
one that has zero and is closed under successor has all numbers, by a least counterexample (`LessThan`, `WFMin`).

`FlattenSeq`, in which the filters and the log are written, is a fold over the whole sequence.
`Joins` is the relation between a sequence of sequences and the function of its partial concatenations; such functions exist
and agree (`JoinsExist`, `JoinsAgree`), and the fold is their last value (`FlattenJoins`). `Flat(s, n)`, the concatenation of the first `n`, then
has the two equations one expects (`FlatStart`, `FlatNext`), and the lemmas on its length, its elements and its equality follow.
The scan and the splicing are recursive functions, and are treated alike: the function exists (`ScanExists`, `SplicesExist`), and what holds
of it holds at each number. So is `FoldLeft`, a recursive function on the sets of positions (`WalkExists`).

### Only model-checked

- Every liveness property: `ReservationsDrain`, `AgentIsBounded`, `ShutdownEndsSession`, `AgentEndsSession`, `NobodyIsStuck`,
  `PreparationReturns`, `BoundedLoopReturns`, `ShutdownReturns`, `EveryoneIsAnswered`. They need ENABLED.
- `LogIsOrdered`, which counts how much of what was logged is found in what was heard, in order.
- The properties of the violation runs, which the code does not have.

`FirstIsSent` (the first of equal ids of a pull is passed on), `TypeAlways`, `OrchInvAlways`, `ErrorIsBrokenOff`, `ShellInvAlways`,
`PrepInvAlways`, `DutyInvariant` and `OrderInvariant` are proved of formulas that no run repeats.

## Findings

- A key is freed by the session's verdict, not by the end of its agent: an agent that lingers after its terminal
  event or after a failed prompt write can meet a second agent of the same key (`overlap`).
- The session reads to the end of stdout after its verdict; a descendant of the agent can keep the session, its state channel
  and its log open without limit (`session_heldpipe`). The manager has freed the key by then.
- Shutdown does not wait for the sessions it cancels: the runtime is dropped at once and no child is killed with its handle (`session_stop`).
- An `after_create` that fails is not retried, as the directory it ran in stays and the next cycle skips the hook. Two comments say that the next
  cycle runs it again (`hooks/mod.rs`, `config/issue.rs`); the rest of the documentation and a test have it as the code does
  (`prepare_rerun`).
- The key of a workflow does not keep workflows apart: paths that differ only in `/` and `-` share a workspace, a state file and so a
  daemon (`collision`).

`PROJECT.json` quotes the sentence of the repository that each of them contradicts.

### Limits

The conditions in the properties say where the code promises less than one may expect:

- Held output. A shell that has exited by itself does not end its call while a descendant holds its output, and its timeout is over with
  the shell (`command_ext.rs`, `wait_with_output`); only a caller that gives up at shutdown is free. Each caller has the exception:
  `NobodyIsStuck` (the call), `PreparationReturns` and `ReservationsDrain` (hooks), `BoundedLoopReturns` (the pull command),
  `EveryoneIsAnswered` and `ShutdownEndsSession` (the commands of a prompt, which is rendered without a look at the token).
- `LaunchIsExplained`: `after_create` is skipped for good once the directory exists: after a failure (see `prepare_rerun`), and for a second
  IssueRun while the hook still runs. Two IssueRuns that race may both run it (`context/run.rs`, `prepare`).
- `StoppedMeansNoPull`: a pull command that does not render ends intake for good after one `Failed` and without
  `Stopped`. An abort of intake can come before its look at the token, and then the pull command outlives the daemon.
- `LauncherTellsTruth`: a failed `setsid` or second fork returns an error in the child as well, not only in the launcher. Success says
  that the daemon is detached, not that it serves: a failure after the handshake (logging, runtime, state file) is not in the exit status.
- `OneDaemonOnRecord`: for one command at a time. The state file is checked before the fork and written after the start-up, so two
  `run -d` at once start two daemons; and it is removed by name, so a `stop` can remove the record of a daemon that started meanwhile.
  Also one by one, a daemon that is past its record may still be closing when the next one starts, as nothing but the record says
  that it is there.
- `StaleIsExplained`: a daemon whose removal of the record fails leaves it behind with a warning (`cli/run.rs`).
- `DaemonOfTheFile`: up to the clash of keys in Findings, and in the part `spelled` for absolute arguments without dots, as those are
  not canonicalised; `stop` finds the daemon of a file only as long as the file is valid and its root the same.
- `DoctorIsRight`: but for the home. `cli/doctor.rs:3` has doctor surface the errors that would block the construction of the workflow; that a root
  with `~` does not resolve is one of them, and doctor does not look.
- `OutputInItsPlace` takes the commands the code finds: one with a closing parenthesis in it stays text.
- `NothingIsLost`: `session/mod.rs:8` calls the session log the durable record, but its queue drops what it has no room for, and since an
  event is two writes, also half of one: two events may come to stand on one line.
- `SnapshotIsWhatWasHeard`: no adapter emits a rate limit today; that half of it is about a runtime to come.

## Not modelled

- The command lines of the agents: they decide nothing that is checked here.
- The reuse of a pid that is still on record: `kill 0` is all that is asked of a pid, so a stranger that has it counts as the daemon.
- The template engine, and the parsers of YAML, JSON and the command line: libraries, seen by their results.
- The text of logs, reports and errors, and the fields of the state file that no decision reads.
- Windows: `signals/windows.rs`, `detach/windows.rs` and the `cmd` shell.
- Functions nothing in the program calls (the session's Snapshot command) and those of tests (`workflow/builder.rs`).
- Symbolic links, and disks that fail in the middle of a write.

## Plan

All components of the program have a model, and all safety properties of the passing runs but one a proof. What is left:

- `LogIsOrdered`: its proof needs what `FoundIn`, a fold, finds in a sequence that grows by one.
- `Daemon` with pids that are reused while on record: which of its properties survive, and under which condition.
