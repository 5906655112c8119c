----------------------------- MODULE IssuePrep -----------------------------
(***************************************************************************)
(* The preparation of one issue workspace (IssueRun::prepare, context/     *)
(* run.rs) with its after_create hook (hooks/mod.rs).                      *)
(*                                                                         *)
(* The manager runs prepare() in a task per IssueRun.  The issue may be    *)
(* dispatched again while an earlier preparation is still under way, for   *)
(* the stages of another tracker state, and after it.  What the tasks      *)
(* share is the directory, which outlives them, the daemon and its         *)
(* shutdown; so does a hook that runs while its task is dropped.  The      *)
(* shell of a hook is the module ShellCommand; here it may hang until its  *)
(* timeout.  Operators named Mut_... are seeded faults.                    *)
(***************************************************************************)
EXTENDS Naturals, FiniteSets

CONSTANTS
    MaxPreps,       \* bound: IssueRuns of the issue in one behaviour
    Concurrency,    \* how many of them may hold stages of the issue at once
    HookMayFail,    \* bound: whether a hook may fail
    Descendants,    \* whether the shell of a hook may leave a process behind
    MayStop         \* bound: whether the daemon may stop and start again

ASSUME MaxPrepsAssumption == MaxPreps \in Nat
ASSUME ConcurrencyAssumption == Concurrency \in Nat
ASSUME BoundsAssumption == HookMayFail \in BOOLEAN /\ Descendants \in BOOLEAN /\ MayStop \in BOOLEAN

VARIABLES
    path,       \* what is at the issue workdir
    configured, \* the workflow has an after_create hook
    shutdown,   \* the manager's token
    pc,         \* [Prep -> where its task, and then its stages, are]
    hook,       \* [Prep -> its after_create hook]
    existed,    \* history: the directory is older than this model
    made,       \* history: the Preps whose create_dir_all succeeded
    late        \* history: the Preps dispatched when made was not empty

history == <<existed, made, late>>
vars == <<path, configured, shutdown, pc, hook, history>>

Prep     == 1 .. MaxPreps
InTask   == {"stat", "mkdir", "hook", "waiting"}
Reserved == InTask \cup {"ready", "failed", "launched"}

TypeOK ==
    /\ path \in {"absent", "dir", "file"}
    /\ configured \in BOOLEAN
    /\ shutdown \in BOOLEAN
    /\ pc \in [Prep -> {"none", "dropped", "drained"} \cup Reserved]
    /\ hook \in [Prep -> {"none", "running", "held", "ok", "failed"}]
    /\ existed \in BOOLEAN
    /\ made \subseteq Prep
    /\ late \subseteq Prep

Init ==
    /\ path \in {"absent", "dir", "file"}
    /\ configured \in BOOLEAN
    /\ shutdown = FALSE
    /\ pc = [p \in Prep |-> "none"]
    /\ hook = [p \in Prep |-> "none"]
    /\ existed = (path = "dir")
    /\ made = {}
    /\ late = {}

-----------------------------------------------------------------------------
(* The preparation task.                                                   *)

Go(p, from, to) == pc[p] = from /\ pc' = [pc EXCEPT ![p] = to]

\* try_run_issue reserves stages of the issue for one more IssueRun.
Dispatch(p) ==
    /\ ~shutdown
    /\ \A q \in 1 .. p - 1 : pc[q] # "none"
    /\ Cardinality({q \in Prep : pc[q] \in Reserved}) < Concurrency
    /\ Go(p, "none", "stat")
    /\ late' = IF made = {} THEN late ELSE late \cup {p}
    /\ UNCHANGED <<path, configured, shutdown, hook, existed, made>>

Mut_StatIgnoresDir(p) ==
    /\ IF path = "file" THEN Go(p, "stat", "failed") ELSE Go(p, "stat", "mkdir")
    /\ UNCHANGED <<path, configured, shutdown, hook, history>>

\* metadata(): an existing directory is taken as prepared.
Stat(p) ==
    /\ \/ path = "dir" /\ Go(p, "stat", "ready")
       \/ path = "absent" /\ Go(p, "stat", "mkdir")
       \/ Go(p, "stat", "failed")  \* not a directory, or not to be read
    /\ UNCHANGED <<path, configured, shutdown, hook, history>>

\* create_dir_all() is content with a directory that is there by now.
MakeDir(p) ==
    /\ Go(p, "mkdir", "hook")
    /\ path # "file"
    /\ path' = "dir"
    /\ made' = made \cup {p}
    /\ UNCHANGED <<configured, shutdown, hook, existed, late>>

MakeDirFails(p) ==
    /\ Go(p, "mkdir", "failed")
    /\ UNCHANGED <<path, configured, shutdown, hook, history>>

\* schedule_inner without a hook body; the missing hook counts as done.
NoHook(p) ==
    /\ ~configured
    /\ Go(p, "hook", "ready")
    /\ hook' = [hook EXCEPT ![p] = "ok"]
    /\ UNCHANGED <<path, configured, shutdown, history>>

\* The body does not render, or the shell cannot be spawned.
HookNotStarted(p) ==
    /\ configured /\ HookMayFail
    /\ Go(p, "hook", "failed")
    /\ UNCHANGED <<path, configured, shutdown, hook, history>>

StartHook(p) ==
    /\ configured
    /\ Go(p, "hook", "waiting")
    /\ hook' = [hook EXCEPT ![p] = "running"]
    /\ UNCHANGED <<path, configured, shutdown, history>>

Mut_HookResultIgnored(p) ==
    /\ hook[p] \notin {"running", "held"}
    /\ Go(p, "waiting", "ready")
    /\ UNCHANGED <<path, configured, shutdown, hook, history>>

\* run_command: only a zero exit status is Ok.
HookReturns(p) ==
    /\ \/ hook[p] = "ok" /\ Go(p, "waiting", "ready")
       \/ hook[p] = "failed" /\ Go(p, "waiting", "failed")
    /\ UNCHANGED <<path, configured, shutdown, hook, history>>

Mut_HookTimeoutDisabled(p) == FALSE /\ p \in Prep /\ UNCHANGED vars

\* HOOK_TIMEOUT: the shell is killed and the call fails.
HookTimesOut(p) ==
    /\ hook[p] = "running" /\ HookMayFail
    /\ hook' = [hook EXCEPT ![p] = "failed"]
    /\ Go(p, "waiting", "failed")
    /\ UNCHANGED <<path, configured, shutdown, history>>

\* The shutdown branch of the task's select drops prepare() where it is.
DropPreparation(p) ==
    /\ shutdown
    /\ pc[p] \in InTask
    /\ pc' = [pc EXCEPT ![p] = "dropped"]
    /\ UNCHANGED <<path, configured, shutdown, hook, history>>

-----------------------------------------------------------------------------
(* The manager and the daemon, and the shell of the hook.                  *)

\* Prepared is handled: the stages start, before_run first.
Launch(p) ==
    /\ ~shutdown
    /\ Go(p, "ready", "launched")
    /\ UNCHANGED <<path, configured, shutdown, hook, history>>

\* The last stage of the IssueRun, or a failed preparation, is drained.
Drain(p) ==
    /\ Go(p, "launched", "drained") \/ Go(p, "failed", "drained")
    /\ UNCHANGED <<path, configured, shutdown, hook, history>>

ShutDown ==
    /\ MayStop /\ ~shutdown
    /\ shutdown' = TRUE
    /\ UNCHANGED <<path, configured, pc, hook, history>>

\* The daemon ends, in order or by a crash, and another one is started: every
\* task is gone, no hook is killed.
Restart ==
    /\ MayStop
    /\ shutdown' = FALSE
    /\ pc' = [p \in Prep |-> IF pc[p] \in Reserved THEN "dropped" ELSE pc[p]]
    /\ UNCHANGED <<path, configured, hook, history>>

HookEnds(p) ==
    /\ hook[p] \in {"running", "held"}
    /\ \/ hook' = [hook EXCEPT ![p] = "ok"]
       \/ HookMayFail /\ hook' = [hook EXCEPT ![p] = "failed"]
    /\ UNCHANGED <<path, configured, shutdown, pc, history>>

\* The shell is gone, and with it its timeout; a descendant holds its output.
LeaveDescendant(p) ==
    /\ Descendants
    /\ hook[p] = "running"
    /\ hook' = [hook EXCEPT ![p] = "held"]
    /\ UNCHANGED <<path, configured, shutdown, pc, history>>

-----------------------------------------------------------------------------

Task(p) ==
    \/ Stat(p) \/ MakeDir(p) \/ MakeDirFails(p)
    \/ NoHook(p) \/ HookNotStarted(p) \/ StartHook(p) \/ HookReturns(p)

Done ==
    /\ \A p \in Prep : pc[p] \notin InTask
    /\ UNCHANGED vars

Next ==
    \/ \E p \in Prep :
        \/ Dispatch(p) \/ Task(p) \/ HookTimesOut(p) \/ DropPreparation(p)
        \/ Launch(p) \/ Drain(p) \/ HookEnds(p) \/ LeaveDescendant(p)
    \/ ShutDown \/ Restart \/ Done

Spec == Init /\ [][Next]_vars

\* Tasks are polled and the timer of a hook expires; a hook owes nothing.
Fairness == \A p \in Prep : WF_vars(Task(p)) /\ WF_vars(HookTimesOut(p))

FairSpec == Spec /\ Fairness

-----------------------------------------------------------------------------
(* Properties.                                                             *)

\* Stages start in a directory that is there, and without a finished setup
\* only if the directory is older than Vik or another IssueRun made it and
\* its hook failed, was cut off, or still runs; never the IssueRun's own.
LaunchIsExplained ==
    \A p \in Prep : pc[p] \in {"ready", "launched"} =>
        /\ path = "dir"
        /\ hook[p] = "ok" \/ p \notin made
        /\ existed \/ \E q \in made : hook[q] = "ok" \/ q # p

\* A hook that clones or initialises must not run over a workspace in use, and
\* existing workspaces skip it (docs/development/architecture.md): an IssueRun
\* dispatched after any earlier one had made the directory never runs it,
\* across failures, shutdown and restarts.
EstablishedIsLeftAlone == \A p \in late : p \notin made /\ hook[p] = "none"

\* What a comment says of a failed hook (hooks/mod.rs): the next intake cycle
\* retries it, so no stage starts where every after_create has failed.
FailedHookIsRetried ==
    (\E q \in made : hook[q] = "failed") /\ (\E p \in Prep : pc[p] = "launched") =>
        \E q \in made : hook[q] # "failed"

\* What the manager waits for, of a preparation: it ends, unless its hook
\* leaves a descendant that holds the output, timeout or not.
PreparationReturns ==
    \A p \in Prep : pc[p] \in InTask ~> (pc[p] \notin InTask \/ hook[p] = "held")

\* Who has made the directory, who has run a hook, and what is at the path.
\* (Inductive; it implies the first two properties.)
PrepInv ==
    /\ TypeOK
    /\ path = "dir" <=> existed \/ made # {}
    /\ late # {} => made # {}
    /\ \A p \in Prep :
        /\ p \in made => pc[p] \notin {"none", "stat", "mkdir"}
        /\ pc[p] \in {"hook", "waiting"} => p \in made
        /\ hook[p] # "none" => p \in made
        /\ pc[p] \in {"ready", "launched"} => path = "dir" /\ (hook[p] = "ok" \/ p \notin made)
        /\ p \in late => p \notin made /\ pc[p] \notin {"none", "mkdir"}

=============================================================================
