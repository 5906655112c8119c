---------------------------- MODULE MCComponents ----------------------------
(***************************************************************************)
(* The components around the session and orchestrator core, for TLC: the   *)
(* sum of independent parts.  A behaviour belongs to one part, a component *)
(* in one setting, from beginning to end; the variables of the component   *)
(* are the first of x1, x2, ... in the order of its declaration, the rest  *)
(* are Unused.  A property names the part it is about.                     *)
(***************************************************************************)
EXTENDS MCWorkspaces, MCStartup, MCPromptRender, MCAgentEvents, FiniteSets

CONSTANTS
    Parts,      \* the parts of this run
    Operators,  \* process ids of the part "disciplined"
    Pids,       \* process ids of the part "races"
    Templates,  \* what the template engine may make of a prompt
    Outputs,    \* what a prompt command writes
    Files,      \* workflow files of the parts "spelled" and "edited"
    Spellings,  \* arguments of the part "spelled"
    Mentions,   \* arguments of the part "edited"
    Workflows,  \* workflow files of the part "documents"
    Revisions,  \* what a file of the part "rewritten" may say
    MaxInvocations, MaxEdits,          \* of these two parts
    RetentionDays, LastDay, Strangers, \* of the part "retention"
    ProviderLines, MaxTotal, LogRoom   \* of the part "events"

VARIABLES part, x1, x2, x3, x4, x5, x6, x7, x8, x9, x10, x11, x12

\* The variables from the n-th on.
From10 == <<x10, x11, x12>>
From9  == <<x9, From10>>
From7  == <<x7, x8, From9>>
From6  == <<x6, From7>>
From3  == <<x3, x4, x5, From6>>

all == <<part, x1, x2, From3>>

Unused10 == x10 = 0 /\ x11 = 0 /\ x12 = 0
Unused9  == x9 = 0 /\ Unused10
Unused7  == x7 = 0 /\ x8 = 0 /\ Unused9
Unused6  == x6 = 0 /\ Unused7
Unused3  == x3 = 0 /\ x4 = 0 /\ x5 = 0 /\ Unused6

-----------------------------------------------------------------------------

OneByOne == INSTANCE Daemon WITH
    Pids <- Operators, Disciplined <- TRUE, proc <- x1, file <- x2

Races == INSTANCE Daemon WITH
    Disciplined <- FALSE, proc <- x1, file <- x2

Detach == INSTANCE Detach WITH
    pc <- x1, writers <- x2, pipe <- x3, session <- x4, hupIgnored <- x5, nulled <- x6

Events == INSTANCE AgentEvents WITH
    Lines <- ProviderLines, MaxLines <- LineBounds, MaxCount <- MaxTotal, LogCapacity <- LogRoom,
    runtime <- x1, read <- x2, line <- x3, todo <- x4, id <- x5, message <- x6, tokens <- x7,
    limits <- x8, state <- x9, queue <- x10, disk <- x11, heard <- x12

\* One file in many spellings, from many places.
Spelled == INSTANCE Workspaces WITH
    Arguments <- Spellings, Envs <- OneLogin, Roots <- AllRoots,
    Obstacles <- HomeTaken, MayEdit <- FALSE,
    text <- x1, dirs <- x2, daemons <- x3, records <- x4, last <- x5

\* Files that share a home, and are edited.
Edited == INSTANCE Workspaces WITH
    Arguments <- Mentions, Envs <- AllEnvs, Roots <- OnlyNull,
    Obstacles <- NoObstacles, MayEdit <- TRUE,
    text <- x1, dirs <- x2, daemons <- x3, records <- x4, last <- x5

Documented == INSTANCE Startup WITH
    Documents <- Workflows, MaxEdits <- 0,
    file <- x1, edits <- x2, cmd <- x3, pc <- x4, contents <- x5, code <- x6, count <- x7,
    answers <- x8, launches <- x9

\* A file that changes under the command's hands.
Rewritten == INSTANCE Startup WITH
    Documents <- Revisions,
    file <- x1, edits <- x2, cmd <- x3, pc <- x4, contents <- x5, code <- x6, count <- x7,
    answers <- x8, launches <- x9

Prompt == INSTANCE PromptRender WITH
    pc <- x1, text <- x2, spans <- x3, status <- x4, output <- x5, prompt <- x6

Retention == INSTANCE LogRetention WITH
    Retention <- RetentionDays, Others <- Strangers,
    today <- x1, dir <- x2, files <- x3, pc <- x4, open <- x5, cutoff <- x6, todo <- x7,
    stuck <- x8

\* A process id is not the absence of one.
ASSUME PidAssumption == Races!NoPid \notin Pids \cup Operators

IsSequence(s) == s \in Seq({s[i] : i \in DOMAIN s})

\* A path that neither stays with . nor climbs with ..
Dots == {Spelled!Dot, Spelled!DotDot}
IsDirect(path) == IsSequence(path) /\ \A i \in DOMAIN path : path[i] \notin Dots

\* Arguments name workflow files.  In the part "spelled" an absolute one is
\* direct, as is the directory of any caller; in the part "edited" it need not
\* be.
ASSUME PlaceAssumption ==
    /\ \A a \in Spellings :
        /\ IsSequence(a.path) /\ IsDirect(IF a.abs THEN a.path ELSE a.cwd)
        /\ Spelled!Canonicalize(a) \in Files
    /\ \A a \in Mentions : Edited!Located(Edited!Canonicalize(a)) \in Files

\* What the types of the schema say of any document: an option has at most one
\* value, and numbers are natural.
IsOption(o) == o = <<>> \/ DOMAIN o = {1}
IsCount(o)  == IsOption(o) /\ (o # <<>> => o[1] \in Nat)

IsDocument(doc) ==
    /\ IsOption(doc.loop) /\ IsOption(doc.workspace) /\ IsOption(doc.issue.hooks)
    /\ doc.loop # <<>> => IsCount(doc.loop[1].max_issue_concurrency)
    /\ IsCount(doc.issues.pull.idle_sec)
    /\ \A s \in DOMAIN doc.issue.stages : IsOption(doc.issue.stages[s].hooks)

ASSUME DocumentAssumption == \A doc \in Workflows \cup Revisions : IsDocument(doc)

\* Logs are kept for a day at least, and no other file is named like one.
ASSUME RetentionAssumption ==
    RetentionDays \in Nat \ {0} /\ LastDay \in Nat /\ Strangers \cap Retention!Prefix = {}

\* An event as its type has it: counts and times are natural numbers, and an
\* id is not the absence of one.
IsEvent(e) ==
    /\ e.kind = "TokenUsage" => e.usage \in [Events!Counts -> Nat]
    /\ e.kind = "RateLimit" => e.observed \in Nat
    /\ e.kind = "SessionStarted" => e.id # Events!None

IsEvents(s) == IsSequence(s) /\ \A i \in DOMAIN s : IsEvent(s[i])

\* What the wire types say of a line, where it decodes.
IsLine(v) ==
    /\ Events!Given(v, "content") => IsSequence(v.content)
    /\ Events!Given(v, "usage") =>
         \A f \in Events!Counts \cap DOMAIN v.usage : v.usage[f] \in Nat \cup {Bad}
    /\ Events!Given(v, "session_id") => v.session_id # Events!None
    /\ Events!Given(v, "thread_id") => v.thread_id # Events!None

ASSUME EventAssumption ==
    /\ \A v \in ProviderLines["codex"] \cup ProviderLines["claude_code"] : IsLine(v)
    /\ \A v \in ProviderLines["custom"] : IsEvents(v)
    /\ MaxTotal \in Nat /\ LogRoom \in Nat

\* Texts and outputs are sequences of tokens.
ASSUME TextAssumption == \A t \in Templates \cup Outputs : IsSequence(t)

-----------------------------------------------------------------------------

Init ==
    /\ part \in Parts
    /\ \/ part = "disciplined" /\ OneByOne!Init /\ Unused3
       \/ part = "races" /\ Races!Init /\ Unused3
       \/ part = "spelled" /\ Spelled!Init /\ Unused6
       \/ part = "edited" /\ Edited!Init /\ Unused6
       \/ part = "detach" /\ Detach!Init /\ Unused7
       \/ part = "prompt" /\ Prompt!Init /\ Unused7
       \/ part = "retention" /\ Retention!Init /\ Unused9
       \/ part = "documents" /\ Documented!Init /\ Unused10
       \/ part = "rewritten" /\ Rewritten!Init /\ Unused10
       \/ part = "events" /\ Events!Init

InOneByOne == part = "disciplined" /\ OneByOne!Next /\ UNCHANGED <<part, From3>>
InRaces       == part = "races" /\ Races!Next /\ UNCHANGED <<part, From3>>
InSpelled     == part = "spelled" /\ Spelled!Next /\ UNCHANGED <<part, From6>>
InEdited      == part = "edited" /\ Edited!Next /\ UNCHANGED <<part, From6>>
InDetach      == part = "detach" /\ Detach!Next /\ UNCHANGED <<part, From7>>
InPrompt      == part = "prompt" /\ Prompt!Next /\ UNCHANGED <<part, From7>>
InRetention   == part = "retention" /\ Retention!Next /\ UNCHANGED <<part, From9>>
InDocumented  == part = "documents" /\ Documented!Next /\ UNCHANGED <<part, From10>>
InRewritten   == part = "rewritten" /\ Rewritten!Next /\ UNCHANGED <<part, From10>>
InEvents      == part = "events" /\ Events!Next /\ UNCHANGED part

Next ==
    \/ InOneByOne \/ InRaces \/ InSpelled \/ InEdited \/ InDetach
    \/ InPrompt \/ InRetention \/ InDocumented \/ InRewritten \/ InEvents

Spec == Init /\ [][Next]_all

\* A daemon that has something to do is scheduled, the three processes of a
\* detach, and a session that renders.  (See the components.)
FairSpec ==
    /\ Spec
    /\ \A p \in Pids :
        /\ WF_all(part = "races" /\ Races!Boot(p) /\ UNCHANGED <<part, From3>>)
        /\ WF_all(part = "races" /\ Races!Receive(p) /\ UNCHANGED <<part, From3>>)
        /\ WF_all(part = "races" /\ Races!Close(p) /\ UNCHANGED <<part, From3>>)
    /\ WF_all(part = "detach" /\ Detach!LauncherStep /\ UNCHANGED <<part, From7>>)
    /\ WF_all(part = "detach" /\ Detach!IntermediateStep /\ UNCHANGED <<part, From7>>)
    /\ WF_all(part = "detach" /\ Detach!DaemonStep /\ UNCHANGED <<part, From7>>)
    /\ WF_all(part = "prompt" /\ Prompt!Poll /\ UNCHANGED <<part, From7>>)
    /\ WF_all(part = "prompt" /\ Prompt!Timeout /\ UNCHANGED <<part, From7>>)

-----------------------------------------------------------------------------
(* Properties.  The components state their parts.                          *)

\* Commands given one by one, with crashes, aborts, timeouts and stale records
\* between them, never lead to two daemons at work, and between commands the one
\* that serves is the one in the state file.
OneDaemonOnRecord ==
    part = "disciplined" => OneByOne!OneDaemon /\ OneByOne!ServingIsRecorded

\* Whatever commands race: a record outlives its daemon only when that crashed,
\* was told twice to stop, or could not remove it.
StaleIsExplained == part = "races" => Races!TypeOK /\ Races!StaleIsExplained

\* The exit status of `run -d' is the truth: success is a detached daemon, and
\* a failure that the daemon's side is the cause of leaves no daemon.
LauncherTellsTruth ==
    [][part = "detach" => Detach!SuccessMeansDetached' /\ Detach!FailureIsTheDaemons]_all

\* stop ends the daemon of the workflow file it was given, whoever asks from
\* wherever, and that of another only if its path makes the same key; `run -d'
\* is refused only by such a daemon.
DaemonOfTheFile ==
    /\ part = "spelled" => Spelled!StopReachesDaemon
    /\ part = "edited" => Edited!StopsOwnDaemon /\ Edited!RefusedByOwnDaemon

\* A stop never ends the daemon of another file.  The code does not keep this:
\* separators and dashes of a path are the same in the key.
WorkflowsKeepApart == part = "edited" => Edited!WorkflowsKeepApart

\* doctor and run agree on every text, but for a root that needs a home the
\* caller of run has not; and a strict doctor that is content has understood
\* every key in it.
DoctorIsRight ==
    part = "documents" => Documented!DoctorForetellsRun /\ Documented!StrictMeansUnderstood

\* What runs is a workflow the orchestrator can work with, also when the file
\* is saved, removed or replaced while the command looks at it.
RunsOnlyWorkable ==
    /\ part = "documents" => Documented!RunsOnlyWorkable
    /\ part = "rewritten" => Rewritten!RunsOnlyWorkable

\* In whatever order the commands of a prompt end, each is replaced by its own
\* output, and there is no prompt when one of them failed.
OutputInItsPlace == part = "prompt" => Prompt!OutputInItsPlace

\* The scan for old logs removes nothing young, foreign or open, and once over
\* has left of the old days only what would not go.
PrunesExactly ==
    [][part = "retention" => Retention!LosesOnlyOld /\ Retention!LeavesOnlyStuck]_all

\* The snapshot is what was heard: the first id, sums that never wrap, and of
\* each scope the newest rate limit however late the others arrive.
SnapshotIsWhatWasHeard ==
    part = "events" => Events!FirstIdWins /\ Events!TotalsSaturate /\ Events!LatestLimitWins

\* Nothing is lost of what an agent prints: each line has its events, they are
\* applied up to the one that ends the session, and the log holds them all
\* while its queue has room for the session.
NothingIsLost ==
    part = "events" => Events!NothingDisappears /\ Events!EndIsLast /\ Events!LogIsWhole

\* Also when the queue was full, the log holds what was heard, in order.
LogIsOrdered == part = "events" => Events!LogIsOrdered

\* Who waits is answered: the launcher of `run -d' is over, a prompt is
\* rendered or refused unless a descendant of a command holds its output, and
\* a daemon that got a signal ends, also when it came while it was starting up.
EveryoneIsAnswered ==
    /\ \A p \in Pids :
        (part = "races" /\ Races!Signals(p)) ~> (part = "races" /\ ~Races!IsDaemon(p))
    /\ <>(part = "detach" => Detach!LauncherIsOver)
    /\ (part = "prompt" /\ Prompt!Rendering)
         ~> \/ part = "prompt" /\ Prompt!Answered
            \/ [](part = "prompt" /\ Prompt!Rendering /\ Prompt!Held)
=============================================================================
