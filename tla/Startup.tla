------------------------------ MODULE Startup ------------------------------
(***************************************************************************)
(* Invocations of vik on one workflow file (cli/mod.rs, workflow/          *)
(* loader.rs): the file is found, read and parsed; doctor reports on the   *)
(* schema, every other command promotes it to a Workflow; a running daemon *)
(* launches its stages (session/factory.rs).  The author may change the    *)
(* file at any moment.                                                     *)
(***************************************************************************)
EXTENDS WorkflowConfig

CONSTANTS
    Documents,       \* what the file may say
    MaxInvocations,  \* bound: invocations of vik
    MaxEdits         \* bound: edits of the file

VARIABLES
    file,     \* what is at the path: [kind, doc]
    edits,    \* how often it was changed
    cmd,      \* the command of this invocation: [name, strict, home], home
              \* whether its caller has a home directory or VIK_HOME
    pc,       \* where the invocation is
    contents, \* the text it has read
    code,     \* its exit code
    count,    \* the invocations so far
    answers,  \* history: [cmd, doc, ok], what each one made of its text
    launches  \* history: how the launches of stages went

fileVars == <<file, edits>>
vars == <<fileVars, cmd, pc, contents, code, count, answers, launches>>

\* doctor does not look at the environment.
Command == [name : {"doctor"}, strict : BOOLEAN, home : {TRUE}]
           \cup [name : {"run"}, strict : {FALSE}, home : BOOLEAN]

Text(doc) == [kind |-> "text", doc |-> doc]
NoText    == {[kind |-> k, doc |-> <<>>] : k \in {"absent", "dir", "denied"}}

Init ==
    /\ file \in {Text(d) : d \in Documents}
    /\ edits = 0
    /\ cmd = [name |-> "none", strict |-> FALSE, home |-> FALSE]
    /\ pc = "shell"
    /\ contents = <<>>
    /\ code = 0
    /\ count = 0
    /\ answers = {}
    /\ launches = {}

-----------------------------------------------------------------------------
(* One invocation.                                                         *)

\* Arguments that clap refuses, or help and version.
Usage ==
    /\ pc = "shell" /\ count < MaxInvocations
    /\ count' = count + 1
    /\ code' \in {2, 0}
    /\ UNCHANGED <<fileVars, cmd, pc, contents, answers, launches>>

Invoke ==
    /\ pc = "shell" /\ count < MaxInvocations
    /\ cmd' \in Command
    /\ pc' = "stat"
    /\ count' = count + 1
    /\ UNCHANGED <<fileVars, contents, code, answers, launches>>

Answer(ok) == answers' = answers \cup {[cmd |-> cmd, doc |-> contents, ok |-> ok]}

Exit(status) ==
    /\ pc' = "shell"
    /\ contents' = <<>>
    /\ code' = status
    /\ UNCHANGED <<fileVars, cmd, count, launches>>

\* ensure_valid_workflow_path.
StatFails ==
    /\ pc = "stat" /\ file.kind # "text"
    /\ Exit(1)
    /\ UNCHANGED answers

StatSucceeds ==
    /\ pc = "stat" /\ file.kind = "text"
    /\ pc' = "read"
    /\ UNCHANGED <<fileVars, cmd, contents, code, count, answers, launches>>

\* The file may have changed since it was looked at.
ReadFails ==
    /\ pc = "read" /\ file.kind # "text"
    /\ Exit(1)
    /\ UNCHANGED answers

ReadSucceeds ==
    /\ pc = "read" /\ file.kind = "text"
    /\ contents' = file.doc
    /\ pc' = "parse"
    /\ UNCHANGED <<fileVars, cmd, code, count, answers, launches>>

ParseFails ==
    /\ pc = "parse" /\ ~Parses(contents)
    /\ Exit(1)
    /\ Answer(FALSE)

ParseSucceeds ==
    /\ pc = "parse" /\ Parses(contents)
    /\ pc' = IF cmd.name = "doctor" THEN "doctor" ELSE "promote"
    /\ UNCHANGED <<fileVars, cmd, contents, code, count, answers, launches>>

Schema   == Parse(contents)
Findings == Diagnose(Schema)

\* doctor_exit_code.
Doctor ==
    LET fails == HasErrors(Findings) \/ (HasWarnings(Findings) /\ cmd.strict) IN
    /\ pc = "doctor"
    /\ Exit(IF fails THEN 1 ELSE 0)
    /\ Answer(~fails)

\* Workflow::try_from: errors only.
PromotionRefused ==
    /\ pc = "promote" /\ HasErrors(Findings)
    /\ Exit(1)
    /\ Answer(FALSE)

NeedsHome(root) == root \in {<<>>, <<"~/vik">>}

\* Whether the workspace of a schema has a root for this command.
RootResolves(command, schema) == command.home \/ ~NeedsHome(schema.workspace.root)

\* from_schema_unchecked: the root does not resolve.
RootRefused ==
    /\ pc = "promote" /\ ~HasErrors(Findings)
    /\ ~RootResolves(cmd, Schema)
    /\ Exit(1)
    /\ Answer(FALSE)

Promoted ==
    /\ pc = "promote" /\ ~HasErrors(Findings)
    /\ RootResolves(cmd, Schema)
    /\ pc' = "running"
    /\ Answer(TRUE)
    /\ UNCHANGED <<fileVars, cmd, contents, code, count, launches>>

\* SessionFactory::spawn_stage looks the profile of a matched stage up.
SpawnStage ==
    /\ pc = "running"
    /\ \E s \in DOMAIN Schema.issue.stages :
        launches' = launches \cup
            {IF Schema.issue.stages[s].agent \in DOMAIN Schema.agents
             THEN "spawned" ELSE "profile_not_found"}
    /\ UNCHANGED <<fileVars, cmd, pc, contents, code, count, answers>>

Return ==
    /\ pc = "running"
    /\ Exit(0)
    /\ UNCHANGED answers

-----------------------------------------------------------------------------

Edit ==
    /\ edits < MaxEdits
    /\ edits' = edits + 1
    /\ file' \in ({Text(d) : d \in Documents} \cup NoText) \ {file}
    /\ UNCHANGED <<cmd, pc, contents, code, count, answers, launches>>

Done == pc = "shell" /\ UNCHANGED vars

Next ==
    \/ Usage \/ Invoke
    \/ StatFails \/ StatSucceeds \/ ReadFails \/ ReadSucceeds
    \/ ParseFails \/ ParseSucceeds \/ Doctor
    \/ PromotionRefused \/ RootRefused \/ Promoted
    \/ SpawnStage \/ Return \/ Edit \/ Done

Spec == Init /\ [][Next]_vars

-----------------------------------------------------------------------------
(* Properties.                                                             *)

\* Whatever the author wrote or writes meanwhile: a workflow that runs is one
\* the orchestrator can work with.  Its manager has room for an issue, its
\* intake does not spin and its loop is not over before it begins, it has
\* stages, and none of them fails for want of its profile or its prompt.
RunsOnlyWorkable ==
    /\ "profile_not_found" \notin launches
    /\ pc = "running" =>
        /\ Schema.loop.max_issue_concurrency > 0
        /\ Schema.loop.max_iterations # <<0>>
        /\ Schema.issues.pull.idle_sec > 0
        /\ DOMAIN Schema.issue.stages # {}
        /\ \A s \in DOMAIN Schema.issue.stages :
            Schema.issue.stages[s].agent \in DOMAIN Schema.agents
            /\ Schema.issue.stages[s].prompt # ""

\* cli/doctor.rs: doctor's job is to surface the errors that would block the
\* construction of the workflow.  There is one it does not: on the same text,
\* a run is refused that doctor was content with only for want of the home
\* that the workspace root needs, and none is accepted that doctor refused.
DoctorForetellsRun ==
    \A d, r \in answers :
        d.cmd.name = "doctor" /\ ~d.cmd.strict /\ r.cmd.name = "run" /\ d.doc = r.doc
            => (r.ok <=> d.ok /\ (r.cmd.home \/ ~NeedsHome(Parse(d.doc).workspace.root)))

\* All the keys, by name, that no section of a document knows.
IgnoredKeys(doc) ==
    LET stages == {doc.issue.stages[s] : s \in DOMAIN doc.issue.stages}
        Of(option) == UNION {option[i].unknown : i \in DOMAIN option}
    IN  UNION ({doc.unknown, doc.issues.unknown, doc.issues.pull.unknown, doc.issue.unknown,
                Of(doc.loop), Of(doc.workspace), Of(doc.issue.hooks)}
               \cup {doc.agents[a].unknown : a \in DOMAIN doc.agents}
               \cup {s.unknown \cup s.when.unknown \cup Of(s.hooks) : s \in stages})

\* A strict doctor that is content has understood every key by name of every
\* section: no typo of an option is silently taken for its absence.
StrictMeansUnderstood ==
    \A a \in answers : a.cmd.strict /\ a.ok => IgnoredKeys(a.doc) \subseteq NumberKey

=============================================================================
