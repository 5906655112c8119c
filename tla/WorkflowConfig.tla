--------------------------- MODULE WorkflowConfig ---------------------------
(***************************************************************************)
(* The workflow schema and its diagnosis (config/).  A document is what an *)
(* author writes, a schema what the parser makes of it.                    *)
(*                                                                         *)
(* An optional value is a sequence of at most one element.  Each section   *)
(* keeps the set of its keys that Vik does not know (unknown); a pointer   *)
(* is the sequence of its segments.  Operators named Mut_... are seeded    *)
(* faults.                                                                 *)
(***************************************************************************)
EXTENDS Naturals, Sequences

Blank     == {"", " "}    \* the strings that trim to nothing
NumberKey == {"#7"}       \* YAML keys that are no strings

OrElse(option, default) == IF option = <<>> THEN default ELSE option[1]

-----------------------------------------------------------------------------
(* Parsing: defaults, and what serde refuses.                              *)

LoopDefault == [max_issue_concurrency |-> 10, wait_ms |-> 5000,
                max_iterations |-> <<>>, unknown |-> {}]

ParseLoop(doc) ==
    [max_issue_concurrency |->
        OrElse(doc.max_issue_concurrency, LoopDefault.max_issue_concurrency),
     wait_ms |-> OrElse(doc.wait_ms, LoopDefault.wait_ms),
     max_iterations |-> doc.max_iterations,
     unknown |-> doc.unknown]

\* A missing section has the root .vik, a section without root has none.
WorkspaceDefault == [root |-> <<".vik">>, unknown |-> {}]

ParsePull(doc) ==
    [command |-> doc.command, idle_sec |-> OrElse(doc.idle_sec, 5), unknown |-> doc.unknown]

\* Exactly one of prompt_file and prompt.
PromptSource(doc) == (doc.prompt_file = <<>>) # (doc.prompt = <<>>)

\* The map key is the stage's name; its hooks may be left out.
ParseStage(name, doc) ==
    [name   |-> name,
     when   |-> doc.when,
     agent  |-> doc.agent,
     prompt |-> IF doc.prompt # <<>> THEN doc.prompt[1] ELSE doc.prompt_file[1],
     source |-> IF doc.prompt # <<>> THEN "prompt" ELSE "prompt_file",
     hooks  |-> OrElse(doc.hooks, [unknown |-> {}]),
     unknown |-> doc.unknown]

\* Whether serde_yaml accepts the document.
Parses(doc) ==
    doc.complete /\ \A s \in DOMAIN doc.issue.stages : PromptSource(doc.issue.stages[s])

Parse(doc) ==
    [loop      |-> IF doc.loop = <<>> THEN LoopDefault ELSE ParseLoop(doc.loop[1]),
     workspace |-> OrElse(doc.workspace, WorkspaceDefault),
     agents    |-> doc.agents,
     issues    |-> [pull |-> ParsePull(doc.issues.pull), unknown |-> doc.issues.unknown],
     issue     |-> [hooks   |-> OrElse(doc.issue.hooks, [unknown |-> {}]),
                    stages  |-> [s \in DOMAIN doc.issue.stages |->
                                    ParseStage(s, doc.issue.stages[s])],
                    unknown |-> doc.issue.unknown],
     unknown   |-> doc.unknown]

-----------------------------------------------------------------------------
(* Findings.                                                               *)

Error(pointer, code)   == [severity |-> "error", pointer |-> pointer, code |-> code]
Warning(pointer, code) == [severity |-> "warning", pointer |-> pointer, code |-> code]

HasErrors(findings)   == \E f \in findings : f.severity = "error"
HasWarnings(findings) == \E f \in findings : f.severity = "warning"

\* extends_with_pointer; an empty segment adds nothing.
Segment(name) == IF name = "" THEN <<>> ELSE <<name>>
Under(pointer, findings) == {[f EXCEPT !.pointer = pointer \o @] : f \in findings}

ErrorIf(condition, pointer, code) == IF condition THEN {Error(pointer, code)} ELSE {}

ErrorIfEmptyStr(field, value) == ErrorIf(value \in Blank, <<field>>, "empty_str")
ErrorIfEmptyPath(field, value) == ErrorIf(value = "", <<field>>, "empty_str")

ErrorIfNonPositive(field, value) == ErrorIf(value = 0, <<field>>, "non_positive_number")

WarnUnknownFields(keys) == {Warning(<<k>>, "unknown_field") : k \in keys \ NumberKey}

-----------------------------------------------------------------------------
(* Diagnose, section by section.                                           *)

DiagnoseLoop(loop) ==
    ErrorIfNonPositive("max_issue_concurrency", loop.max_issue_concurrency)
    \cup ErrorIfNonPositive("wait_ms", loop.wait_ms)
    \cup (IF loop.max_iterations = <<>> THEN {}
          ELSE ErrorIfNonPositive("max_iterations", loop.max_iterations[1]))
    \cup WarnUnknownFields(loop.unknown)

DiagnoseWorkspace(workspace) ==
    (IF workspace.root = <<>> THEN {} ELSE ErrorIfEmptyPath("root", workspace.root[1]))
    \cup WarnUnknownFields(workspace.unknown)

DiagnoseAgent(profile) ==
    ErrorIfEmptyStr("model", profile.model) \cup WarnUnknownFields(profile.unknown)

DiagnoseAgents(agents) ==
    ErrorIf(DOMAIN agents = {}, <<>>, "empty_map")
    \cup (UNION {Under(Segment(p), DiagnoseAgent(agents[p])) : p \in DOMAIN agents})

DiagnoseIssues(issues) ==
    Under(<<"pull">>, ErrorIfEmptyStr("command", issues.pull.command)
                      \cup ErrorIfNonPositive("idle_sec", issues.pull.idle_sec)
                      \cup WarnUnknownFields(issues.pull.unknown))
    \cup WarnUnknownFields(issues.unknown)

Mut_UnknownAgent(stage, agents) ==
    ErrorIf(stage.agent \notin Blank /\ DOMAIN agents = {}, <<"agent">>, "unknown_agent")

\* The profile must be there under the very name, blanks included.
UnknownAgent(stage, agents) ==
    ErrorIf(stage.agent \notin Blank /\ stage.agent \notin DOMAIN agents,
            <<"agent">>, "unknown_agent")

DiagnosePrompt(stage) ==
    IF stage.source = "prompt" THEN ErrorIfEmptyStr("prompt", stage.prompt)
    ELSE ErrorIfEmptyPath("prompt_file", stage.prompt)

Mut_DiagnoseStage(stage, agents) ==
    Under(<<"when">>, ErrorIfEmptyStr("state", stage.when.state))
    \cup Under(<<"hooks">>, WarnUnknownFields(stage.hooks.unknown))
    \cup ErrorIfEmptyStr("agent", stage.agent)
    \cup UnknownAgent(stage, agents)
    \cup DiagnosePrompt(stage)
    \cup WarnUnknownFields(stage.unknown)

DiagnoseStage(stage, agents) ==
    Under(<<"when">>, ErrorIfEmptyStr("state", stage.when.state)
                      \cup WarnUnknownFields(stage.when.unknown))
    \cup Under(<<"hooks">>, WarnUnknownFields(stage.hooks.unknown))
    \cup ErrorIfEmptyStr("agent", stage.agent)
    \cup UnknownAgent(stage, agents)
    \cup DiagnosePrompt(stage)
    \cup WarnUnknownFields(stage.unknown)

StagePointer(name) == IF name \in Blank THEN <<"stages">> ELSE <<"stages", name>>

DiagnoseIssue(issue, agents) ==
    ErrorIf(DOMAIN issue.stages = {}, <<"stages">>, "empty_map")
    \cup (UNION {ErrorIfEmptyStr("stages", s)
                 \cup Under(StagePointer(s), DiagnoseStage(issue.stages[s], agents))
                     : s \in DOMAIN issue.stages})
    \cup Under(<<"hooks">>, WarnUnknownFields(issue.hooks.unknown))
    \cup WarnUnknownFields(issue.unknown)

Diagnose(schema) ==
    Under(<<"loop">>, DiagnoseLoop(schema.loop))
    \cup Under(<<"workspace">>, DiagnoseWorkspace(schema.workspace))
    \cup Under(<<"agents">>, DiagnoseAgents(schema.agents))
    \cup Under(<<"issues">>, DiagnoseIssues(schema.issues))
    \cup Under(<<"issue">>, DiagnoseIssue(schema.issue, schema.agents))
    \cup WarnUnknownFields(schema.unknown)

=============================================================================
