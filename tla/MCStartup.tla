----------------------------- MODULE MCStartup -----------------------------
(* Documents for Startup: one valid workflow, and what goes wrong in it.   *)
EXTENDS Naturals, Sequences

Keys == {{}, {"typo"}, {"#7"}}
Hook(keys) == <<[unknown |-> keys]>>

Stage(agent, path, inline, state, hooks) ==
    [when |-> [state |-> state, unknown |-> {}], agent |-> agent,
     prompt_file |-> path, prompt |-> inline, hooks |-> hooks, unknown |-> {}]

Plan == Stage("codex", <<"plan.md">>, <<>>, "todo", <<>>)

Loop(cap, wait, max) ==
    [max_issue_concurrency |-> cap, wait_ms |-> wait, max_iterations |-> max, unknown |-> {}]

Only(name, value) == [n \in {name} |-> value]
Codex == Only("codex", [model |-> "gpt", unknown |-> {}])

Document(loop, workspace, agents, idle, stages) ==
    [complete |-> TRUE, loop |-> loop, workspace |-> workspace, agents |-> agents,
     issues |-> [pull |-> [command |-> "pull", idle_sec |-> idle, unknown |-> {}],
                 unknown |-> {}],
     issue |-> [hooks |-> <<>>, stages |-> stages, unknown |-> {}],
     unknown |-> {}]

Valid == Document(<<>>, <<>>, Codex, <<>>, Only("plan", Plan))

\* Numbers and sections.
Sections ==
    {Document(l, w, a, i, Only("plan", Plan)) :
        l \in {<<>>} \cup {<<Loop(c, t, m)>> : c \in {<<>>, <<0>>, <<1>>},
                                              t \in {<<>>, <<0>>}, m \in {<<>>, <<0>>, <<1>>}},
        w \in {<<>>} \cup {<<[root |-> r, unknown |-> {}]>> : r \in {<<>>, <<"">>, <<"~/vik">>}},
        a \in {<<>>, Codex, Only("codex", [model |-> " ", unknown |-> {}])},
        i \in {<<>>, <<0>>}}

\* Stages.
Stages ==
    {[Valid EXCEPT !.issue.stages = <<>>]} \cup
    {Document(<<>>, <<>>, Codex, <<>>, Only(n, Stage(a, f, p, s, <<>>))) :
        n \in {"plan", "", " "}, a \in {"codex", " codex", "other", "", " "},
        f \in {<<>>, <<"plan.md">>, <<"">>}, p \in {<<>>, <<"do it">>, <<" ">>},
        s \in {"todo", ""}}

\* Keys nobody knows, one place at a time.
Typos ==
    UNION {{
        [Valid EXCEPT !.unknown = k],
        [Valid EXCEPT !.loop = <<[Loop(<<>>, <<>>, <<>>) EXCEPT !.unknown = k]>>],
        [Valid EXCEPT !.workspace = <<[root |-> <<".vik">>, unknown |-> k]>>],
        [Valid EXCEPT !.agents["codex"].unknown = k],
        [Valid EXCEPT !.issues.unknown = k],
        [Valid EXCEPT !.issues.pull.unknown = k],
        [Valid EXCEPT !.issue.unknown = k],
        [Valid EXCEPT !.issue.hooks = Hook(k)],
        [Valid EXCEPT !.issue.stages["plan"].unknown = k],
        [Valid EXCEPT !.issue.stages["plan"].when.unknown = k],
        [Valid EXCEPT !.issue.stages["plan"].hooks = Hook(k)],
        [Valid EXCEPT !.issues.pull.command = ""],
        [Valid EXCEPT !.complete = FALSE]} : k \in Keys}

AllDocuments == Sections \cup Stages \cup Typos

\* A file that changes under the command's hands.
Versions ==
    {Valid,
     [Valid EXCEPT !.complete = FALSE],
     [Valid EXCEPT !.issue.stages["plan"].agent = "other"],
     [Valid EXCEPT !.unknown = {"typo"}],
     [Valid EXCEPT !.workspace = <<[root |-> <<>>, unknown |-> {}]>>]}
=============================================================================
