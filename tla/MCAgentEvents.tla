--------------------------- MODULE MCAgentEvents ---------------------------
(* Provider lines for AgentEvents.                                         *)
EXTENDS Adapters

say(t)      == [type |-> "text", text |-> t]
use(i, n)   == [type |-> "tool_use", id |-> i, name |-> n, input |-> "x"]
result(i)   == [type |-> "tool_result", id |-> i, content |-> "x"]
usage(n)    == [input |-> n, output |-> 1]

ClaudeLines == {
    [type |-> "system", subtype |-> "init", session_id |-> "S1"],
    [type |-> "system", subtype |-> "init", session_id |-> "S2"],
    [type |-> "system", subtype |-> "init", session_id |-> Empty],
    [type |-> "system", subtype |-> "hook"],
    [type |-> "assistant", content |-> <<say(Empty), say("a"), use("t1", "Bash")>>],
    [type |-> "assistant", content |-> <<use("t1", "Task"), say("b")>>],
    [type |-> "assistant", content |-> <<[type |-> "text"], say("a")>>],
    [type |-> "assistant", content |-> <<[type |-> "image"]>>],
    [type |-> "assistant", content |-> <<say("a"), [type |-> "tool_use", id |-> "t1", name |-> "Bash"]>>],
    [type |-> "user", content |-> <<[type |-> "tool_result", id |-> "t1"]>>],
    [type |-> "user", content |-> <<result("t1"), say("a")>>],
    [type |-> "user"],
    [type |-> "result"],
    [type |-> "result", usage |-> usage(2)],
    [type |-> "result", usage |-> [input |-> Bad]],
    [type |-> "future"],
    [model |-> "m"] }

item(t) == [type |-> t, id |-> "i1"]

CodexLines ==
    {[type |-> s, item |-> item(t)] :
        s \in {"item.started", "item.completed"},
        t \in {"agent_message", "command_execution", "mcp_tool_call", "collab_tool_call", "todo"}}
    \cup {
    [type |-> "thread.started", thread_id |-> "T1"],
    [type |-> "thread.started", thread_id |-> "T2"],
    [type |-> "thread.started"],
    [type |-> "item.completed", item |-> [type |-> "agent_message", id |-> "i2", text |-> "a"]],
    [type |-> "item.completed", item |-> [type |-> "agent_message", id |-> "i2", text |-> Bad]],
    [type |-> "item.completed", item |-> [type |-> "collab_tool_call", id |-> "i2", status |-> Bad]],
    [type |-> "item.completed", item |-> [type |-> "command_execution"]],
    [type |-> "turn.completed"],
    [type |-> "turn.completed", usage |-> usage(3)],
    [type |-> "turn.completed", usage |-> [input |-> 1, reasoning_output |-> Bad]],
    [type |-> "turn.failed", error |-> "e"],
    [type |-> "error", message |-> "m"],
    [type |-> "turn.started"] }

limit(s, n, t) == [kind |-> "RateLimit", scope |-> s, remaining |-> n, observed |-> t]
tokensUsed(n)  == Usage([f \in Counts |-> n])

CustomLines == {
    <<limit("tokens", 1, 1)>>, <<limit("tokens", 2, 2)>>, <<limit("tokens", 3, 2)>>,
    <<limit("requests", 1, 1), tokensUsed(2)>>,
    <<tokensUsed(3), Started("S1")>>, <<Started("S2")>>,
    <<tokensUsed(2), Failure, Message(<<"late">>)>> }

Runtimes == {"claude_code", "codex", "custom"}

AllLines == [r \in Runtimes |-> CASE r = "claude_code" -> ClaudeLines
                                [] r = "codex" -> CodexLines
                                [] r = "custom" -> CustomLines]

LineBounds == [r \in Runtimes |-> IF r = "custom" THEN 3 ELSE 2]
=============================================================================
