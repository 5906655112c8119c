------------------------------ MODULE Adapters ------------------------------
(***************************************************************************)
(* The provider adapters (agent/adapters): the events of one parsed line   *)
(* of provider output.  A JSON object is a record of the fields a provider *)
(* may send; Bad is a value of a type the decoder does not accept.  A text *)
(* is a token, and the text of a message the sequence of its texts (joined *)
(* by line breaks in the code).                                            *)
(* Operators named Mut_... are seeded faults.                              *)
(***************************************************************************)
EXTENDS Naturals, Sequences, SequencesExt

CONSTANT Bad   \* model value

Empty == ""

Given(v, f)   == f \in DOMAIN v /\ v[f] # Bad
Optional(v, f) == f \in DOMAIN v => v[f] # Bad
Type(v)       == IF Given(v, "type") THEN v.type ELSE "none"

Started(id)           == [kind |-> "SessionStarted", id |-> id]
Message(texts)        == [kind |-> "Message", text |-> texts]
Usage(u)              == [kind |-> "TokenUsage", usage |-> u]
Tool(id, name, phase) == [kind |-> "ToolCall", call |-> id, name |-> name, phase |-> phase]
Subagent(id)          == [kind |-> "Subagent", call |-> id]
Failure               == [kind |-> "Error"]
Completed             == [kind |-> "Completed"]

\* The parsed line is kept with its type, if it has one.
Unknown(v) == [kind |-> "Unknown", type |-> Type(v)]

Terminal(e) == e.kind \in {"Completed", "Error"}

-----------------------------------------------------------------------------
(* Usage, of both providers: absent counts are zero.                       *)

Counts == {"input", "output", "cache_read"}

\* codex decodes one count more, which it does not report.
ClaudeCounts == Counts
CodexCounts  == Counts \cup {"reasoning_output"}

UsageOk(u, counts) == u # Bad /\ \A f \in counts : Optional(u, f)
CountsOf(u) == [f \in Counts |-> IF f \in DOMAIN u THEN u[f] ELSE 0]

\* The end of a turn: usage first; a malformed one makes the line unknown.
EndOfTurn(v, counts) ==
    IF "usage" \notin DOMAIN v THEN <<Completed>>
    ELSE IF UsageOk(v.usage, counts) THEN <<Usage(CountsOf(v.usage)), Completed>>
    ELSE <<Unknown(v)>>

-----------------------------------------------------------------------------
(* claude_code.                                                            *)

BlockOk(b) ==
    CASE Type(b) = "text"        -> Given(b, "text")
      [] Type(b) = "tool_use"    -> Given(b, "id") /\ Given(b, "name") /\ "input" \in DOMAIN b
      [] Type(b) = "tool_result" -> Given(b, "id") /\ "content" \in DOMAIN b /\ Optional(b, "is_error")
      [] OTHER                   -> Type(b) # "none"

\* One block that does not decode makes the whole content undecodable.
ContentOk(v) ==
    /\ Optional(v, "content")
    /\ "content" \in DOMAIN v => \A i \in DOMAIN v.content : BlockOk(v.content[i])
Blocks(v) == IF "content" \in DOMAIN v THEN v.content ELSE <<>>

OfType(v, t) ==
    FlattenSeq([i \in DOMAIN Blocks(v) |-> IF Type(Blocks(v)[i]) = t THEN <<Blocks(v)[i]>> ELSE <<>>])

AssistantText(v) ==
    LET texts == [i \in DOMAIN OfType(v, "text") |-> OfType(v, "text")[i].text]
    IN  IF \A i \in DOMAIN texts : texts[i] = Empty THEN <<>>
        ELSE SubSeq(texts, CHOOSE i \in DOMAIN texts :
                              texts[i] # Empty /\ \A j \in 1 .. i - 1 : texts[j] = Empty,
                    Len(texts))

ToolUses(v) ==
    LET uses == OfType(v, "tool_use")
    IN  [i \in DOMAIN uses |-> IF uses[i].name \in {"Agent", "Task"} THEN Subagent(uses[i].id)
                               ELSE Tool(uses[i].id, uses[i].name, "request")]

ToolResults(v) ==
    LET results == OfType(v, "tool_result")
    IN  [i \in DOMAIN results |-> Tool(results[i].id, "none", "result")]

OrUnknown(v, events) == IF events = <<>> THEN <<Unknown(v)>> ELSE events

Mut_TextOrTools(v) ==
    IF AssistantText(v) # <<>> THEN <<Message(AssistantText(v))>> ELSE OrUnknown(v, ToolUses(v))

AssistantEvents(v) ==
    OrUnknown(v, (IF AssistantText(v) = <<>> THEN <<>> ELSE <<Message(AssistantText(v))>>)
                   \o ToolUses(v))

ClaudeEvents(v) ==
    CASE Type(v) = "system" /\ Given(v, "subtype") /\ v.subtype = "init"
           /\ Given(v, "session_id") /\ v.session_id # Empty -> <<Started(v.session_id)>>
      [] Type(v) = "assistant" /\ ContentOk(v) -> AssistantEvents(v)
      [] Type(v) = "user" /\ ContentOk(v)      -> OrUnknown(v, ToolResults(v))
      [] Type(v) = "result"                    -> EndOfTurn(v, ClaudeCounts)
      [] OTHER                                 -> <<Unknown(v)>>

-----------------------------------------------------------------------------
(* codex.                                                                  *)

\* The fields an item of a type may have besides its id.
MayHave(type) ==
    CASE type = "agent_message"    -> {"text"}
      [] type = "mcp_tool_call"    -> {"tool"}
      [] type = "collab_tool_call" -> {"tool", "status", "receiver_thread_ids"}
      [] OTHER                     -> {}

ItemOk(item) == Given(item, "id") /\ \A f \in MayHave(Type(item)) : Optional(item, f)

ItemEvents(v, item, phase) ==
    IF ~ItemOk(item) THEN <<Unknown(v)>> ELSE
    CASE Type(item) = "agent_message" /\ phase = "result" ->
           <<Message(IF "text" \in DOMAIN item THEN <<item.text>> ELSE <<>>)>>
      [] Type(item) = "command_execution" -> <<Tool(item.id, "command_execution", phase)>>
      [] Type(item) = "mcp_tool_call" ->
           <<Tool(item.id, IF "tool" \in DOMAIN item THEN item.tool ELSE "none", phase)>>
      [] Type(item) = "collab_tool_call" -> <<Subagent(item.id)>>
      [] OTHER -> <<Unknown(v)>>

CodexEvents(v) ==
    CASE Type(v) = "thread.started" /\ Given(v, "thread_id") -> <<Started(v.thread_id)>>
      [] Type(v) = "item.started" /\ Given(v, "item")   -> ItemEvents(v, v.item, "request")
      [] Type(v) = "item.completed" /\ Given(v, "item") -> ItemEvents(v, v.item, "result")
      [] Type(v) = "turn.completed"                     -> EndOfTurn(v, CodexCounts)
      [] Type(v) = "turn.failed" /\ Given(v, "error")   -> <<Failure>>
      [] Type(v) = "error" /\ Given(v, "message")       -> <<Failure>>
      [] OTHER                                          -> <<Unknown(v)>>
=============================================================================
