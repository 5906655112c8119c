---------------------------- MODULE AgentEvents ----------------------------
(***************************************************************************)
(* What a session makes of its provider's lines (session/mod.rs read loop, *)
(* apply_event): the snapshot (session/snapshot.rs) and the session log    *)
(* (session/jsonl_writer.rs, a tracing_appender queue and its worker).     *)
(* The runtime "custom" stands for an adapter whose lines are sequences of *)
(* events; it alone emits rate limits: neither adapter of the code does,   *)
(* so that half of the snapshot waits for a runtime to come.  Operators    *)
(* named Mut_... are seeded faults; no action uses them.                   *)
(***************************************************************************)
EXTENDS Adapters, FiniteSets

CONSTANTS
    Runtimes,
    Lines,       \* [Runtimes -> the lines the provider may print]
    MaxLines,    \* bound: [Runtimes -> the lines of one session]
    MaxCount,    \* u64::MAX
    LogCapacity  \* bound: the chunks the log queue takes (128,000 in the code)

VARIABLES
    runtime,
    read,       \* lines taken
    line,       \* the last one
    todo,       \* its events still to be applied
    id, message, tokens, limits, state,   \* the snapshot
    queue,      \* chunks the log worker has not written
    disk,       \* the log file, as chunks
    heard       \* history: the events applied

snapshot == <<id, message, tokens, limits, state>>
vars     == <<runtime, read, line, todo, snapshot, queue, disk, heard>>

None == "none"

Init ==
    /\ runtime \in Runtimes
    /\ read = 0 /\ line = <<>> /\ todo = <<>>
    /\ id = None /\ message = None
    /\ tokens = [f \in Counts |-> 0]
    /\ limits = [s \in {} |-> 0]
    /\ state = "Preparing"
    /\ queue = <<>> /\ disk = <<>> /\ heard = <<>>

-----------------------------------------------------------------------------

Launch ==
    /\ state = "Preparing"
    /\ state' = "Running"
    /\ UNCHANGED <<runtime, read, line, todo, id, message, tokens, limits, queue, disk, heard>>

MapEvent(v) ==
    CASE runtime = "codex"       -> CodexEvents(v)
      [] runtime = "claude_code" -> ClaudeEvents(v)
      [] OTHER                   -> v

\* A line that is no JSON (Bad) is an error of the session.
ReadLine ==
    /\ state = "Running" /\ todo = <<>>
    /\ read < MaxLines[runtime]
    /\ \E v \in Lines[runtime] \cup {Bad} :
        /\ line' = v
        /\ todo' = IF v = Bad THEN <<Failure>> ELSE MapEvent(v)
    /\ read' = read + 1
    /\ UNCHANGED <<runtime, snapshot, queue, disk, heard>>

\* The lossy queue: a chunk that finds it full is dropped.
Offer(q, chunk) == IF Len(q) < LogCapacity THEN Append(q, chunk) ELSE q

Newline == [kind |-> "newline"]

\* Two chunks, one after the other; the worker may write some in between.
LogChunks(first, second) ==
    LET q == Offer(queue, first) IN
    \E n \in 0 .. Len(q) :
        /\ disk' = disk \o SubSeq(q, 1, n)
        /\ queue' = Offer(SubSeq(q, n + 1, Len(q)), second)

Mut_LogNewlineFirst(e) == LogChunks(Newline, e)

\* Two write_all calls for one event.
Log(e) == LogChunks(e, Newline)

ObserveId(e) == id' = IF e.kind = "SessionStarted" /\ id = None THEN e.id ELSE id

Saturating(a, b) == IF a + b > MaxCount THEN MaxCount ELSE a + b

CountTokens(e) ==
    tokens' = IF e.kind = "TokenUsage"
              THEN [f \in Counts |-> Saturating(tokens[f], e.usage[f])] ELSE tokens

Mut_LastArrivalWins(e) ==
    limits' = IF e.kind = "RateLimit"
              THEN [s \in DOMAIN limits \cup {e.scope} |-> IF s = e.scope THEN e ELSE limits[s]]
              ELSE limits

\* Latest observation wins, the later arrival among equals.
ObserveLimit(e) ==
    limits' = IF e.kind = "RateLimit"
                 /\ (e.scope \in DOMAIN limits => e.observed >= limits[e.scope].observed)
              THEN [s \in DOMAIN limits \cup {e.scope} |-> IF s = e.scope THEN e ELSE limits[s]]
              ELSE limits

\* set_state: terminal states are final (see Session).
Conclude(e) ==
    state' = CASE e.kind = "Completed" -> "Completed" [] e.kind = "Error" -> "Failed"
               [] OTHER -> state

\* The events of a line after a terminal one are not applied.
Rest(e) == todo' = IF Terminal(e) THEN <<>> ELSE Tail(todo)

ApplyEvent ==
    /\ todo # <<>>
    /\ LET e == Head(todo) IN
        /\ Log(e)
        /\ ObserveId(e)
        /\ message' = IF e.kind = "Message" THEN e.text ELSE message
        /\ CountTokens(e)
        /\ ObserveLimit(e)
        /\ Conclude(e)
        /\ heard' = Append(heard, e)
        /\ Rest(e)
    /\ UNCHANGED <<runtime, read, line>>

\* The worker of the log.
WriteLog ==
    /\ queue # <<>>
    /\ disk' = Append(disk, Head(queue))
    /\ queue' = Tail(queue)
    /\ UNCHANGED <<runtime, read, line, todo, snapshot, heard>>

\* The end of the child's output before it said how it went.
EndOfOutput ==
    /\ state = "Running" /\ todo = <<>>
    /\ state' = "Failed"
    /\ UNCHANGED <<runtime, read, line, todo, id, message, tokens, limits, queue, disk, heard>>

Done == state \in {"Completed", "Failed"} /\ todo = <<>> /\ queue = <<>> /\ UNCHANGED vars

Next == Launch \/ ReadLine \/ ApplyEvent \/ WriteLog \/ EndOfOutput \/ Done

Spec == Init /\ [][Next]_vars

-----------------------------------------------------------------------------
(* Properties.  Heard(kind) are the positions of the events of a kind.     *)

Heard(kind) == {i \in DOMAIN heard : heard[i].kind = kind}

\* The snapshot keeps the first id the agent reported.
FirstIdWins ==
    IF Heard("SessionStarted") = {} THEN id = None
    ELSE \E i \in Heard("SessionStarted") :
            id = heard[i].id /\ \A j \in Heard("SessionStarted") : i <= j

\* What was reported of a count, all in all.
Reported(f) ==
    LET sum[n \in 0 .. Len(heard)] ==
            IF n = 0 THEN 0
            ELSE sum[n - 1] + (IF heard[n].kind = "TokenUsage" THEN heard[n].usage[f] ELSE 0)
    IN  sum[Len(heard)]

\* Counts are the sums of what was reported, or the largest value there is:
\* they never wrap and never shrink.
TotalsSaturate ==
    \A f \in Counts : tokens[f] = IF Reported(f) > MaxCount THEN MaxCount ELSE Reported(f)

\* Of each scope the newest observation is kept, however they arrive.
LatestLimitWins ==
    \A i \in Heard("RateLimit") :
        LET kept == limits[heard[i].scope]
        IN  /\ kept \in {heard[j] : j \in Heard("RateLimit")} /\ kept.scope = heard[i].scope
            /\ kept.observed >= heard[i].observed
            /\ kept.observed = heard[i].observed /\ kept # heard[i] =>
                 \E j \in Heard("RateLimit") : j > i /\ heard[j] = kept

\* A session ends with the event that decided it: the usage of the same line
\* is counted, and nothing comes after it.
EndIsLast ==
    /\ \A i \in DOMAIN heard : Terminal(heard[i]) => i = Len(heard)
    /\ state = "Completed" /\ runtime # "custom" /\ "usage" \in DOMAIN line =>
         Heard("TokenUsage") # {} /\ heard[Len(heard) - 1].kind = "TokenUsage"

\* No valid line disappears, and no text or tool call of a line that decodes.
NothingDisappears ==
    read > 0 /\ runtime # "custom" /\ line # Bad =>
        LET blocks(t) == IF runtime = "claude_code" /\ Type(line) = "assistant" /\ ContentOk(line)
                         THEN {i \in DOMAIN Blocks(line) : Type(Blocks(line)[i]) = t} ELSE {}
            events(k) == {i \in DOMAIN MapEvent(line) : MapEvent(line)[i].kind \in k}
        IN  /\ MapEvent(line) # <<>>
            /\ Cardinality(blocks("tool_use")) <= Cardinality(events({"ToolCall", "Subagent"}))
            /\ (\E i \in blocks("text") : Blocks(line)[i].text # Empty) => events({"Message"}) # {}

Chunks(events) == FlattenSeq([i \in DOMAIN events |-> <<events[i], Newline>>])

\* How many chunks of s are found in t, in order.
FoundIn(s, t) ==
    FoldLeft(LAMBDA n, chunk : IF n < Len(s) /\ s[n + 1] = chunk THEN n + 1 ELSE n, 0, t)

\* The log says nothing that was not heard, and nothing twice or in another
\* order, whatever a full queue drops.
LogIsOrdered == FoundIn(disk \o queue, Chunks(heard)) = Len(disk \o queue)

\* It is whole, each event on a line of its own, as long as the queue has room
\* for the session.  (session/mod.rs promises a durable record without this
\* condition.)
LogIsWhole == 2 * Len(heard) <= LogCapacity => disk \o queue = Chunks(heard)
=============================================================================
