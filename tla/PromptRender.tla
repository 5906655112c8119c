---------------------------- MODULE PromptRender ----------------------------
(***************************************************************************)
(* Rendering the prompt of a stage: the source, the template engine, then  *)
(* the commands written in the text (session/mod.rs render_prompt and      *)
(* template/prompt.rs).  The commands run at the same time; one failure    *)
(* fails the prompt and leaves the others running, unwatched but for their *)
(* timeout (ShellCommand, Drop).  A command whose shell is gone while a    *)
(* descendant holds its output is held: its timeout no longer counts.      *)
(*                                                                         *)
(* A text is a sequence of tokens.  A command is a tick and an exec with   *)
(* its parenthesis, anything but a closing one, a close and a tick again,  *)
(* with an optional bang before it.  Operators named Mut_... are           *)
(* seeded faults.                                                          *)
(***************************************************************************)
EXTENDS Naturals, SequencesExt

CONSTANTS
    Templates,  \* texts the template engine may return
    Outputs     \* what a command may write to its stdout

VARIABLES
    pc,       \* where the session's call of render is
    text,     \* the rendered template
    spans,    \* the commands found in it, each with its first and last token
    status,   \* [index of spans -> how its command stands]
    output,   \* [index of spans -> its stdout]
    prompt    \* the result

vars == <<pc, text, spans, status, output, prompt>>

-----------------------------------------------------------------------------
(* The text.                                                               *)

\* The tokens from position i on begin with a command: where its body begins
\* (0 if they do not), and where it is closed.
Opening(t, i) ==
    LET Tick(j) == j < Len(t) /\ t[j] = "tick" /\ t[j + 1] = "exec" IN
    CASE Tick(i) -> i + 2
      [] t[i] = "bang" /\ Tick(i + 1) -> i + 3
      [] OTHER -> 0

FirstParen(t, i) == SelectInSubSeq(t, i, Len(t), LAMBDA token : token = "close")

Matches(t, i) ==
    LET body == Opening(t, i)
        paren == FirstParen(t, body)
    IN  body > 0 /\ paren > body /\ paren < Len(t) /\ t[paren + 1] = "tick"

\* captures_iter: from left to right, each match after the end of the last.
Commands(t) ==
    LET found[i \in 1 .. Len(t) + 1] ==
            IF i > Len(t) THEN <<>>
            ELSE IF Matches(t, i)
                 THEN LET last == FirstParen(t, Opening(t, i)) + 1
                      IN  <<[first |-> i, last |-> last]>> \o found[last + 1]
                 ELSE found[i + 1]
    IN found[1]

Mut_Trimmed(out) == IF out = <<>> THEN out ELSE Front(out)

\* Exactly one trailing newline goes.
Trimmed(out) == IF out # <<>> /\ Last(out) = "nl" THEN Front(out) ELSE out

\* The replacements go between the pieces of the text around the spans.
Spliced(t, found, out) ==
    LET Add(acc, i) ==
            [built  |-> acc.built \o SubSeq(t, acc.cursor, found[i].first - 1) \o Trimmed(out[i]),
             cursor |-> found[i].last + 1]
        done[n \in 0 .. Len(found)] ==
            IF n = 0 THEN [built |-> <<>>, cursor |-> 1] ELSE Add(done[n - 1], n)
        end == done[Len(found)]
    IN  end.built \o SubSeq(t, end.cursor, Len(t))

-----------------------------------------------------------------------------
(* The call.                                                               *)

Init ==
    /\ pc = "source"
    /\ text = <<>>
    /\ spans = <<>>
    /\ status = <<>>
    /\ output = <<>>
    /\ prompt = <<>>

\* The prompt file does not resolve, open or read, or the template does not
\* render: an unknown variable is an error.
RenderFails ==
    /\ pc = "source"
    /\ pc' = "failed"
    /\ UNCHANGED <<text, spans, status, output, prompt>>

\* The template rendered, and every command in it started.
Start ==
    /\ pc = "source"
    /\ text' \in Templates
    /\ spans' = Commands(text')
    /\ status' = [i \in DOMAIN spans' |-> "running"]
    /\ output' = [i \in DOMAIN spans' |-> <<>>]
    /\ pc' = "joining"
    /\ UNCHANGED prompt

Unfinished(i) == status[i] \in {"running", "held"}

\* The shell exits, but a descendant of it has the output open.
ShellExits(i) ==
    /\ status[i] = "running"
    /\ status' = [status EXCEPT ![i] = "held"]
    /\ UNCHANGED <<pc, text, spans, output, prompt>>

\* A command and all that hold its output end by themselves; only a zero exit
\* status is a success.
CommandEnds(i) ==
    /\ Unfinished(i)
    /\ output' \in {[output EXCEPT ![i] = out] : out \in Outputs}
    /\ status' \in {[status EXCEPT ![i] = s] : s \in {"ok", "failed"}}
    /\ UNCHANGED <<pc, text, spans, prompt>>

\* The shell was not spawned, or its timeout killed it, and then nobody waits
\* for its output.
CommandFails(i) ==
    /\ status[i] = "running"
    /\ status' = [status EXCEPT ![i] = "failed"]
    /\ UNCHANGED <<pc, text, spans, output, prompt>>

\* try_join_all does not wait for the others.
JoinFails ==
    /\ pc = "joining"
    /\ \E i \in DOMAIN spans : status[i] = "failed"
    /\ pc' = "failed"
    /\ UNCHANGED <<text, spans, status, output, prompt>>

Join ==
    /\ pc = "joining"
    /\ \A i \in DOMAIN spans : status[i] = "ok"
    /\ pc' = "rendered"
    /\ prompt' = Spliced(text, spans, output)
    /\ UNCHANGED <<text, spans, status, output>>

Done == pc \in {"rendered", "failed"} /\ UNCHANGED vars

Next ==
    \/ RenderFails \/ Start \/ JoinFails \/ Join \/ Done
    \/ \E i \in DOMAIN spans : ShellExits(i) \/ CommandEnds(i) \/ CommandFails(i)

Spec == Init /\ [][Next]_vars

Poll    == RenderFails \/ JoinFails \/ Join
Timeout == \E i \in DOMAIN spans : CommandFails(i)

\* The session is polled, and the timer of a command whose shell runs expires.
\* Nothing makes a descendant let go of an output.
FairSpec ==
    /\ Spec
    /\ WF_vars(Poll)
    /\ WF_vars(Timeout)

-----------------------------------------------------------------------------
(* Properties.                                                             *)

Covered(i) == \E s \in DOMAIN spans : i \in spans[s].first .. spans[s].last

\* In whatever order the commands end: a prompt is the text with each command
\* replaced by what that very command wrote, in its place, less one trailing
\* newline.  All of them succeeded, nothing around them is lost or repeated,
\* and a command's output is not taken for a command.
OutputInItsPlace ==
    pc = "rendered" =>
        LET Piece(i) ==
                IF ~Covered(i) THEN <<text[i]>>
                ELSE LET s == CHOOSE s \in DOMAIN spans : i \in spans[s].first .. spans[s].last
                         out == output[s]
                     IN  IF i # spans[s].first THEN <<>>
                         ELSE IF out # <<>> /\ Last(out) = "nl" THEN SubSeq(out, 1, Len(out) - 1)
                         ELSE out
        IN  /\ \A s \in DOMAIN spans : status[s] = "ok"
            /\ prompt = FlattenSeq([i \in DOMAIN text |-> Piece(i)])

\* A prompt is rendered or refused: what keeps the session in Preparing
\* beyond every timeout is only a descendant that holds a command's output.
Rendering == pc = "joining"
Answered  == pc \in {"rendered", "failed"}
Held      == \E i \in DOMAIN spans : status[i] = "held"

RenderReturns == Rendering ~> (Answered \/ [](Rendering /\ Held))

=============================================================================
