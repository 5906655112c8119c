-------------------------- MODULE MCPromptRender --------------------------
(* Texts of up to three pieces for PromptRender.                           *)
EXTENDS Naturals, SequencesExt

Written == <<"tick", "exec", "x", "close", "tick">>
Pieces == {<<"x">>, Written, <<"bang">> \o Written, <<"bang">>, <<"tick", "exec", "x">>, <<"close", "tick">>,
           <<"tick", "exec", "close", "tick">>}
Texts(n) == {FlattenSeq(p) : p \in UNION {[1 .. k -> Pieces] : k \in 0 .. n}}

ThreePieces == Texts(3)

Printed == {<<>>, <<"a", "nl">>, <<"nl", "nl">>, Written}
Short   == {<<"a">>}
=============================================================================
