--------------------------- MODULE MCOrchestrator ---------------------------
EXTENDS Orchestrator

a1 == [id |-> "a", version |-> 1]
a2 == [id |-> "a", version |-> 2]
b1 == [id |-> "b", version |-> 1]

\* Nothing, one issue, a repeated id with another issue in between.
MCBatches == {<<>>, <<a1>>, <<a1, b1, a2>>, <<b1, a2, a1>>}
=============================================================================
