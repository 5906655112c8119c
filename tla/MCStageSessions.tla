-------------------------- MODULE MCStageSessions --------------------------
(* Small instances of StageSessions: one tracker state that matches both   *)
(* stages of the workflow, one that matches a single stage, one that       *)
(* matches none.                                                           *)
EXTENDS StageSessionsInv, TLC

MCIssueStates == {"todo", "review", "closed"}

MCStages == {"plan", "implement"}

MCStagesFor ==
    [s \in MCIssueStates |->
        CASE s = "todo"   -> {"plan", "implement"}
          [] s = "review" -> {"implement"}
          [] s = "closed" -> {}]

OneStage == {"implement"}

OneStageFor ==
    [s \in MCIssueStates |-> IF s = "review" THEN {"implement"} ELSE {}]

IssueSymmetry == Permutations(Issues)

=============================================================================
