--------------------------- MODULE StageLifecycle ---------------------------
(***************************************************************************)
(* What the stage-session manager promises of its keys (CONTEXT.md,        *)
(* "Relationships"; docs/development/architecture.md, "Dispatch flow"),    *)
(* without tasks, channels or hooks: a key (issue, stage) is reserved      *)
(* before any setup starts, then running, then finishing, then free again, *)
(* and the issue ids with a key in use stay within the cap.                *)
(***************************************************************************)
EXTENDS Naturals, FiniteSets

CONSTANTS Issues, Stages, MaxIssueConcurrency

VARIABLE phase      \* [Key -> Phase]

Key   == [issue : Issues, stage : Stages]
Phase == {"idle", "reserved", "running", "finishing"}

Init == phase = [k \in Key |-> "idle"]

InUse(i) == \E k \in Key : k.issue = i /\ phase[k] # "idle"

IssuesInUse == {i \in Issues : InUse(i)}

Move(K, from, to) ==
    /\ \A k \in K : phase[k] = from
    /\ phase' = [k \in Key |-> IF k \in K THEN to ELSE phase[k]]

\* One intake result reserves idle stages of one issue at once.
Reserve(i) ==
    /\ InUse(i) \/ Cardinality(IssuesInUse) < MaxIssueConcurrency
    /\ \E K \in SUBSET {k \in Key : k.issue = i} : Move(K, "idle", "reserved")

\* Preparation, before_run or the spawn failed: no session was started.
GiveBack(i) ==
    \E K \in SUBSET {k \in Key : k.issue = i} : Move(K, "reserved", "idle")

Start(k)   == Move({k}, "reserved", "running")
Finish(k)  == Move({k}, "running", "finishing")
Release(k) == Move({k}, "finishing", "idle")

Next ==
    \/ \E i \in Issues : Reserve(i) \/ GiveBack(i)
    \/ \E k \in Key : Start(k) \/ Finish(k) \/ Release(k)

Spec == Init /\ [][Next]_phase

=============================================================================
