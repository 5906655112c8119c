-------------------------- MODULE ManagerContract --------------------------
(***************************************************************************)
(* What the orchestrator loop relies on in the stage-session manager       *)
(* (session_manager.rs): the keys it has reserved, and whether cancel_all  *)
(* was called.  StageSessions implements it; Orchestrator is built on it.  *)
(***************************************************************************)
CONSTANT Key
VARIABLES active, cancelled

vars == <<active, cancelled>>

Init == active = {} /\ cancelled = FALSE

\* try_run_issue reserves some keys of one issue that are not active.
Accept(K) ==
    /\ ~cancelled
    /\ \A k, l \in K : k.issue = l.issue
    /\ K \cap active = {}
    /\ active' = active \cup K
    /\ UNCHANGED cancelled

\* recv drains keys: one, or all of a preparation that failed.
Release(K) ==
    /\ ~cancelled
    /\ K \subseteq active
    /\ active' = active \ K
    /\ UNCHANGED cancelled

CancelAll ==
    /\ ~cancelled
    /\ cancelled' = TRUE
    /\ UNCHANGED active

Next == CancelAll \/ \E K \in SUBSET Key : Accept(K) \/ Release(K)

Spec == Init /\ [][Next]_vars
=============================================================================
