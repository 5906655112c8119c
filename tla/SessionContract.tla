--------------------------- MODULE SessionContract ---------------------------
(***************************************************************************)
(* What one session promises the stage-session manager: the states it      *)
(* sends, when its task is gone, and what its agent process may be doing   *)
(* meanwhile.  The session actions of StageSessions are these, for one     *)
(* run; module Session shows that the session task keeps them.             *)
(***************************************************************************)
EXTENDS Naturals

VARIABLES
    state,      \* the SessionState last sent
    ended,      \* the session task is gone and its channels are closed
    agent,      \* the agent process: "none", "alive" or "gone"
    shutdown    \* the daemon's shutdown token

vars == <<state, ended, agent, shutdown>>

Init ==
    /\ state = "UnStarted"
    /\ ended = FALSE
    /\ agent = "none"
    /\ shutdown \in BOOLEAN

Become(s) ==
    /\ ~ended
    /\ state' = s

Prepares ==
    /\ state = "UnStarted"
    /\ Become("Preparing")
    /\ UNCHANGED <<ended, agent, shutdown>>

SpawnsAgent ==
    /\ state = "Preparing" /\ ~ended
    /\ agent = "none"
    /\ agent' = "alive"
    /\ UNCHANGED <<state, ended, shutdown>>

\* The session gives up before it runs; a spawned agent is not waited for.
StopsEarly ==
    /\ state = "Preparing"
    /\ Become("Failed") \/ (shutdown /\ Become("Cancelled"))
    /\ ended' = TRUE
    /\ UNCHANGED <<agent, shutdown>>

Runs ==
    /\ state = "Preparing"
    /\ agent # "none"
    /\ Become("Running")
    /\ UNCHANGED <<ended, agent, shutdown>>

Terminates ==
    /\ state = "Running"
    /\ Become("Completed") \/ Become("Failed") \/ (shutdown /\ Become("Cancelled"))
    /\ UNCHANGED <<ended, agent, shutdown>>

AgentExits ==
    /\ agent = "alive"
    /\ agent' = "gone"
    /\ UNCHANGED <<state, ended, shutdown>>

\* A session that reported Running stays until its agent is gone.
Ends ==
    /\ state \in {"Completed", "Failed", "Cancelled"} /\ ~ended
    /\ agent # "alive"
    /\ ended' = TRUE
    /\ UNCHANGED <<state, agent, shutdown>>

ShutDown ==
    /\ ~shutdown
    /\ shutdown' = TRUE
    /\ UNCHANGED <<state, ended, agent>>

Next ==
    \/ Prepares \/ SpawnsAgent \/ StopsEarly \/ Runs \/ Terminates \/ Ends
    \/ AgentExits \/ ShutDown

Spec == Init /\ [][Next]_vars

=============================================================================
