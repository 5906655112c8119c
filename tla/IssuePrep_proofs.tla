-------------------------- MODULE IssuePrep_proofs --------------------------
(***************************************************************************)
(* Facts about the workspace of one issue for any number of IssueRuns that *)
(* prepare it, concurrently, one after the other, and across restarts.     *)
(***************************************************************************)
EXTENDS IssuePrep, TLAPS

LEMMA PrepInvInit == Init => PrepInv
<1> SUFFICES ASSUME Init PROVE PrepInv
    OBVIOUS
<1> QED
    BY DEF Init, PrepInv, TypeOK, Reserved, InTask

LEMMA PrepInvTask ==
    ASSUME PrepInv, NEW p \in Prep, Task(p) \/ HookTimesOut(p)
    PROVE  PrepInv'
<1> USE DEF PrepInv, TypeOK, Reserved, InTask, Go, history
<1>1. CASE Stat(p)
    BY <1>1 DEF Stat
<1>2. CASE MakeDir(p)
    <2>1. p \notin late
        BY <1>2 DEF MakeDir
    <2>2. made' = made \cup {p} /\ p \in made'
        BY <1>2 DEF MakeDir
    <2>3. TypeOK'
        BY <1>2 DEF MakeDir
    <2> QED
        BY <1>2, <2>1, <2>2, <2>3 DEF MakeDir
<1>3. CASE MakeDirFails(p)
    BY <1>3 DEF MakeDirFails
<1>4. CASE NoHook(p)
    BY <1>4 DEF NoHook
<1>5. CASE HookNotStarted(p)
    BY <1>5 DEF HookNotStarted
<1>6. CASE StartHook(p)
    BY <1>6 DEF StartHook
<1>7. CASE HookReturns(p)
    BY <1>7 DEF HookReturns
<1>8. CASE HookTimesOut(p)
    BY <1>8 DEF HookTimesOut
<1> QED
    BY <1>1, <1>2, <1>3, <1>4, <1>5, <1>6, <1>7, <1>8 DEF Task

LEMMA PrepInvManager ==
    ASSUME PrepInv, NEW p \in Prep,
           Dispatch(p) \/ DropPreparation(p) \/ Launch(p) \/ Drain(p)
           \/ HookEnds(p) \/ LeaveDescendant(p)
    PROVE  PrepInv'
<1> USE DEF PrepInv, TypeOK, Reserved, InTask, Go, history
<1>1. CASE Dispatch(p)
    BY <1>1 DEF Dispatch
<1>2. CASE DropPreparation(p)
    BY <1>2 DEF DropPreparation
<1>3. CASE Launch(p)
    BY <1>3 DEF Launch
<1>4. CASE Drain(p)
    BY <1>4 DEF Drain
<1>5. CASE HookEnds(p)
    BY <1>5 DEF HookEnds
<1>6. CASE LeaveDescendant(p)
    BY <1>6 DEF LeaveDescendant
<1> QED
    BY <1>1, <1>2, <1>3, <1>4, <1>5, <1>6

LEMMA PrepInvDaemon ==
    ASSUME PrepInv, ShutDown \/ Restart \/ UNCHANGED vars
    PROVE  PrepInv'
<1> USE DEF PrepInv, TypeOK, Reserved, InTask, history
<1>1. CASE ShutDown
    BY <1>1 DEF ShutDown
<1>2. CASE Restart
    BY <1>2 DEF Restart
<1>3. CASE UNCHANGED vars
    BY <1>3 DEF vars
<1> QED
    BY <1>1, <1>2, <1>3

\* Who made the directory, whose hook ran, and what is at the path agree.
THEOREM PrepInvAlways == Spec => []PrepInv
<1>1. Init => PrepInv
    BY PrepInvInit
<1>2. PrepInv /\ [Next]_vars => PrepInv'
    BY PrepInvTask, PrepInvManager, PrepInvDaemon DEF Next, Done
<1> QED
    BY <1>1, <1>2, PTL DEF Spec

\* LaunchIsExplained: a stage starts without a finished setup only where the
\* directory is not of its own IssueRun's making (context/run.rs, prepare).
THEOREM LaunchExplained == Spec => []LaunchIsExplained
<1>1. PrepInv => LaunchIsExplained
    <2> SUFFICES ASSUME PrepInv, NEW p \in Prep, pc[p] \in {"ready", "launched"}
                 PROVE  /\ path = "dir"
                        /\ hook[p] = "ok" \/ p \notin made
                        /\ existed \/ \E q \in made : hook[q] = "ok" \/ q # p
        BY DEF LaunchIsExplained
    <2>1. path = "dir" /\ (hook[p] = "ok" \/ p \notin made)
        BY DEF PrepInv
    <2>2. existed \/ made # {}
        BY <2>1 DEF PrepInv
    <2> QED
        BY <2>1, <2>2
<1> QED
    BY <1>1, PrepInvAlways, PTL

\* EstablishedIsLeftAlone: no later IssueRun runs the after_create hook over
\* the workspace, after a failure, a shutdown or a restart either.
THEOREM EstablishedLeftAlone == Spec => []EstablishedIsLeftAlone
<1>1. PrepInv => EstablishedIsLeftAlone
    BY DEF PrepInv, TypeOK, EstablishedIsLeftAlone
<1> QED
    BY <1>1, PrepInvAlways, PTL
=============================================================================
