------------------------ MODULE ShellCommand_proofs ------------------------
(***************************************************************************)
(* Facts about one shell command for every capacity of its pipes and every *)
(* amount of output, with descendants and cancellation or without.         *)
(***************************************************************************)
EXTENDS ShellCommand, TLAPS

LEMMA ShellInvInit == Init => ShellInv
<1> SUFFICES ASSUME Init PROVE ShellInv
    OBVIOUS
<1>1. TypeOK
    <2>1. [p \in Pipe |-> 0] \in [Pipe -> 0 .. PipeCapacity]
        BY PipeCapacityAssumption
    <2>2. [p \in Pipe |-> 0] \in [Pipe -> 0 .. MaxOutput]
        BY MaxOutputAssumption
    <2>3. [p \in Pipe |-> {}] \in [Pipe -> SUBSET {"child", "heir"}]
        OBVIOUS
    <2> QED
        BY <2>1, <2>2, <2>3 DEF Init, TypeOK, Exit, Killed
<1>2. \A p \in Pipe : unread[p] + taken[p] <= MaxOutput
    BY MaxOutputAssumption DEF Init
<1> QED
    BY <1>1, <1>2 DEF Init, ShellInv, Exit, Killed

LEMMA ShellInvCaller ==
    ASSUME ShellInv, Caller \/ Cancel \/ Drop
    PROVE  ShellInv'
<1> USE PipeCapacityAssumption, MaxOutputAssumption
    DEF ShellInv, TypeOK, Pipe, Exit, Killed, callVars, procVars
<1>1. CASE Spawn
    BY <1>1 DEF Spawn
<1>2. CASE SpawnFails
    BY <1>2 DEF SpawnFails, Return
<1>3. ASSUME NEW p \in Pipe, ReadPipe(p) PROVE ShellInv'
    <2>1. unread' \in [Pipe -> 0 .. PipeCapacity] /\ taken' \in [Pipe -> 0 .. MaxOutput]
        BY <1>3 DEF ReadPipe
    <2>2. \A q \in Pipe : unread'[q] + taken'[q] <= MaxOutput
        BY <1>3 DEF ReadPipe
    <2> QED
        BY <1>3, <2>1, <2>2 DEF ReadPipe
<1>4. CASE WaitReturns
    BY <1>4 DEF WaitReturns
<1>5. CASE Collected
    BY <1>5 DEF Collected, Return
<1>6. CASE WaitFails
    BY <1>6 DEF WaitFails, Return
<1>7. CASE CancelledAndWaited
    BY <1>7 DEF CancelledAndWaited, Return
<1>8. CASE Cancel
    BY <1>8 DEF Cancel
<1>9. CASE Drop
    BY <1>9 DEF Drop
<1> QED
    BY <1>1, <1>2, <1>3, <1>4, <1>5, <1>6, <1>7, <1>8, <1>9 DEF Caller

LEMMA ShellInvOutside ==
    ASSUME ShellInv, ReapExited \/ ReapTimeout \/ ReapCancelled \/ Process
    PROVE  ShellInv'
<1> USE PipeCapacityAssumption, MaxOutputAssumption
    DEF ShellInv, TypeOK, Pipe, Exit, Killed, callVars, procVars
<1>1. CASE ReapExited
    BY <1>1 DEF ReapExited
<1>2. CASE ReapTimeout
    BY <1>2 DEF ReapTimeout, KillChild
<1>3. CASE ReapCancelled
    BY <1>3 DEF ReapCancelled, KillChild
<1>4. ASSUME NEW p \in Pipe, WriteOutput(p) PROVE ShellInv'
    <2>1. unread' \in [Pipe -> 0 .. PipeCapacity]
        BY <1>4 DEF WriteOutput
    <2>2. \A q \in Pipe : unread'[q] + taken'[q] <= MaxOutput
        BY <1>4 DEF WriteOutput
    <2> QED
        BY <1>4, <2>1, <2>2 DEF WriteOutput
<1>5. CASE ChildExits
    BY <1>5 DEF ChildExits
<1>6. CASE LeaveHeir
    BY <1>6 DEF LeaveHeir
<1>7. CASE HeirExits
    BY <1>7 DEF HeirExits
<1> QED
    BY <1>1, <1>2, <1>3, <1>4, <1>5, <1>6, <1>7 DEF Process

\* The child, its reaper and what the caller knows of them agree.
THEOREM ShellInvAlways == Spec => []ShellInv
<1>1. Init => ShellInv
    BY ShellInvInit
<1>2. ShellInv /\ [Next]_vars => ShellInv'
    <2>1. ASSUME ShellInv, UNCHANGED vars PROVE ShellInv'
        BY <2>1 DEF vars, callVars, procVars, ShellInv, TypeOK, Pipe, Exit, Killed
    <2> QED
        BY <2>1, ShellInvCaller, ShellInvOutside DEF Next, Done
<1> QED
    BY <1>1, <1>2, PTL DEF Spec

\* NoShellAfterReturn: a call that returned, for whatever reason, has no
\* running shell (command_ext.rs).
THEOREM ReturnedShellIsGone == Spec => []NoShellAfterReturn
<1>1. Init => NoShellAfterReturn
    BY DEF Init, NoShellAfterReturn
<1>2. ASSUME NoShellAfterReturn, ShellInv, [Next]_vars
      PROVE  NoShellAfterReturn'
    <2> USE DEF NoShellAfterReturn, ShellInv, TypeOK, Exit, Killed
    <2>1. CASE Caller
        BY <1>2, <2>1 DEF Caller, Spawn, SpawnFails, ReadPipe, WaitReturns, Collected, WaitFails,
            CancelledAndWaited, Return, callVars, procVars
    <2>2. CASE ReapExited \/ ReapTimeout \/ ReapCancelled \/ Process
        BY <1>2, <2>2 DEF ReapExited, ReapTimeout, ReapCancelled, KillChild, Process, WriteOutput,
            ChildExits, LeaveHeir, HeirExits, callVars, procVars
    <2>3. CASE Cancel \/ Drop \/ UNCHANGED vars
        BY <1>2, <2>3 DEF Cancel, Drop, vars, callVars, procVars
    <2> QED
        BY <1>2, <2>1, <2>2, <2>3 DEF Next, Done
<1> QED
    BY <1>1, <1>2, ShellInvAlways, PTL DEF Spec

\* OutputIsWhole: a call that returned the exit status of its shell has read
\* both pipes to their end, and they stay empty (command_ext.rs, output and
\* wait_with_output).
THEOREM OutputOfExitIsWhole == Spec => []OutputIsWhole
<1>1. Init => OutputIsWhole
    BY DEF Init, OutputIsWhole, Exit
<1>2. ASSUME OutputIsWhole, ShellInv, [Next]_vars
      PROVE  OutputIsWhole'
    <2> USE DEF OutputIsWhole, ShellInv, TypeOK, Exit, Killed, AtEof, Pipe
    <2>1. CASE result' = result /\ result \in Exit
        <3>1. call = "returned" /\ child \in Exit /\ \A p \in Pipe : holders[p] = {} /\ unread[p] = 0
            BY <1>2, <2>1
        <3>2. CASE Caller
            BY <1>2, <2>1, <3>1, <3>2 DEF Caller, Spawn, SpawnFails, ReadPipe, WaitReturns,
                Collected, WaitFails, CancelledAndWaited, Return, callVars, procVars
        <3>3. CASE ReapExited \/ ReapTimeout \/ ReapCancelled
            BY <1>2, <2>1, <3>1, <3>3 DEF ReapExited, ReapTimeout, ReapCancelled, KillChild,
                callVars, procVars
        <3>4. CASE Process
            BY <1>2, <2>1, <3>1, <3>4 DEF Process, WriteOutput, ChildExits, LeaveHeir, HeirExits,
                callVars, procVars
        <3>5. CASE Cancel \/ Drop \/ UNCHANGED vars
            BY <1>2, <2>1, <3>1, <3>5 DEF Cancel, Drop, vars, callVars, procVars
        <3> QED
            BY <1>2, <3>2, <3>3, <3>4, <3>5 DEF Next, Done
    <2>2. CASE result' # result /\ result' \in Exit
        <3>1. Collected
            BY <1>2, <2>2 DEF Next, Caller, Spawn, SpawnFails, ReadPipe, WaitReturns, WaitFails,
                CancelledAndWaited, Return, Cancel, Drop, ReapExited, ReapTimeout, ReapCancelled,
                Process, WriteOutput, ChildExits, LeaveHeir, HeirExits, Done, vars, callVars
        <3> QED
            BY <1>2, <3>1 DEF Collected, Return, callVars, procVars
    <2>3. CASE result' \notin Exit
        BY <2>3
    <2> QED
        BY <2>1, <2>2, <2>3
<1> QED
    BY <1>1, <1>2, ShellInvAlways, PTL DEF Spec
=============================================================================
