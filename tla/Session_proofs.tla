--------------------------- MODULE Session_proofs ---------------------------
(***************************************************************************)
(* Facts about one session for every length of output and every capacity   *)
(* of its stdout pipe, with descendants that hold the pipe or without.     *)
(***************************************************************************)
EXTENDS Session, TLAPS

LEMMA SessionInvInit == Init => SessionInv
<1> SUFFICES ASSUME Init PROVE SessionInv
    OBVIOUS
<1>1. output \in Seq(Line) /\ read \in 0 .. Len(output)
    BY DEF Init
<1> QED
    BY <1>1 DEF Init, SessionInv, TypeOK, PC, Terminal, Reaped

LEMMA SessionInvTask ==
    ASSUME SessionInv, Task
    PROVE  SessionInv'
<1> USE DEF SessionInv, TypeOK, PC, Terminal, Reaped, agentVars, Go, SetState, EndWith
<1>1. CASE Prepare
    BY <1>1 DEF Prepare
<1>2. CASE PrepareFails
    BY <1>2 DEF PrepareFails
<1>3. CASE CancelBeforeSpawn
    BY <1>3 DEF CancelBeforeSpawn
<1>4. CASE SpawnChild
    BY <1>4 DEF SpawnChild
<1>5. CASE WritePrompt
    BY <1>5 DEF WritePrompt
<1>6. CASE WritePromptFails
    BY <1>6 DEF WritePromptFails
<1>7. CASE CancelBeforeRunning
    BY <1>7 DEF CancelBeforeRunning
<1>8. CASE StartRunning
    BY <1>8 DEF StartRunning
<1>9. CASE StreamShutdown
    BY <1>9 DEF StreamShutdown, StopReading
<1>10. CASE StreamCancel
    BY <1>10 DEF StreamCancel
<1>11. CASE ReadLine
    <2>1. /\ pc = "streaming" /\ read' = read + 1 /\ read < Len(output)
          /\ UNCHANGED <<ran, cancel, agentVars, shutdown>>
          /\ \/ StopReading("Failed")
             \/ (SetState("Completed") \/ SetState("Failed")) /\ UNCHANGED <<pc, killed>>
             \/ UNCHANGED <<pc, state, killed>>
        <3>1. output[read + 1] \in Line
            BY <1>11 DEF ReadLine
        <3> QED
            BY <1>11, <3>1 DEF ReadLine, Line
    <2>2. read' \in 0 .. Len(output')
        BY <2>1
    <2> QED
        BY <2>1, <2>2 DEF StopReading
<1>12. CASE ReadEof
    BY <1>12 DEF ReadEof, StopReading
<1>13. CASE WaitCancel
    BY <1>13 DEF WaitCancel
<1>14. CASE WaitChild
    BY <1>14 DEF WaitChild
<1> QED
    BY <1>1, <1>2, <1>3, <1>4, <1>5, <1>6, <1>7, <1>8, <1>9, <1>10, <1>11, <1>12, <1>13, <1>14
       DEF Task

LEMMA SessionInvOthers ==
    ASSUME SessionInv, Waiter \/ Agent \/ ShutDown \/ SendCancel \/ RuntimeDropped
    PROVE  SessionInv'
<1> USE DEF SessionInv, TypeOK, PC, Terminal, Reaped, agentVars, taskVars, ChildGone
<1>1. CASE ReapExited
    BY <1>1 DEF ReapExited
<1>1a. CASE ReapTimeout
    BY <1>1a DEF ReapTimeout
<1>1b. CASE ReapCancelled
    BY <1>1b DEF ReapCancelled
<1>2. CASE WriteLine
    <2>1. PICK line \in Line : output' = Append(output, line)
        BY <1>2 DEF WriteLine
    <2>2. output' \in Seq(Line) /\ Len(output') = Len(output) + 1
        BY <2>1
    <2>3. read' \in 0 .. Len(output')
        BY <1>2, <2>2 DEF WriteLine
    <2> QED
        BY <1>2, <2>2, <2>3 DEF WriteLine
<1>3. CASE ReadOrCloseStdin
    BY <1>3 DEF ReadOrCloseStdin
<1>3a. CASE HeirOfStdin
    <2>1. heir' \in BOOLEAN /\ stdin' \in {"none", "buffered", "unread", "read", "closed"}
        BY <1>3a DEF HeirOfStdin
    <2>2. UNCHANGED <<taskVars, child, waiter, output, holders, shutdown>>
        BY <1>3a DEF HeirOfStdin
    <2> QED BY <2>1, <2>2
<1>4. CASE CloseStdout \/ Fork \/ HeirExits
    <2>1. holders' \subseteq {"child", "heir"}
        BY <1>4 DEF CloseStdout, Fork, HeirExits
    <2>2. UNCHANGED <<taskVars, child, stdin, heir, waiter, output, shutdown>>
        BY <1>4 DEF CloseStdout, Fork, HeirExits
    <2> QED
        BY <2>1, <2>2
<1>4a. CASE ChildExits
    BY <1>4a DEF ChildExits
<1>5. CASE ShutDown
    BY <1>5 DEF ShutDown
<1>6. CASE SendCancel
    BY <1>6 DEF SendCancel
<1>7. CASE RuntimeDropped
    BY <1>7 DEF RuntimeDropped
<1> QED
    BY <1>1, <1>1a, <1>1b, <1>2, <1>3, <1>3a, <1>4, <1>4a, <1>5, <1>6, <1>7
    DEF Agent, Waiter

LEMMA SessionInvNext == SessionInv /\ [Next]_vars => SessionInv'
<1> SUFFICES ASSUME SessionInv, [Next]_vars PROVE SessionInv'
    OBVIOUS
<1>1. CASE UNCHANGED vars
    BY <1>1 DEF SessionInv, TypeOK, vars, taskVars, agentVars
<1>2. CASE Next
    BY <1>1, <1>2, SessionInvTask, SessionInvOthers DEF Next, Done
<1> QED
    BY <1>1, <1>2

\* Where a session is, what it has sent and what its agent may be doing
\* agree in every reachable state.
THEOREM SessionInvariant == Spec => []SessionInv
BY SessionInvInit, SessionInvNext, PTL DEF Spec

-----------------------------------------------------------------------------
(* The session keeps its contract.                                         *)

LEMMA ContractInit == Init => Contract!Init
BY DEF Init, Contract!Init

LEMMA ContractStep ==
    ASSUME SessionInv, [Next]_vars
    PROVE  [Contract!Next]_Contract!vars
<1> USE DEF SessionInv, TypeOK, PC, Terminal, Reaped, agentVars, taskVars, Contract!vars
<1>a. CASE Task
    <2> USE DEF Go, SetState, EndWith, StopReading, Contract!Become
    <2>1. CASE Prepare
        BY <2>1 DEF Prepare, Contract!Next, Contract!Prepares
    <2>2. CASE PrepareFails \/ CancelBeforeSpawn \/ WritePromptFails \/ CancelBeforeRunning
        <3>1. Contract!StopsEarly
            BY <2>2 DEF PrepareFails, CancelBeforeSpawn, WritePromptFails,
                        CancelBeforeRunning, Contract!StopsEarly
        <3> QED
            BY <3>1 DEF Contract!Next
    <2>3. CASE SpawnChild
        BY <2>3 DEF SpawnChild, Contract!Next, Contract!SpawnsAgent
    <2>4. CASE StartRunning
        BY <2>4 DEF StartRunning, Contract!Next, Contract!Runs
    <2>5. CASE StreamShutdown \/ StreamCancel \/ ReadLine \/ ReadEof
        <3>1. /\ pc = "streaming" /\ pc' \in {"streaming", "waiting"}
              /\ UNCHANGED <<child, shutdown>>
              /\ \/ UNCHANGED state
                 \/ SetState("Completed") \/ SetState("Failed")
                 \/ shutdown /\ SetState("Cancelled")
            <4>1. CASE ReadLine
                <5>1. read + 1 \in 1 .. Len(output) /\ output[read + 1] \in Line
                    BY <4>1 DEF ReadLine
                <5> QED
                    BY <4>1, <5>1 DEF ReadLine, Line
            <4> QED
                BY <2>5, <4>1 DEF StreamShutdown, StreamCancel, ReadEof
        <3>2. Contract!Terminates \/ UNCHANGED Contract!vars
            BY <3>1 DEF Contract!Terminates
        <3> QED
            BY <3>2 DEF Contract!Next
    <2>6. CASE WaitChild
        BY <2>6 DEF WaitChild, Contract!Next, Contract!Ends
    <2>7. CASE WritePrompt \/ WaitCancel
        BY <2>7 DEF WritePrompt, WaitCancel
    <2> QED
        BY <1>a, <2>1, <2>2, <2>3, <2>4, <2>5, <2>6, <2>7 DEF Task
<1>b. CASE Waiter \/ ChildExits
    <2>1. /\ UNCHANGED <<pc, state, shutdown>>
          /\ child' = child \/ (child = "alive" /\ child' = "dead")
        BY <1>b DEF Waiter, ReapExited, ReapTimeout, ReapCancelled, ChildExits, ChildGone
    <2> QED
        BY <2>1 DEF Contract!Next, Contract!AgentExits
<1>c. CASE \/ WriteLine \/ ReadOrCloseStdin \/ HeirOfStdin \/ CloseStdout \/ Fork \/ HeirExits
           \/ SendCancel \/ RuntimeDropped \/ UNCHANGED vars
    BY <1>c DEF WriteLine, ReadOrCloseStdin, HeirOfStdin, CloseStdout, Fork, HeirExits,
                SendCancel, RuntimeDropped, vars
<1>d. CASE ShutDown
    BY <1>d DEF ShutDown, Contract!Next, Contract!ShutDown
<1> QED
    BY <1>a, <1>b, <1>c, <1>d DEF Next, Agent, Done

\* The session task, with its agent and the task that reaps it, implements
\* what the manager's model assumes of a session.
THEOREM SessionKeepsContract == Spec => ImplementsContract
BY ContractInit, ContractStep, SessionInvariant, PTL DEF Spec, ImplementsContract, Contract!Spec

-----------------------------------------------------------------------------
(* What is left of the agent when its session has ended.                   *)

\* A session that ends while its agent runs has killed it or was refused by
\* its stdin, whatever the agent, its descendants and shutdown do meanwhile.
THEOREM EndedLeavesNoAgent == Spec => []LeftBehindOnlyIfStdinClosed
<1> USE DEF LeftBehindOnlyIfStdinClosed
<1>1. Init => LeftBehindOnlyIfStdinClosed
    BY DEF Init
<1>2. ASSUME SessionInv, LeftBehindOnlyIfStdinClosed, [Next]_vars
      PROVE  LeftBehindOnlyIfStdinClosed'
    <2> USE <1>2 DEF SessionInv, TypeOK, PC, Terminal, Reaped, agentVars, taskVars
    <2>1. CASE Task
        <3>1. CASE Prepare \/ PrepareFails \/ CancelBeforeSpawn \/ SpawnChild \/ WritePrompt
            BY <3>1 DEF Prepare, PrepareFails, CancelBeforeSpawn, SpawnChild, WritePrompt, Go, EndWith
        <3>2. CASE WritePromptFails
            BY <3>2 DEF WritePromptFails, Readable
        <3>2a. CASE CancelBeforeRunning
            BY <3>2a DEF CancelBeforeRunning
        <3>2b. CASE StartRunning
            BY <3>2b DEF StartRunning, Go
        <3>3. CASE StreamShutdown \/ StreamCancel \/ ReadLine \/ ReadEof
            <4>1. CASE ReadLine
                <5>1. output[read + 1] \in Line
                    BY <4>1 DEF ReadLine
                <5> QED
                    BY <4>1, <5>1 DEF ReadLine, Line, StopReading, Go
            <4>2. CASE StreamShutdown \/ StreamCancel \/ ReadEof
                BY <4>2 DEF StreamShutdown, StreamCancel, ReadEof, StopReading, Go
            <4> QED
                BY <3>3, <4>1, <4>2
        <3>4. CASE WaitCancel
            BY <3>4 DEF WaitCancel
        <3>5. CASE WaitChild
            BY <3>5 DEF WaitChild, Go
        <3> QED
            BY <2>1, <3>1, <3>2, <3>2a, <3>2b, <3>3, <3>4, <3>5 DEF Task
    <2>2. CASE Waiter
        BY <2>2 DEF Waiter, ChildGone, ReapExited, ReapTimeout, ReapCancelled
    <2>3. CASE Agent
        BY <2>3 DEF Agent, ChildGone, WriteLine, ReadOrCloseStdin, HeirOfStdin, CloseStdout, Fork,
               HeirExits, ChildExits
    <2>4. CASE ShutDown \/ SendCancel \/ RuntimeDropped \/ UNCHANGED vars
        BY <2>4 DEF ShutDown, SendCancel, RuntimeDropped, vars
    <2> QED
        BY <2>1, <2>2, <2>3, <2>4 DEF Next, Done
<1> QED
    BY <1>1, <1>2, SessionInvariant, PTL DEF Spec

-----------------------------------------------------------------------------
(* The verdict.                                                            *)

Early == {"init", "preparing", "writing", "spawned"}

FirstVerdictIsCompleted ==
    \E j \in Verdicts : output[j] = "completed" /\ \A i \in Verdicts : j <= i

\* OutputDecides, of a session that has stopped reading.
Decided ==
    IF state = "Cancelled" THEN shutdown /\ Verdicts = {}
    ELSE /\ shutdown \/ read = Len(output) \/ (read > 0 /\ output[read] = "unreadable")
         /\ state = "Completed" <=> FirstVerdictIsCompleted

\* The state of a session that reads is its first verdict, and Running before
\* the first: whatever makes it stop reading finds the state decided.
VerdictInv ==
    /\ ran => pc \notin Early
    /\ pc \in Early => read = 0
    /\ pc = "streaming" =>
        /\ state # "Cancelled"
        /\ state = "Running" <=> Verdicts = {}
        /\ state = "Completed" <=> FirstVerdictIsCompleted
    /\ ran /\ pc \in {"waiting", "ended"} => Decided

LEMMA VerdictInit == Init => VerdictInv
BY DEF Init, VerdictInv, OutputDecides, Early

\* What was read stays: lines are only added after it.
LEMMA VerdictsStay ==
    ASSUME SessionInv, read' = read,
           output' = output \/ \E line \in Line : output' = Append(output, line)
    PROVE  /\ Verdicts' = Verdicts
           /\ \A j \in 1 .. read : output'[j] = output[j]
           /\ FirstVerdictIsCompleted' <=> FirstVerdictIsCompleted
<1>1. \A j \in 1 .. read : output'[j] = output[j]
    BY DEF SessionInv, TypeOK
<1> QED
    BY <1>1 DEF Verdicts, FirstVerdictIsCompleted

\* A line adds to the verdicts or not, and only the first one counts.
LEMMA VerdictsGrow ==
    ASSUME SessionInv, ReadLine
    PROVE  /\ output' = output /\ read' = read + 1
           /\ Verdicts' = IF output[read + 1] = "progress" THEN Verdicts
                          ELSE Verdicts \cup {read + 1}
           /\ Verdicts # {} => (FirstVerdictIsCompleted' <=> FirstVerdictIsCompleted)
           /\ Verdicts = {} => (FirstVerdictIsCompleted' <=> output[read + 1] = "completed")
<1>1. output' = output /\ read' = read + 1 /\ read \in Nat
    BY DEF ReadLine, agentVars, SessionInv, TypeOK
<1>2. 1 .. read' = (1 .. read) \cup {read + 1}
    BY <1>1
<1>3. Verdicts' = IF output[read + 1] = "progress" THEN Verdicts
                  ELSE Verdicts \cup {read + 1}
    BY <1>1, <1>2 DEF Verdicts
<1>4. \A j \in Verdicts : j \in Nat /\ j <= read /\ output[j] # "progress"
    BY <1>1 DEF Verdicts
<1>5. ASSUME Verdicts # {}
      PROVE  FirstVerdictIsCompleted' <=> FirstVerdictIsCompleted
    BY <1>1, <1>3, <1>4, <1>5 DEF FirstVerdictIsCompleted
<1>6. ASSUME Verdicts = {}
      PROVE  FirstVerdictIsCompleted' <=> output[read + 1] = "completed"
    BY <1>1, <1>3, <1>4, <1>6 DEF FirstVerdictIsCompleted
<1> QED
    BY <1>1, <1>3, <1>5, <1>6

LEMMA VerdictTask ==
    ASSUME SessionInv, VerdictInv, Task
    PROVE  VerdictInv'
<1> USE DEF VerdictInv, SessionInv, TypeOK, PC, Terminal, Reaped, Early, Decided, agentVars
<1>1. CASE Prepare \/ PrepareFails \/ CancelBeforeSpawn \/ SpawnChild
    BY <1>1 DEF Prepare, PrepareFails, CancelBeforeSpawn, SpawnChild, Go, EndWith
<1>2. CASE WritePrompt \/ WritePromptFails \/ CancelBeforeRunning
    BY <1>2 DEF WritePrompt, WritePromptFails, CancelBeforeRunning, Go, EndWith
<1>3. CASE StartRunning
    <2>1. state' = "Running" /\ read = 0 /\ pc' = "streaming" /\ UNCHANGED <<read, output>>
        BY <1>3 DEF StartRunning, Go, SetState
    <2>2. Verdicts' = {}
        BY <2>1 DEF Verdicts
    <2>3. ~FirstVerdictIsCompleted'
        BY <2>2 DEF FirstVerdictIsCompleted
    <2> QED
        BY <2>1, <2>2, <2>3
<1>4. CASE StreamShutdown \/ StreamCancel
    <2>1. /\ Verdicts' = Verdicts
          /\ FirstVerdictIsCompleted' <=> FirstVerdictIsCompleted
          /\ UNCHANGED <<read, output, ran, shutdown>>
        BY <1>4, VerdictsStay DEF StreamShutdown, StreamCancel
    <2>2. /\ shutdown /\ pc = "streaming" /\ pc' = "waiting"
          /\ state' = IF state \in Terminal THEN state ELSE "Cancelled"
        BY <1>4 DEF StreamShutdown, StreamCancel, StopReading, Go, SetState
    <2> QED
        BY <2>1, <2>2
<1>5. CASE ReadLine
    <2>1. /\ pc = "streaming" /\ read' = read + 1 /\ read < Len(output) /\ read' > 0
          /\ UNCHANGED <<output, ran, shutdown>>
        BY <1>5 DEF ReadLine
    <2>2. output[read + 1] \in Line
        BY <2>1
    <2>3. read + 1 \notin Verdicts
        BY DEF Verdicts
    <2> HIDE DEF Decided
    <2>4. CASE output[read + 1] = "progress"
        <3>1. Verdicts' = Verdicts /\ UNCHANGED <<pc, state>>
            BY <1>5, <2>4, VerdictsGrow DEF ReadLine
        <3>2. FirstVerdictIsCompleted' <=> FirstVerdictIsCompleted
            BY <1>5, <2>4, <3>1, VerdictsGrow DEF FirstVerdictIsCompleted
        <3> QED
            BY <2>1, <3>1, <3>2
    <2>5. CASE output[read + 1] \in {"completed", "failed"}
        <3>1. /\ pc' = pc /\ Verdicts' # {}
              /\ Verdicts # {} => (FirstVerdictIsCompleted' <=> FirstVerdictIsCompleted)
              /\ Verdicts = {} => (FirstVerdictIsCompleted' <=> output[read + 1] = "completed")
            BY <1>5, <2>5, VerdictsGrow DEF ReadLine
        <3>2. state' = IF state \in Terminal THEN state
                       ELSE IF output[read + 1] = "completed" THEN "Completed" ELSE "Failed"
            BY <1>5, <2>5 DEF ReadLine, SetState
        <3> QED
            BY <2>1, <3>1, <3>2
    <2>6. CASE output[read + 1] = "unreadable"
        <3>1. /\ pc' = "waiting" /\ output'[read'] = "unreadable"
              /\ Verdicts # {} => (FirstVerdictIsCompleted' <=> FirstVerdictIsCompleted)
              /\ Verdicts = {} => ~FirstVerdictIsCompleted'
            BY <1>5, <2>6, VerdictsGrow DEF ReadLine, StopReading, Go
        <3>2. state' = IF state \in Terminal THEN state ELSE "Failed"
            BY <1>5, <2>6 DEF ReadLine, StopReading, SetState
        <3> QED
            BY <2>1, <3>1, <3>2 DEF Decided
    <2> QED
        BY <2>2, <2>4, <2>5, <2>6 DEF Line
<1>6. CASE ReadEof
    <2>1. /\ Verdicts' = Verdicts
          /\ FirstVerdictIsCompleted' <=> FirstVerdictIsCompleted
          /\ UNCHANGED <<read, output, ran, shutdown>> /\ read = Len(output)
        BY <1>6, VerdictsStay DEF ReadEof
    <2>2. /\ pc = "streaming" /\ pc' = "waiting"
          /\ state' = IF state \in Terminal THEN state ELSE "Failed"
        BY <1>6 DEF ReadEof, StopReading, Go, SetState
    <2>3. Verdicts = {} => ~FirstVerdictIsCompleted
        BY DEF FirstVerdictIsCompleted
    <2> QED
        BY <2>1, <2>2, <2>3
<1>7. CASE WaitCancel \/ WaitChild
    <2>1. /\ Verdicts' = Verdicts
          /\ FirstVerdictIsCompleted' <=> FirstVerdictIsCompleted
          /\ UNCHANGED <<read, output, shutdown, ran>>
        BY <1>7, VerdictsStay DEF WaitCancel, WaitChild
    <2>2. pc = "waiting" /\ pc' \in {"waiting", "ended"} /\ state' = state
        BY <1>7 DEF WaitCancel, WaitChild, Go, SetState
    <2> QED
        BY <2>1, <2>2
<1> QED
    BY <1>1, <1>2, <1>3, <1>4, <1>5, <1>6, <1>7 DEF Task

LEMMA VerdictOthers ==
    ASSUME SessionInv, VerdictInv,
           Waiter \/ Agent \/ ShutDown \/ SendCancel \/ RuntimeDropped \/ UNCHANGED vars
    PROVE  VerdictInv'
<1> USE DEF VerdictInv, SessionInv, TypeOK, PC, Early, agentVars, taskVars
<1>1. /\ UNCHANGED <<state, ran, read>> /\ pc' \in {pc, "dropped"}
      /\ shutdown => shutdown'
      /\ \/ output' = output
         \/ pc \notin {"waiting", "ended"} /\ \E line \in Line : output' = Append(output, line)
    <2>1. CASE Waiter
        BY <2>1 DEF Waiter, ReapExited, ReapTimeout, ReapCancelled
    <2>2. CASE Agent
        BY <2>2 DEF Agent, Listening, WriteLine, ReadOrCloseStdin, HeirOfStdin, CloseStdout, Fork,
                    HeirExits, ChildExits
    <2>3. CASE ShutDown \/ SendCancel \/ RuntimeDropped \/ UNCHANGED vars
        BY <2>3 DEF ShutDown, SendCancel, RuntimeDropped, vars
    <2> QED
        BY <2>1, <2>2, <2>3
<1>2. /\ Verdicts' = Verdicts
      /\ FirstVerdictIsCompleted' <=> FirstVerdictIsCompleted
    BY <1>1, VerdictsStay
<1> QED
    BY <1>1, <1>2 DEF Decided

\* The verdict is the first one in the output, for every length of output and
\* every interleaving of the agent's exit, the pipe and both cancellations.
THEOREM VerdictIsFirst == Spec => []OutputDecides
<1>1. SessionInv /\ VerdictInv /\ [Next]_vars => VerdictInv'
    BY VerdictTask, VerdictOthers DEF Next, Done
<1>2. VerdictInv => OutputDecides
    BY DEF VerdictInv, OutputDecides, Decided, FirstVerdictIsCompleted
<1> QED
    BY VerdictInit, <1>1, <1>2, SessionInvariant, PTL DEF Spec

=============================================================================
