------------------------ MODULE StageSessions_proofs ------------------------
(***************************************************************************)
(* Machine-checked facts about StageSessions, for every set of issues,     *)
(* stages and tracker states, every cap and every channel capacity.        *)
(***************************************************************************)
EXTENDS StageSessionsInv, FiniteSetTheorems, TLAPS

\* Keys of dispatchable stages belong to the issue that was passed in.
LEMMA DispatchedKeys ==
    ASSUME NEW i, NEW s
    PROVE  ShouldDispatch(i, s) \subseteq {k \in Key : k.issue = i}
BY DEF ShouldDispatch

\* A drained or kept stages entry adds no active issue.
LEMMA DrainShrinksActive ==
    ASSUME NEW K, DrainKeyState(K)
    PROVE  ActiveIssues' \subseteq ActiveIssues
BY DEF DrainKeyState, ActiveIssues

LEMMA DispatchAddsOneIssue ==
    ASSUME NEW i, NEW K, NEW n,
           K \subseteq {k \in Key : k.issue = i},
           ReserveIssueStages(K, n)
    PROVE  ActiveIssues' \subseteq ActiveIssues \cup {i}
BY DEF ReserveIssueStages, ActiveIssues

CapInv == IsFiniteSet(ActiveIssues) /\ IssueCapHolds

LEMMA CapInvInit == Init => CapInv
<1> SUFFICES ASSUME Init PROVE CapInv
    OBVIOUS
<1>1. ActiveIssues = {}
    BY DEF Init, ActiveIssues
<1>2. IsFiniteSet({}) /\ Cardinality({}) = 0
    BY FS_EmptySet
<1> QED
    BY <1>1, <1>2, ConcurrencyAssumption DEF CapInv, IssueCapHolds

\* Fewer active issues stay within the cap.
LEMMA CapInvShrink ==
    ASSUME CapInv, ActiveIssues' \subseteq ActiveIssues
    PROVE  CapInv'
<1>1. /\ IsFiniteSet(ActiveIssues')
      /\ Cardinality(ActiveIssues') <= Cardinality(ActiveIssues)
    BY FS_Subset DEF CapInv
<1>2. Cardinality(ActiveIssues) \in Nat /\ Cardinality(ActiveIssues') \in Nat
    BY <1>1, FS_CardinalityType DEF CapInv
<1> QED
    BY <1>1, <1>2, ConcurrencyAssumption DEF CapInv, IssueCapHolds

LEMMA CapInvDispatch ==
    ASSUME CapInv, NEW i \in Issues, NEW s \in IssueStates, TryRunIssue(i, s)
    PROVE  CapInv'
<1> DEFINE K == ShouldDispatch(i, s)
<1>1. K # {} /\ ReserveIssueStages(K, issueRuns + 1)
    BY DEF TryRunIssue
<1>2. CanAcceptIssue(i)
    BY <1>1 DEF ShouldDispatch
<1>3. ActiveIssues' \subseteq ActiveIssues \cup {i}
    BY <1>1, DispatchedKeys, DispatchAddsOneIssue
<1>4. CASE i \in ActiveIssues
    BY <1>3, <1>4, CapInvShrink
<1>5. CASE i \notin ActiveIssues /\ Cardinality(ActiveIssues) < MaxIssueConcurrency
    <2> DEFINE A == ActiveIssues \cup {i}
    <2>1. IsFiniteSet(A) /\ Cardinality(A) = Cardinality(ActiveIssues) + 1
        BY <1>5, FS_AddElement DEF CapInv
    <2>2. IsFiniteSet(ActiveIssues') /\ Cardinality(ActiveIssues') <= Cardinality(A)
        BY <1>3, <2>1, FS_Subset
    <2>3. /\ Cardinality(ActiveIssues) \in Nat
          /\ Cardinality(A) \in Nat
          /\ Cardinality(ActiveIssues') \in Nat
        BY <2>1, <2>2, FS_CardinalityType DEF CapInv
    <2> QED
        BY <1>5, <2>1, <2>2, <2>3, ConcurrencyAssumption DEF CapInv, IssueCapHolds
<1> QED
    BY <1>2, <1>4, <1>5 DEF CanAcceptIssue

\* Only three actions touch the stages map.
LEMMA StagesMapSteps ==
    ASSUME [Next]_vars
    PROVE  \/ \E i \in Issues, s \in IssueStates : TryRunIssue(i, s)
           \/ HandlePreparationFailed
           \/ HandleFinished
           \/ UNCHANGED stages
BY DEF Next, vars, mapVars, Stopped, CancelAll, HandleEvent, HandlePrepared,
       HandleStarted, HandleStateUpdated, AfterTask, AfterRunEnds, ReportFinished,
       PrepareTask, PrepareEnds, PrepareDropped, PrepareReports,
       LaunchTask, SpawnStage, LaunchFails, ReportAborted, ReportStarted,
       ProxyState, ProxyEnds, ProxyReportsLost,
       SessionTask, SessionPrepares, SessionSpawnsAgent, SessionStopsEarly,
       SessionRuns, SessionTerminates, SessionEnds, AgentExits, SessionPanics

LEMMA CapInvNext == CapInv /\ [Next]_vars => CapInv'
<1> SUFFICES ASSUME CapInv, [Next]_vars PROVE CapInv'
    OBVIOUS
<1>1. CASE \E i \in Issues, s \in IssueStates : TryRunIssue(i, s)
    BY <1>1, CapInvDispatch
<1>2. CASE HandlePreparationFailed
    BY <1>2, DrainShrinksActive, CapInvShrink DEF HandlePreparationFailed
<1>3. CASE HandleFinished
    BY <1>3, DrainShrinksActive, CapInvShrink DEF HandleFinished
<1>4. CASE UNCHANGED stages
    <2>1. ActiveIssues' = ActiveIssues
        BY <1>4 DEF ActiveIssues
    <2> QED
        BY <2>1, CapInvShrink
<1> QED
    BY <1>1, <1>2, <1>3, <1>4, StagesMapSteps

\* The cap on distinct active issue ids (loop.max_issue_concurrency) is kept
\* by every interleaving of intake results, tasks and events.
THEOREM IssueCap == Spec => []IssueCapHolds
<1>1. CapInv => IssueCapHolds
    BY DEF CapInv
<1> QED
    BY CapInvInit, CapInvNext, <1>1, PTL DEF Spec

-----------------------------------------------------------------------------
(* Type correctness.                                                       *)

LEMMA TypeOKInit == Init => TypeOK
<1> SUFFICES ASSUME Init PROVE TypeOK
    OBVIOUS
<1>1. /\ senders \in [Key -> 0 .. MaxIssueRuns]
      /\ stages \in [Key -> 0 .. MaxIssueRuns]
      /\ issueRuns \in 0 .. MaxIssueRuns
    BY MaxIssueRunsAssumption DEF Init
<1>2. unread \in [Run -> Seq(SessionState)]
    BY DEF Init
<1>3. queue \in Seq(Event) /\ Len(queue) <= EventCapacity
    BY CapacityAssumption DEF Init
<1> QED
    BY <1>1, <1>2, <1>3 DEF Init, TypeOK, PreparePC, TaskPC, AfterPC, SessionState, AgentPC

\* A send keeps the channel a sequence of events within its capacity.
LEMMA SendType ==
    ASSUME NEW e \in Event, queue \in Seq(Event), Send(e)
    PROVE  queue' \in Seq(Event) /\ Len(queue') <= EventCapacity
BY CapacityAssumption DEF Send

LEMMA ReceiveType ==
    ASSUME queue \in Seq(Event), Len(queue) <= EventCapacity, Receive
    PROVE  /\ queue' \in Seq(Event)
           /\ Len(queue') <= EventCapacity
           /\ Head(queue) \in Event
<1>1. queue \in Seq(Event) /\ queue # <<>> /\ queue' = Tail(queue)
    BY DEF Receive
<1>2. Len(queue) \in Nat /\ Len(queue') = Len(queue) - 1
    BY <1>1
<1> QED
    BY <1>1, <1>2, CapacityAssumption

LEMMA RunOf ==
    ASSUME NEW k \in Key, NEW n \in RunNo
    PROVE  [key |-> k, n |-> n] \in Run
BY DEF Run

LEMMA TypeOKPrepare ==
    ASSUME TypeOK, NEW n \in RunNo, PrepareTask(n)
    PROVE  TypeOK'
<1>1. CASE PrepareEnds(n)
    BY <1>1 DEF TypeOK, PrepareEnds, PreparePC, mapVars, sessionVars
<1>2. CASE PrepareDropped(n)
    BY <1>2 DEF TypeOK, PrepareDropped, PreparePC, mapVars, sessionVars
<1>3. CASE PrepareReports(n)
    <2> DEFINE e == [type |-> IF prepare[n] = "ready" THEN "Prepared" ELSE "PreparationFailed",
                     runs |-> RunsOf(n)]
    <2>1. RunsOf(n) \subseteq Run
        BY RunOf DEF RunsOf, TypeOK
    <2>2. e \in Event
        BY <2>1 DEF Event
    <2>3. queue' \in Seq(Event) /\ Len(queue') <= EventCapacity
        BY <1>3, <2>2, SendType DEF PrepareReports, TypeOK
    <2> QED
        BY <1>3, <2>3 DEF TypeOK, PrepareReports, PreparePC, mapVars, sessionVars
<1> QED
    BY <1>1, <1>2, <1>3 DEF PrepareTask

LEMMA TypeOKLaunch ==
    ASSUME TypeOK, NEW r \in Run, LaunchTask(r)
    PROVE  TypeOK'
<1> USE DEF TaskPC, mapVars, prepareVars, sessionVars
<1>1. CASE SpawnStage(r)
    BY <1>1 DEF TypeOK, SpawnStage
<1>2. CASE LaunchFails(r)
    BY <1>2 DEF TypeOK, LaunchFails
<1>3. CASE ReportAborted(r)
    <2>1. [type |-> "Finished", run |-> r] \in Event
        BY DEF Event
    <2>2. queue' \in Seq(Event) /\ Len(queue') <= EventCapacity
        BY <1>3, <2>1, SendType DEF ReportAborted, TypeOK
    <2> QED
        BY <1>3, <2>2 DEF TypeOK, ReportAborted
<1>4. CASE ReportStarted(r)
    <2>1. [type |-> "Started", run |-> r] \in Event
        BY DEF Event
    <2>2. queue' \in Seq(Event) /\ Len(queue') <= EventCapacity
        BY <1>4, <2>1, SendType DEF ReportStarted, TypeOK
    <2> QED
        BY <1>4, <2>2 DEF TypeOK, ReportStarted
<1>5. CASE ProxyState(r)
    <2> DEFINE s == Head(unread[r])
    <2>1. unread[r] \in Seq(SessionState) /\ unread[r] # <<>>
        BY <1>5 DEF TypeOK, ProxyState
    <2>2. s \in SessionState /\ Tail(unread[r]) \in Seq(SessionState)
        BY <2>1
    <2>3. [type |-> "StateUpdated", run |-> r, state |-> s] \in Event
        BY <2>2 DEF Event
    <2>4. queue' \in Seq(Event) /\ Len(queue') <= EventCapacity
        BY <1>5, <2>3, SendType DEF ProxyState, TypeOK
    <2>5. unread' \in [Run -> Seq(SessionState)]
        BY <1>5, <2>2 DEF ProxyState, TypeOK
    <2>6. task' \in [Run -> TaskPC]
        BY <1>5 DEF ProxyState, TypeOK
    <2> QED
        BY <1>5, <2>4, <2>5, <2>6 DEF TypeOK, ProxyState
<1>6. CASE ProxyEnds(r)
    BY <1>6 DEF TypeOK, ProxyEnds
<1>7. CASE ProxyReportsLost(r)
    <2>1. [type |-> "StateUpdated", run |-> r, state |-> "Failed"] \in Event
        BY DEF Event, SessionState, Terminal
    <2>2. queue' \in Seq(Event) /\ Len(queue') <= EventCapacity
        BY <1>7, <2>1, SendType DEF ProxyReportsLost, TypeOK
    <2> QED
        BY <1>7, <2>2 DEF TypeOK, ProxyReportsLost
<1> QED
    BY <1>1, <1>2, <1>3, <1>4, <1>5, <1>6, <1>7 DEF LaunchTask

LEMMA SetStateType ==
    ASSUME TypeOK, NEW r \in Run, NEW s \in SessionState, SetState(r, s)
    PROVE  state' \in [Run -> SessionState] /\ unread' \in [Run -> Seq(SessionState)]
<1>1. unread[r] \in Seq(SessionState)
    BY DEF TypeOK
<1>2. Append(unread[r], s) \in Seq(SessionState)
    BY <1>1
<1> QED
    BY <1>2 DEF TypeOK, SetState

LEMMA TypeOKSession ==
    ASSUME TypeOK, NEW r \in Run, SessionTask(r) \/ AgentExits(r) \/ SessionPanics(r)
    PROVE  TypeOK'
<1> USE DEF mapVars, prepareVars
<1>s. {"Preparing", "Running", "Completed", "Failed", "Cancelled"} \subseteq SessionState
    BY DEF SessionState, Terminal
<1>1. CASE SessionPrepares(r)
    BY <1>1, <1>s, SetStateType DEF TypeOK, SessionPrepares
<1>2. CASE SessionSpawnsAgent(r)
    BY <1>2 DEF TypeOK, SessionSpawnsAgent, AgentPC
<1>3. CASE SessionStopsEarly(r)
    <2>1. state' \in [Run -> SessionState] /\ unread' \in [Run -> Seq(SessionState)]
        BY <1>3, <1>s, SetStateType DEF SessionStopsEarly
    <2> QED
        BY <1>3, <2>1 DEF TypeOK, SessionStopsEarly
<1>4. CASE SessionRuns(r)
    BY <1>4, <1>s, SetStateType DEF TypeOK, SessionRuns
<1>5. CASE SessionTerminates(r)
    <2>1. state' \in [Run -> SessionState] /\ unread' \in [Run -> Seq(SessionState)]
        BY <1>5, <1>s, SetStateType DEF SessionTerminates
    <2> QED
        BY <1>5, <2>1 DEF TypeOK, SessionTerminates
<1>6. CASE SessionEnds(r)
    BY <1>6 DEF TypeOK, SessionEnds
<1>7. CASE AgentExits(r)
    BY <1>7 DEF TypeOK, AgentExits, AgentPC
<1>8. CASE SessionPanics(r)
    BY <1>8 DEF TypeOK, SessionPanics
<1> QED
    BY <1>1, <1>2, <1>3, <1>4, <1>5, <1>6, <1>7, <1>8 DEF SessionTask

LEMMA DrainType ==
    ASSUME TypeOK, NEW K, DrainKeyState(K)
    PROVE  /\ sessions' \subseteq Key
           /\ senders' \in [Key -> 0 .. MaxIssueRuns]
           /\ stages' \in [Key -> 0 .. MaxIssueRuns]
           /\ finishing' \subseteq Key
BY MaxIssueRunsAssumption DEF TypeOK, DrainKeyState

LEMMA TypeOKHandle ==
    ASSUME TypeOK, HandleEvent
    PROVE  TypeOK'
<1> USE DEF mapVars, prepareVars, sessionVars
<1>r. Receive
    BY DEF HandleEvent, HandlePrepared, HandlePreparationFailed, HandleStarted,
           HandleStateUpdated, HandleFinished
<1>q. /\ queue' \in Seq(Event)
      /\ Len(queue') <= EventCapacity
      /\ Head(queue) \in Event
    BY <1>r, ReceiveType DEF TypeOK
<1>1. CASE HandlePrepared
    BY <1>1, <1>q DEF TypeOK, HandlePrepared, TaskPC
<1>2. CASE HandlePreparationFailed
    BY <1>2, <1>q, DrainType DEF TypeOK, HandlePreparationFailed
<1>3. CASE HandleStarted
    <2>1. Head(queue).run \in Run
        BY <1>3, <1>q DEF HandleStarted, Event
    <2>2. Head(queue).run.n \in 0 .. MaxIssueRuns /\ Head(queue).run.key \in Key
        BY <2>1, MaxIssueRunsAssumption DEF Run, RunNo
    <2>3. senders' \in [Key -> 0 .. MaxIssueRuns]
        BY <1>3, <2>2 DEF TypeOK, HandleStarted
    <2> QED
        BY <1>3, <1>q, <2>3 DEF TypeOK, HandleStarted
<1>4. CASE HandleStateUpdated
    <2>1. Head(queue).run.key \in Key
        BY <1>4, <1>q DEF HandleStateUpdated, Event, Run
    <2>2. finishing' \subseteq Key
        BY <1>4, <2>1 DEF TypeOK, HandleStateUpdated, FinishStage
    <2>3. after' \in [Run -> AfterPC]
        <3>1. CASE Head(queue).state \in Terminal
            BY <1>4, <3>1 DEF TypeOK, HandleStateUpdated, FinishStage, AfterPC
        <3>2. CASE Head(queue).state \notin Terminal
            BY <1>4, <3>2 DEF TypeOK, HandleStateUpdated
        <3> QED
            BY <3>1, <3>2
    <2> QED
        BY <1>4, <1>q, <2>2, <2>3 DEF TypeOK, HandleStateUpdated
<1>5. CASE HandleFinished
    BY <1>5, <1>q, DrainType DEF TypeOK, HandleFinished
<1> QED
    BY <1>1, <1>2, <1>3, <1>4, <1>5 DEF HandleEvent

LEMMA TypeOKDispatch ==
    ASSUME TypeOK, NEW i \in Issues, NEW s \in IssueStates, TryRunIssue(i, s)
    PROVE  TypeOK'
<1> DEFINE K == ShouldDispatch(i, s)
<1>1. K \subseteq Key
    BY DispatchedKeys
<1>2. issueRuns + 1 \in RunNo /\ issueRuns' \in 0 .. MaxIssueRuns
    BY MaxIssueRunsAssumption DEF TypeOK, TryRunIssue, RunNo
<1>3. /\ sessions' \subseteq Key
      /\ senders' \in [Key -> 0 .. MaxIssueRuns]
      /\ stages' \in [Key -> 0 .. MaxIssueRuns]
    BY <1>1, <1>2, MaxIssueRunsAssumption DEF TypeOK, TryRunIssue, ReserveIssueStages, RunNo
<1>4. prepare' \in [RunNo -> PreparePC] /\ reserved' \in [RunNo -> SUBSET Key]
    BY <1>1, <1>2 DEF TypeOK, TryRunIssue, PreparePC
<1> QED
    BY <1>2, <1>3, <1>4 DEF TypeOK, TryRunIssue, sessionVars

LEMMA TypeOKNext == TypeOK /\ [Next]_vars => TypeOK'
<1> SUFFICES ASSUME TypeOK, [Next]_vars PROVE TypeOK'
    OBVIOUS
<1> USE DEF mapVars, prepareVars, sessionVars
<1>1. CASE \E i \in Issues, s \in IssueStates : TryRunIssue(i, s)
    BY <1>1, TypeOKDispatch
<1>2. CASE \E n \in RunNo : PrepareTask(n)
    BY <1>2, TypeOKPrepare
<1>3. CASE \E r \in Run : LaunchTask(r)
    BY <1>3, TypeOKLaunch
<1>4. CASE \E r \in Run : SessionTask(r) \/ AgentExits(r) \/ SessionPanics(r)
    BY <1>4, TypeOKSession
<1>5. CASE \E r \in Run : AfterTask(r)
    <2>1. PICK r \in Run : AfterTask(r)
        BY <1>5
    <2>2. CASE AfterRunEnds(r)
        BY <2>2 DEF TypeOK, AfterRunEnds, AfterPC
    <2>3. CASE ReportFinished(r)
        <3>1. [type |-> "Finished", run |-> r] \in Event
            BY DEF Event
        <3>2. queue' \in Seq(Event) /\ Len(queue') <= EventCapacity
            BY <2>3, <3>1, SendType DEF ReportFinished, TypeOK
        <3> QED
            BY <2>3, <3>2 DEF TypeOK, ReportFinished, AfterPC
    <2> QED
        BY <2>1, <2>2, <2>3 DEF AfterTask
<1>6. CASE HandleEvent
    BY <1>6, TypeOKHandle
<1>7. CASE CancelAll
    BY <1>7 DEF TypeOK, CancelAll
<1>8. CASE UNCHANGED vars
    BY <1>8 DEF TypeOK, vars
<1> QED
    BY <1>1, <1>2, <1>3, <1>4, <1>5, <1>6, <1>7, <1>8 DEF Next, Stopped

\* Every reachable state of the manager and its tasks is well typed; the
\* event channel never holds more than its capacity.
THEOREM TypeCorrect == Spec => []TypeOK
BY TypeOKInit, TypeOKNext, PTL DEF Spec

-----------------------------------------------------------------------------
(* Every reservation is driven by exactly one task or event, and nothing   *)
(* left over from an earlier reservation can drain the present one: the    *)
(* inductive invariant DutyInv and what follows from it.                   *)

OwnInv ==
    /\ FreshNumbers
    /\ UntouchedBeforeReport
    /\ DutyPlaces
    /\ DutyHoldsKey
    /\ KeyHasDuty
    /\ MapsAgree

-----------------------------------------------------------------------------
(* The channel: what a send and a receive do to the events about a run.    *)

LEMMA SendQueued ==
    ASSUME TypeOK, NEW e \in Event, Send(e), NEW r \in Run
    PROVE  /\ Queued(r)' <=> Queued(r) \/ Carries(e, r)
           /\ QueuedPrep(r)' <=> QueuedPrep(r) \/ CarriesPrep(e, r)
           /\ QueuedTerm(r)' <=> QueuedTerm(r) \/ CarriesTerm(e, r)
           /\ QueuedOnce(r) /\ ~(Queued(r) /\ Carries(e, r)) => QueuedOnce(r)'
<1>1. queue \in Seq(Event) /\ queue' = Append(queue, e)
    BY DEF TypeOK, Send
<1>2. /\ Len(queue) \in Nat
      /\ DOMAIN queue = 1 .. Len(queue)
      /\ DOMAIN queue' = 1 .. Len(queue) + 1
      /\ \A j \in 1 .. Len(queue) : queue'[j] = queue[j]
      /\ queue'[Len(queue) + 1] = e
    BY <1>1
<1>3. \A j \in DOMAIN queue' : j \in DOMAIN queue \/ j = Len(queue) + 1
    BY <1>2
<1>4. Len(queue) + 1 \in DOMAIN queue' /\ DOMAIN queue \subseteq DOMAIN queue'
    BY <1>2
<1>5. Queued(r)' <=> Queued(r) \/ Carries(e, r)
    BY <1>2, <1>3, <1>4 DEF Queued, Carries
<1>6. QueuedPrep(r)' <=> QueuedPrep(r) \/ CarriesPrep(e, r)
    BY <1>2, <1>3, <1>4 DEF QueuedPrep, CarriesPrep
<1>7. QueuedTerm(r)' <=> QueuedTerm(r) \/ CarriesTerm(e, r)
    BY <1>2, <1>3, <1>4 DEF QueuedTerm, CarriesTerm
<1>8. ASSUME QueuedOnce(r), ~(Queued(r) /\ Carries(e, r))
      PROVE  QueuedOnce(r)'
    <2> SUFFICES ASSUME NEW j1 \in DOMAIN queue', NEW j2 \in DOMAIN queue',
                        Carries(queue'[j1], r), Carries(queue'[j2], r)
                 PROVE  j1 = j2
        BY DEF QueuedOnce, Carries
    <2>1. CASE j1 \in DOMAIN queue /\ j2 \in DOMAIN queue
        BY <1>2, <1>8, <2>1 DEF QueuedOnce
    <2>2. CASE j1 \in DOMAIN queue /\ j2 = Len(queue) + 1
        BY <1>2, <1>8, <2>2 DEF Queued
    <2>3. CASE j2 \in DOMAIN queue /\ j1 = Len(queue) + 1
        BY <1>2, <1>8, <2>3 DEF Queued
    <2> QED
        BY <1>3, <2>1, <2>2, <2>3
<1> QED
    BY <1>5, <1>6, <1>7, <1>8

LEMMA ReceiveQueued ==
    ASSUME TypeOK, Receive, NEW r \in Run
    PROVE  /\ Queued(r)' => Queued(r)
           /\ Queued(r) /\ ~Carries(Head(queue), r) => Queued(r)'
           /\ QueuedPrep(r)' => QueuedPrep(r)
           /\ QueuedTerm(r)' => QueuedTerm(r)
           /\ QueuedOnce(r) => QueuedOnce(r)'
           /\ QueuedOnce(r) /\ Carries(Head(queue), r) => ~Queued(r)'
           /\ Carries(Head(queue), r) => Queued(r)
           /\ CarriesPrep(Head(queue), r) => QueuedPrep(r)
           /\ CarriesTerm(Head(queue), r) => QueuedTerm(r)
<1>1. queue \in Seq(Event) /\ queue # <<>> /\ queue' = Tail(queue)
    BY DEF TypeOK, Receive
<1>2. /\ Len(queue) \in Nat /\ Len(queue) >= 1
      /\ DOMAIN queue = 1 .. Len(queue)
      /\ DOMAIN queue' = 1 .. Len(queue) - 1
      /\ \A j \in 1 .. Len(queue) - 1 : queue'[j] = queue[j + 1]
      /\ Head(queue) = queue[1]
    BY <1>1
<1>3. \A j \in DOMAIN queue' : j + 1 \in DOMAIN queue /\ queue'[j] = queue[j + 1] /\ j + 1 # 1
    BY <1>2
<1>4. \A j \in DOMAIN queue : j = 1 \/ (j - 1 \in DOMAIN queue' /\ queue'[j - 1] = queue[j])
    BY <1>2
<1>5. 1 \in DOMAIN queue
    BY <1>2
<1>6. Queued(r)' => Queued(r)
    BY <1>3 DEF Queued, Carries
<1>7. Queued(r) /\ ~Carries(Head(queue), r) => Queued(r)'
    BY <1>2, <1>4 DEF Queued, Carries
<1>8. QueuedPrep(r)' => QueuedPrep(r)
    BY <1>3 DEF QueuedPrep, CarriesPrep
<1>9. QueuedTerm(r)' => QueuedTerm(r)
    BY <1>3 DEF QueuedTerm, CarriesTerm
<1>10. ASSUME QueuedOnce(r) PROVE QueuedOnce(r)'
    <2> SUFFICES ASSUME NEW j1 \in DOMAIN queue', NEW j2 \in DOMAIN queue',
                        Carries(queue'[j1], r), Carries(queue'[j2], r)
                 PROVE  j1 = j2
        BY DEF QueuedOnce, Carries
    <2>1. j1 + 1 = j2 + 1
        BY <1>3, <1>10 DEF QueuedOnce
    <2> QED
        BY <1>2, <2>1
<1>11. QueuedOnce(r) /\ Carries(Head(queue), r) => ~Queued(r)'
    <2> SUFFICES ASSUME QueuedOnce(r), Carries(queue[1], r),
                        NEW j \in DOMAIN queue', Carries(queue'[j], r)
                 PROVE  FALSE
        BY <1>2 DEF Queued, Carries
    <2> QED
        BY <1>3, <1>5 DEF QueuedOnce
<1>12. Carries(Head(queue), r) => Queued(r)
    BY <1>2, <1>5 DEF Queued
<1>13. CarriesPrep(Head(queue), r) => QueuedPrep(r)
    BY <1>2, <1>5 DEF QueuedPrep
<1>14. CarriesTerm(Head(queue), r) => QueuedTerm(r)
    BY <1>2, <1>5 DEF QueuedTerm
<1> QED
    BY <1>6, <1>7, <1>8, <1>9, <1>10, <1>11, <1>12, <1>13, <1>14

LEMMA SameQueue ==
    ASSUME UNCHANGED queue, NEW r
    PROVE  /\ Queued(r)' <=> Queued(r)
           /\ QueuedPrep(r)' <=> QueuedPrep(r)
           /\ QueuedTerm(r)' <=> QueuedTerm(r)
           /\ QueuedOnce(r)' <=> QueuedOnce(r)
BY DEF Queued, QueuedPrep, QueuedTerm, QueuedOnce, Carries, CarriesPrep, CarriesTerm

-----------------------------------------------------------------------------
(* Runs and keys.                                                          *)

LEMMA HolderIsRun ==
    ASSUME TypeOK, NEW k \in Key, stages[k] # 0
    PROVE  /\ Holder(k) \in Run
           /\ Holder(k).key = k
           /\ Holder(k).n = stages[k]
BY MaxIssueRunsAssumption DEF Holder, Run, RunNo, TypeOK

LEMMA RunParts ==
    ASSUME NEW r \in Run
    PROVE  /\ r.key \in Key
           /\ r.n \in RunNo
           /\ r.n \in Nat /\ r.n # 0
           /\ r = [key |-> r.key, n |-> r.n]
BY MaxIssueRunsAssumption DEF Run, RunNo

LEMMA SameRun ==
    ASSUME NEW r1 \in Run, NEW r2 \in Run, r1.key = r2.key, r1.n = r2.n
    PROVE  r1 = r2
BY RunParts

\* Two runs that both have a duty for one key are the same run.
LEMMA OneHolder ==
    ASSUME OwnInv, NEW r1 \in Run, NEW r2 \in Run,
           HasDuty(r1), HasDuty(r2), r1.key = r2.key
    PROVE  r1 = r2
BY SameRun DEF OwnInv, DutyHoldsKey

\* Steps that keep every duty, though they may move it from a task to the
\* channel or back: only the places need a look.
LEMMA DutyKept ==
    ASSUME OwnInv, TypeOK,
           UNCHANGED <<sessions, stages, finishing, issueRuns, reserved>>,
           shutdown => shutdown',
           \A n \in RunNo : prepare'[n] = "none" <=> prepare[n] = "none",
           \A r \in Run : /\ HasDuty(r)' <=> HasDuty(r)
                          /\ after[r] # "none" => after'[r] # "none",
           UntouchedBeforeReport', DutyPlaces'
    PROVE  OwnInv'
<1>1. FreshNumbers'
    BY DEF OwnInv, FreshNumbers
<1>2. DutyHoldsKey'
    BY DEF OwnInv, DutyHoldsKey
<1>3. KeyHasDuty'
    <2> SUFFICES ASSUME NEW k \in Key, stages[k] # 0, ~shutdown
                 PROVE  HasDuty(Holder(k))'
        BY DEF KeyHasDuty
    <2> DEFINE r == [key |-> k, n |-> stages[k]]
    <2>1. r \in Run /\ HasDuty(r)
        BY HolderIsRun DEF OwnInv, KeyHasDuty, Holder
    <2>2. HasDuty(r)'
        BY <2>1
    <2> QED
        BY <2>2 DEF Holder, HasDuty, PrepareDuty, LaunchDuty, AfterDuty, Queued, Carries
<1>4. MapsAgree'
    <2>1. \A k \in finishing : Holder(k)' = Holder(k) /\ k \in Key
        BY DEF Holder, TypeOK
    <2>2. \A k \in finishing : Holder(k) \in Run
        BY <2>1, HolderIsRun DEF OwnInv, MapsAgree
    <2> QED
        BY <2>1, <2>2 DEF OwnInv, MapsAgree
<1> QED
    BY <1>1, <1>2, <1>3, <1>4 DEF OwnInv

\* Steps that move no duty: they leave the maps alone, change a pc only
\* within its duty, and send or receive nothing that drains a key.
LEMMA QuietStep ==
    ASSUME OwnInv, TypeOK,
           UNCHANGED <<sessions, stages, finishing, issueRuns, reserved>>,
           shutdown => shutdown',
           \A n \in RunNo : /\ prepare'[n] = "none" <=> prepare[n] = "none"
                            /\ prepare'[n] = "done" <=> prepare[n] = "done",
           \A r \in Run : /\ PrepareDuty(r)' <=> PrepareDuty(r)
                          /\ LaunchDuty(r)' <=> LaunchDuty(r)
                          /\ AfterDuty(r)' <=> AfterDuty(r)
                          /\ task'[r] = "none" <=> task[r] = "none"
                          /\ after'[r] = "none" <=> after[r] = "none"
                          /\ Queued(r)' <=> Queued(r)
                          /\ QueuedPrep(r)' => QueuedPrep(r)
                          /\ QueuedTerm(r)' => QueuedTerm(r)
                          /\ QueuedOnce(r) => QueuedOnce(r)'
    PROVE  OwnInv'
<1>1. \A r \in Run : HasDuty(r)' <=> HasDuty(r)
    BY DEF HasDuty
<1>2. UntouchedBeforeReport'
    BY RunParts DEF OwnInv, UntouchedBeforeReport, Untouched
<1>3. DutyPlaces'
    BY DEF OwnInv, DutyPlaces
<1> QED
    BY <1>1, <1>2, <1>3, DutyKept

\* A launch task passes its duty on as an event and is done with it.
LEMMA LaunchReports ==
    ASSUME OwnInv, TypeOK, NEW r0 \in Run, NEW e \in Event, NEW pc \in {"proxied", "done"},
           LaunchDuty(r0), Send(e), task' = [task EXCEPT ![r0] = pc],
           \A r \in Run : (Carries(e, r) <=> r = r0) /\ ~CarriesPrep(e, r),
           UNCHANGED <<mapVars, shutdown, prepareVars, after>>
    PROVE  OwnInv'
<1> USE DEF mapVars, prepareVars
<1>1. \A r \in Run : Queued(r)' <=> Queued(r) \/ r = r0
    BY SendQueued
<1>2. \A r \in Run : QueuedPrep(r)' <=> QueuedPrep(r)
    BY SendQueued
<1>3. \A r \in Run : r # r0 => QueuedTerm(r)' <=> QueuedTerm(r)
    <2>1. \A r \in Run : CarriesTerm(e, r) => Carries(e, r)
        BY DEF CarriesTerm, Carries
    <2> QED
        BY <2>1, SendQueued
<1>4. after[r0] = "none" /\ ~Queued(r0) /\ task[r0] # "none"
    BY DEF OwnInv, DutyPlaces, LaunchDuty
<1>5. \A r \in Run : QueuedOnce(r)'
    BY <1>4, SendQueued DEF OwnInv, DutyPlaces
<1>6. /\ ~LaunchDuty(r0)'
      /\ \A r \in Run : r # r0 => task'[r] = task[r] /\ (LaunchDuty(r)' <=> LaunchDuty(r))
    BY DEF LaunchDuty, TypeOK
<1>7. \A r \in Run : (PrepareDuty(r)' <=> PrepareDuty(r)) /\ (AfterDuty(r)' <=> AfterDuty(r))
    BY DEF PrepareDuty, AfterDuty
<1>8. ~AfterDuty(r0)
    BY <1>4 DEF AfterDuty
<1>9. \A r \in Run : HasDuty(r)' <=> HasDuty(r)
    BY <1>1, <1>6, <1>7 DEF HasDuty
<1>10. UntouchedBeforeReport'
    <2>1. r0.key \in reserved[r0.n] /\ prepare[r0.n] = "done"
        BY <1>4 DEF OwnInv, UntouchedBeforeReport, Untouched
    <2> QED
        BY <1>1, <1>6, <2>1 DEF OwnInv, UntouchedBeforeReport, Untouched
<1>11. DutyPlaces'
    <2> SUFFICES ASSUME NEW r \in Run
                 PROVE  /\ QueuedPrep(r)' => task'[r] = "none" /\ after'[r] = "none"
                        /\ QueuedTerm(r)' => after'[r] = "none"
                        /\ LaunchDuty(r)' => after'[r] = "none" /\ ~Queued(r)'
                        /\ AfterDuty(r)' => ~Queued(r)' /\ ~LaunchDuty(r)'
                        /\ QueuedOnce(r)'
        BY DEF DutyPlaces
    <2>1. CASE r = r0
        BY <1>2, <1>4, <1>5, <1>6, <1>7, <1>8, <2>1 DEF OwnInv, DutyPlaces
    <2>2. CASE r # r0
        BY <1>1, <1>2, <1>3, <1>5, <1>6, <1>7, <2>2 DEF OwnInv, DutyPlaces
    <2> QED
        BY <2>1, <2>2
<1> QED
    BY <1>9, <1>10, <1>11, DutyKept

\* The after_run task reports Finished and is done.
LEMMA AfterReports ==
    ASSUME OwnInv, TypeOK, NEW r0 \in Run, after[r0] = "finishing", ReportFinished(r0)
    PROVE  OwnInv'
<1> USE DEF mapVars, prepareVars
<1> DEFINE e == [type |-> "Finished", run |-> r0]
<1>0. e \in Event /\ Send(e)
    BY DEF Event, ReportFinished
<1>c. \A r \in Run : (Carries(e, r) <=> r = r0) /\ ~CarriesPrep(e, r) /\ ~CarriesTerm(e, r)
    BY DEF Carries, CarriesPrep, CarriesTerm
<1> HIDE DEF e
<1>u. /\ after' = [after EXCEPT ![r0] = "done"]
      /\ UNCHANGED <<mapVars, shutdown, prepareVars, task>>
    BY DEF ReportFinished
<1>1. \A r \in Run : /\ Queued(r)' <=> Queued(r) \/ r = r0
                     /\ QueuedPrep(r)' <=> QueuedPrep(r)
                     /\ QueuedTerm(r)' <=> QueuedTerm(r)
    BY <1>0, <1>c, SendQueued
<1>2. AfterDuty(r0) /\ ~Queued(r0) /\ ~LaunchDuty(r0)
    BY DEF OwnInv, DutyPlaces, AfterDuty
<1>3. \A r \in Run : QueuedOnce(r)'
    BY <1>0, <1>c, <1>2, SendQueued DEF OwnInv, DutyPlaces
<1>4. /\ after'[r0] = "done" /\ ~AfterDuty(r0)'
      /\ \A r \in Run : r # r0 => after'[r] = after[r] /\ (AfterDuty(r)' <=> AfterDuty(r))
    BY <1>u DEF AfterDuty, TypeOK
<1>5. \A r \in Run : /\ PrepareDuty(r)' <=> PrepareDuty(r)
                     /\ LaunchDuty(r)' <=> LaunchDuty(r)
                     /\ task'[r] = task[r]
    BY <1>u DEF PrepareDuty, LaunchDuty
<1>6. \A r \in Run : HasDuty(r)' <=> HasDuty(r)
    BY <1>1, <1>2, <1>4, <1>5 DEF HasDuty
<1>7. UntouchedBeforeReport'
    <2>1. r0.key \in reserved[r0.n] /\ prepare[r0.n] = "done"
        BY DEF OwnInv, UntouchedBeforeReport, Untouched
    <2> QED
        BY <1>1, <1>4, <1>5, <1>u, <2>1 DEF OwnInv, UntouchedBeforeReport, Untouched
<1>8. ~QueuedPrep(r0) /\ ~QueuedTerm(r0)
    BY DEF OwnInv, DutyPlaces
<1>9. DutyPlaces'
    <2> SUFFICES ASSUME NEW r \in Run
                 PROVE  /\ QueuedPrep(r)' => task'[r] = "none" /\ after'[r] = "none"
                        /\ QueuedTerm(r)' => after'[r] = "none"
                        /\ LaunchDuty(r)' => after'[r] = "none" /\ ~Queued(r)'
                        /\ AfterDuty(r)' => ~Queued(r)' /\ ~LaunchDuty(r)'
                        /\ QueuedOnce(r)'
        BY DEF DutyPlaces
    <2>1. CASE r = r0
        BY <1>1, <1>2, <1>3, <1>4, <1>5, <1>8, <2>1
    <2>2. CASE r # r0
        BY <1>1, <1>3, <1>4, <1>5, <2>2 DEF OwnInv, DutyPlaces
    <2> QED
        BY <2>1, <2>2
<1>10. \A r \in Run : after[r] # "none" => after'[r] # "none"
    BY <1>4
<1> QED
    BY <1>6, <1>7, <1>9, <1>10, <1>u, DutyKept

\* A preparation task reports for all its runs at once.
LEMMA PrepareReportsDuty ==
    ASSUME OwnInv, TypeOK, NEW n \in RunNo, PrepareReports(n)
    PROVE  OwnInv'
<1> USE DEF mapVars, prepareVars
<1> DEFINE e == [type |-> IF prepare[n] = "ready" THEN "Prepared" ELSE "PreparationFailed",
                 runs |-> RunsOf(n)]
<1>0. /\ prepare[n] \in {"ready", "failed"} /\ Send(e)
      /\ prepare' = [prepare EXCEPT ![n] = "done"]
      /\ UNCHANGED <<mapVars, shutdown, issueRuns, reserved, task, after>>
    BY DEF PrepareReports
<1>r. \A r \in Run : r \in RunsOf(n) <=> r.n = n /\ r.key \in reserved[n]
    BY RunParts DEF RunsOf
<1>c. /\ e \in Event
      /\ \A r \in Run : /\ Carries(e, r) <=> r.n = n /\ r.key \in reserved[n]
                        /\ CarriesPrep(e, r) <=> r.n = n /\ r.key \in reserved[n]
                        /\ ~CarriesTerm(e, r)
    <2>1. RunsOf(n) \subseteq Run
        BY RunOf DEF RunsOf, TypeOK
    <2>2. e \in Event
        BY <2>1 DEF Event
    <2> QED
        BY <1>r, <2>2 DEF Carries, CarriesPrep, CarriesTerm
<1> HIDE DEF e
<1> DEFINE Mine(r) == r.n = n /\ r.key \in reserved[n]
<1>1. \A r \in Run : /\ Queued(r)' <=> Queued(r) \/ Mine(r)
                     /\ QueuedPrep(r)' <=> QueuedPrep(r) \/ Mine(r)
                     /\ QueuedTerm(r)' <=> QueuedTerm(r)
    BY <1>0, <1>c, SendQueued
<1>2. \A r \in Run : Mine(r) => PrepareDuty(r) /\ Untouched(r)
    BY <1>0 DEF PrepareDuty, OwnInv, UntouchedBeforeReport
<1>3. \A r \in Run : QueuedOnce(r)'
    BY <1>0, <1>c, <1>2, SendQueued DEF OwnInv, DutyPlaces, Untouched
<1>4. \A r \in Run : PrepareDuty(r)' <=> PrepareDuty(r) /\ ~Mine(r)
    BY <1>0, RunParts DEF PrepareDuty, TypeOK
<1>5. \A r \in Run : /\ LaunchDuty(r)' <=> LaunchDuty(r)
                     /\ AfterDuty(r)' <=> AfterDuty(r)
    BY <1>0 DEF LaunchDuty, AfterDuty
<1>6. \A r \in Run : HasDuty(r)' <=> HasDuty(r)
    BY <1>1, <1>2, <1>4, <1>5 DEF HasDuty
<1>7. UntouchedBeforeReport'
    <2> SUFFICES ASSUME NEW r \in Run, r.key \notin reserved[r.n] \/ prepare'[r.n] # "done"
                 PROVE  task[r] = "none" /\ after[r] = "none" /\ ~Queued(r)'
        BY <1>0 DEF UntouchedBeforeReport, Untouched
    <2>1. ~Mine(r) /\ (r.key \notin reserved[r.n] \/ prepare[r.n] # "done")
        BY <1>0, RunParts DEF TypeOK
    <2> QED
        BY <1>1, <2>1 DEF OwnInv, UntouchedBeforeReport, Untouched
<1>8. DutyPlaces'
    <2> SUFFICES ASSUME NEW r \in Run
                 PROVE  /\ QueuedPrep(r)' => task[r] = "none" /\ after[r] = "none"
                        /\ QueuedTerm(r)' => after[r] = "none"
                        /\ LaunchDuty(r) => after[r] = "none" /\ ~Queued(r)'
                        /\ AfterDuty(r) => ~Queued(r)' /\ ~LaunchDuty(r)
                        /\ QueuedOnce(r)'
        BY <1>0, <1>5 DEF DutyPlaces
    <2>1. CASE Mine(r)
        BY <1>1, <1>2, <1>3, <2>1 DEF Untouched, LaunchDuty, AfterDuty
    <2>2. CASE ~Mine(r)
        BY <1>1, <1>3, <2>2 DEF OwnInv, DutyPlaces
    <2> QED
        BY <2>1, <2>2
<1>9. \A m \in RunNo : prepare'[m] = "none" <=> prepare[m] = "none"
    BY <1>0 DEF TypeOK
<1> QED
    BY <1>0, <1>6, <1>7, <1>8, <1>9, DutyKept

\* The manager starts the launch tasks of a prepared issue run.
LEMMA HandlePreparedDuty ==
    ASSUME OwnInv, TypeOK, HandlePrepared
    PROVE  OwnInv'
<1> USE DEF mapVars, prepareVars
<1> DEFINE R == Head(queue).runs
<1>0. /\ Receive /\ Head(queue).type = "Prepared"
      /\ task' = [r \in Run |-> IF r \in R THEN "before_run" ELSE task[r]]
      /\ UNCHANGED <<mapVars, shutdown, prepareVars, after>>
    BY DEF HandlePrepared
<1>c. \A r \in Run : /\ Carries(Head(queue), r) <=> r \in R
                     /\ CarriesPrep(Head(queue), r) <=> r \in R
    BY <1>0 DEF Carries, CarriesPrep
<1> HIDE DEF R
<1>o. \A r \in Run : QueuedOnce(r)
    BY DEF OwnInv, DutyPlaces
<1>1. \A r \in Run : Queued(r)' <=> Queued(r) /\ r \notin R
    BY <1>0, <1>c, <1>o, ReceiveQueued
<1>2. \A r \in Run : r \in R => Queued(r) /\ QueuedPrep(r)
    BY <1>0, <1>c, ReceiveQueued
<1>3. \A r \in Run : /\ QueuedPrep(r)' => QueuedPrep(r)
                     /\ QueuedTerm(r)' => QueuedTerm(r)
                     /\ QueuedOnce(r)'
    BY <1>0, <1>o, ReceiveQueued
<1>p. \A r \in Run : QueuedPrep(r)' => Queued(r)'
    BY DEF QueuedPrep, Queued, CarriesPrep, Carries
<1>4. \A r \in Run : LaunchDuty(r)' <=> LaunchDuty(r) \/ r \in R
    BY <1>0 DEF LaunchDuty
<1>5. \A r \in Run : /\ PrepareDuty(r)' <=> PrepareDuty(r)
                     /\ AfterDuty(r)' <=> AfterDuty(r)
    BY <1>0 DEF PrepareDuty, AfterDuty
<1>6. \A r \in Run : HasDuty(r)' <=> HasDuty(r)
    BY <1>1, <1>2, <1>4, <1>5 DEF HasDuty
<1>7. UntouchedBeforeReport'
    BY <1>0, <1>1, <1>2 DEF OwnInv, UntouchedBeforeReport, Untouched
<1>8. DutyPlaces'
    <2> SUFFICES ASSUME NEW r \in Run
                 PROVE  /\ QueuedPrep(r)' => task'[r] = "none" /\ after[r] = "none"
                        /\ QueuedTerm(r)' => after[r] = "none"
                        /\ LaunchDuty(r)' => after[r] = "none" /\ ~Queued(r)'
                        /\ AfterDuty(r) => ~Queued(r)' /\ ~LaunchDuty(r)'
                        /\ QueuedOnce(r)'
        BY <1>0, <1>5 DEF DutyPlaces
    <2>1. CASE r \in R
        BY <1>1, <1>2, <1>3, <1>p, <2>1 DEF OwnInv, DutyPlaces, AfterDuty
    <2>2. CASE r \notin R
        BY <1>0, <1>1, <1>3, <1>4, <2>2 DEF OwnInv, DutyPlaces
    <2> QED
        BY <2>1, <2>2
<1> QED
    BY <1>0, <1>6, <1>7, <1>8, DutyKept

\* finish_stage: the event's run is the one stored under its key, and the
\* key is not finishing yet, so the duty passes to its after_run task.
LEMMA FinishStageDuty ==
    ASSUME OwnInv, TypeOK, HandleStateUpdated, Head(queue).state \in Terminal
    PROVE  OwnInv'
<1> USE DEF mapVars, prepareVars
<1>e. Head(queue) \in Event /\ Head(queue).run \in Run
    <2>1. Head(queue) \in Event
        BY ReceiveType DEF TypeOK, HandleStateUpdated
    <2> QED
        BY <2>1 DEF Event, HandleStateUpdated
<1>r. PICK r0 \in Run : r0 = Head(queue).run
    BY <1>e
<1>k. PICK k \in Key : k = r0.key
    BY RunParts
<1>0. /\ Receive /\ Head(queue).type = "StateUpdated"
      /\ FinishStage(k, Head(queue).state)
      /\ UNCHANGED <<sessions, senders, stages, shutdown, prepareVars, task>>
    BY <1>r, <1>k DEF HandleStateUpdated
<1>c. \A r \in Run : /\ Carries(Head(queue), r) <=> r = r0
                     /\ CarriesTerm(Head(queue), r) <=> r = r0
    BY <1>0, <1>r DEF Carries, CarriesTerm
<1>1. Queued(r0) /\ QueuedTerm(r0) /\ after[r0] = "none" /\ ~LaunchDuty(r0) /\ ~AfterDuty(r0)
    <2>1. Queued(r0) /\ QueuedTerm(r0)
        BY <1>0, <1>c, ReceiveQueued
    <2> QED
        BY <2>1 DEF OwnInv, DutyPlaces, AfterDuty
<1>2. stages[k] = r0.n /\ stages[k] # 0 /\ Holder(k) = r0
    <2>1. HasDuty(r0)
        BY <1>1 DEF HasDuty
    <2>2. stages[k] = r0.n
        BY <1>k, <2>1 DEF OwnInv, DutyHoldsKey
    <2> QED
        BY <1>k, <2>2, RunParts DEF Holder
<1>3. k \notin finishing
    BY <1>1, <1>2 DEF OwnInv, MapsAgree
<1>4. /\ finishing' = finishing \cup {k}
      /\ after' = [after EXCEPT ![r0] = IF Head(queue).state = "Cancelled" THEN "finishing" ELSE "hook"]
    BY <1>0, <1>2, <1>3 DEF FinishStage, Holder
<1>5. /\ AfterDuty(r0)' /\ after'[r0] # "none"
      /\ \A r \in Run : r # r0 => after'[r] = after[r] /\ (AfterDuty(r)' <=> AfterDuty(r))
    BY <1>4 DEF AfterDuty, TypeOK
<1>o. \A r \in Run : QueuedOnce(r)
    BY DEF OwnInv, DutyPlaces
<1>6. \A r \in Run : /\ Queued(r)' <=> Queued(r) /\ r # r0
                     /\ QueuedPrep(r)' => QueuedPrep(r)
                     /\ QueuedTerm(r)' => QueuedTerm(r)
                     /\ QueuedOnce(r)'
    BY <1>0, <1>c, <1>o, ReceiveQueued
<1>p. \A r \in Run : /\ QueuedPrep(r)' => Queued(r)'
                     /\ QueuedTerm(r)' => Queued(r)'
    BY DEF QueuedPrep, QueuedTerm, Queued, CarriesPrep, CarriesTerm, Carries
<1>7. \A r \in Run : /\ PrepareDuty(r)' <=> PrepareDuty(r)
                     /\ LaunchDuty(r)' <=> LaunchDuty(r)
    BY <1>0 DEF PrepareDuty, LaunchDuty
<1>8. \A r \in Run : HasDuty(r)' <=> HasDuty(r)
    BY <1>1, <1>5, <1>6, <1>7 DEF HasDuty
<1>9. FreshNumbers'
    BY <1>0 DEF OwnInv, FreshNumbers
<1>10. UntouchedBeforeReport'
    BY <1>0, <1>1, <1>5, <1>6 DEF OwnInv, UntouchedBeforeReport, Untouched
<1>11. DutyPlaces'
    <2> SUFFICES ASSUME NEW r \in Run
                 PROVE  /\ QueuedPrep(r)' => task[r] = "none" /\ after'[r] = "none"
                        /\ QueuedTerm(r)' => after'[r] = "none"
                        /\ LaunchDuty(r) => after'[r] = "none" /\ ~Queued(r)'
                        /\ AfterDuty(r)' => ~Queued(r)' /\ ~LaunchDuty(r)
                        /\ QueuedOnce(r)'
        BY <1>0, <1>7 DEF DutyPlaces
    <2>1. CASE r = r0
        BY <1>1, <1>6, <1>p, <2>1
    <2>2. CASE r # r0
        BY <1>5, <1>6, <2>2 DEF OwnInv, DutyPlaces
    <2> QED
        BY <2>1, <2>2
<1>12. DutyHoldsKey'
    BY <1>0, <1>8 DEF OwnInv, DutyHoldsKey
<1>13. KeyHasDuty'
    <2> SUFFICES ASSUME NEW kk \in Key, stages[kk] # 0, ~shutdown
                 PROVE  HasDuty(Holder(kk))'
        BY <1>0 DEF KeyHasDuty
    <2> DEFINE r == [key |-> kk, n |-> stages[kk]]
    <2>1. r \in Run /\ HasDuty(r)
        BY HolderIsRun DEF OwnInv, KeyHasDuty, Holder
    <2>2. HasDuty(r)'
        BY <1>0, <1>8, <2>1
    <2> QED
        BY <1>0, <2>2 DEF Holder, HasDuty, PrepareDuty, LaunchDuty, AfterDuty, Queued, Carries
<1>14. MapsAgree'
    <2>1. \A kk \in finishing : Holder(kk) \in Run /\ kk \in Key
        BY HolderIsRun DEF OwnInv, MapsAgree, TypeOK
    <2>2. \A kk \in finishing \cup {k} : Holder(kk)' = Holder(kk)
        BY <1>0 DEF Holder
    <2> QED
        BY <1>0, <1>2, <1>4, <1>5, <2>1, <2>2 DEF OwnInv, MapsAgree
<1> QED
    BY <1>9, <1>10, <1>11, <1>12, <1>13, <1>14 DEF OwnInv

\* Draining the keys an event carries ends the duties for them, and only
\* those.
LEMMA DrainDuty ==
    ASSUME OwnInv, TypeOK, Receive, NEW K,
           DrainKeyState(K),
           \A r \in Run : Carries(Head(queue), r) => r.key \in K,
           \A k \in K : \E r \in Run : r.key = k /\ Carries(Head(queue), r),
           UNCHANGED <<shutdown, prepareVars, task, after>>
    PROVE  OwnInv'
<1> USE DEF prepareVars
<1>o. \A r \in Run : QueuedOnce(r)
    BY DEF OwnInv, DutyPlaces
<1>1. \A r \in Run : /\ Queued(r)' <=> Queued(r) /\ ~Carries(Head(queue), r)
                     /\ QueuedPrep(r)' => QueuedPrep(r)
                     /\ QueuedTerm(r)' => QueuedTerm(r)
                     /\ QueuedOnce(r)'
                     /\ Carries(Head(queue), r) => Queued(r)
    BY <1>o, ReceiveQueued
<1>2. \A r \in Run : /\ PrepareDuty(r)' <=> PrepareDuty(r)
                     /\ LaunchDuty(r)' <=> LaunchDuty(r)
                     /\ AfterDuty(r)' <=> AfterDuty(r)
    BY DEF PrepareDuty, LaunchDuty, AfterDuty
<1>3. \A r \in Run : HasDuty(r) /\ r.key \in K => Carries(Head(queue), r)
    <2> SUFFICES ASSUME NEW r \in Run, HasDuty(r), r.key \in K
                 PROVE  Carries(Head(queue), r)
        OBVIOUS
    <2>1. PICK r1 \in Run : r1.key = r.key /\ Carries(Head(queue), r1)
        OBVIOUS
    <2>2. HasDuty(r1)
        BY <1>1, <2>1 DEF HasDuty
    <2> QED
        BY <2>1, <2>2, OneHolder
<1>4. \A r \in Run : Carries(Head(queue), r) =>
          ~PrepareDuty(r) /\ ~LaunchDuty(r) /\ ~AfterDuty(r)
    BY <1>1 DEF OwnInv, DutyPlaces, UntouchedBeforeReport, Untouched, PrepareDuty
<1>5. \A r \in Run : HasDuty(r)' <=> HasDuty(r) /\ r.key \notin K
    BY <1>1, <1>2, <1>3, <1>4 DEF HasDuty
<1>m. /\ sessions' = sessions \ K
      /\ stages' = [k \in Key |-> IF k \in K THEN 0 ELSE stages[k]]
      /\ finishing' = finishing \ K
    BY DEF DrainKeyState
<1>6. FreshNumbers'
    BY DEF OwnInv, FreshNumbers
<1>7. UntouchedBeforeReport'
    BY <1>1 DEF OwnInv, UntouchedBeforeReport, Untouched
<1>8. DutyPlaces'
    BY <1>1, <1>2 DEF OwnInv, DutyPlaces
<1>9. DutyHoldsKey'
    BY <1>5, <1>m, RunParts DEF OwnInv, DutyHoldsKey
<1>10. KeyHasDuty'
    <2> SUFFICES ASSUME NEW k \in Key, stages'[k] # 0, ~shutdown
                 PROVE  HasDuty(Holder(k))'
        BY DEF KeyHasDuty
    <2> DEFINE r == [key |-> k, n |-> stages[k]]
    <2>1. k \notin K /\ stages'[k] = stages[k]
        BY <1>m
    <2>2. r \in Run /\ HasDuty(r) /\ r.key = k
        BY <2>1, HolderIsRun DEF OwnInv, KeyHasDuty, Holder
    <2>3. HasDuty(r)'
        BY <1>5, <2>1, <2>2
    <2> QED
        BY <2>1, <2>3 DEF Holder, HasDuty, PrepareDuty, LaunchDuty, AfterDuty, Queued, Carries
<1>11. MapsAgree'
    <2>1. \A k \in finishing \ K : stages'[k] = stages[k] /\ Holder(k)' = Holder(k)
        BY <1>m DEF Holder, TypeOK
    <2> QED
        BY <1>m, <2>1 DEF OwnInv, MapsAgree
<1> QED
    BY <1>6, <1>7, <1>8, <1>9, <1>10, <1>11 DEF OwnInv

LEMMA HandlePreparationFailedDuty ==
    ASSUME OwnInv, TypeOK, HandlePreparationFailed
    PROVE  OwnInv'
<1> DEFINE K == {r.key : r \in Head(queue).runs}
<1>1. Receive /\ Head(queue).type = "PreparationFailed" /\ DrainKeyState(K)
    BY DEF HandlePreparationFailed
<1>2. Head(queue) \in Event
    BY <1>1, ReceiveType DEF TypeOK
<1>3. Head(queue).runs \subseteq Run
    BY <1>1, <1>2 DEF Event
<1>4. \A r \in Run : Carries(Head(queue), r) <=> r \in Head(queue).runs
    BY <1>1 DEF Carries
<1>5. \A k \in K : \E r \in Run : r.key = k /\ Carries(Head(queue), r)
    BY <1>3, <1>4
<1>6. \A r \in Run : Carries(Head(queue), r) => r.key \in K
    BY <1>4
<1> HIDE DEF K
<1> QED
    BY <1>1, <1>5, <1>6, DrainDuty DEF HandlePreparationFailed

LEMMA HandleFinishedDuty ==
    ASSUME OwnInv, TypeOK, HandleFinished
    PROVE  OwnInv'
<1>1. Receive /\ Head(queue).type = "Finished" /\ DrainKeyState({Head(queue).run.key})
    BY DEF HandleFinished
<1>2. Head(queue) \in Event
    BY <1>1, ReceiveType DEF TypeOK
<1>3. Head(queue).run \in Run
    BY <1>1, <1>2 DEF Event
<1>4. \A r \in Run : Carries(Head(queue), r) <=> r = Head(queue).run
    BY <1>1 DEF Carries
<1> QED
    BY <1>1, <1>3, <1>4, DrainDuty DEF HandleFinished


\* A dispatch takes a fresh run number and free keys, and gives the keys to
\* the preparation task.
LEMMA TryRunIssueDuty ==
    ASSUME OwnInv, TypeOK, NEW i \in Issues, NEW s \in IssueStates, TryRunIssue(i, s)
    PROVE  OwnInv'
<1> USE DEF sessionVars
<1>n. PICK n \in RunNo : n = issueRuns + 1
    BY MaxIssueRunsAssumption DEF TypeOK, TryRunIssue, RunNo
<1>k. PICK K \in SUBSET Key : K = ShouldDispatch(i, s)
    BY DispatchedKeys
<1>0. /\ sessions' = sessions \cup K
      /\ stages' = [k \in Key |-> IF k \in K THEN n ELSE stages[k]]
      /\ issueRuns' = n
      /\ prepare' = [prepare EXCEPT ![n] = "preparing"]
      /\ reserved' = [reserved EXCEPT ![n] = K]
      /\ UNCHANGED <<finishing, shutdown, task, after, queue>>
    BY <1>n, <1>k DEF TryRunIssue, ReserveIssueStages
<1>1. /\ n \in Nat /\ n # 0 /\ n > issueRuns
      /\ reserved[n] = {} /\ prepare[n] = "none"
    BY <1>n, MaxIssueRunsAssumption DEF OwnInv, FreshNumbers, RunNo, TypeOK
<1>2. \A k \in K : k \notin sessions /\ stages[k] = 0
    BY <1>k DEF ShouldDispatch, OwnInv, MapsAgree
<1>3. /\ prepare'[n] = "preparing" /\ reserved'[n] = K
      /\ \A m \in RunNo : m # n => prepare'[m] = prepare[m] /\ reserved'[m] = reserved[m]
    BY <1>0 DEF TypeOK
<1>4. \A r \in Run : /\ Queued(r)' <=> Queued(r)
                     /\ QueuedPrep(r)' <=> QueuedPrep(r)
                     /\ QueuedTerm(r)' <=> QueuedTerm(r)
                     /\ QueuedOnce(r)' <=> QueuedOnce(r)
    BY <1>0, SameQueue
<1>5. \A r \in Run : /\ LaunchDuty(r)' <=> LaunchDuty(r)
                     /\ AfterDuty(r)' <=> AfterDuty(r)
    BY <1>0 DEF LaunchDuty, AfterDuty
<1>6. \A r \in Run : PrepareDuty(r)' <=> PrepareDuty(r) \/ (r.n = n /\ r.key \in K)
    BY <1>1, <1>3, RunParts DEF PrepareDuty
<1>7. \A r \in Run : HasDuty(r)' <=> HasDuty(r) \/ (r.n = n /\ r.key \in K)
    BY <1>4, <1>5, <1>6 DEF HasDuty
<1>8. FreshNumbers'
    BY <1>0, <1>1, <1>3, MaxIssueRunsAssumption DEF OwnInv, FreshNumbers, RunNo, TypeOK
<1>9. UntouchedBeforeReport'
    <2> SUFFICES ASSUME NEW r \in Run, r.key \notin reserved'[r.n] \/ prepare'[r.n] # "done"
                 PROVE  Untouched(r)
        BY <1>0, <1>4 DEF UntouchedBeforeReport, Untouched
    <2>1. r.key \notin reserved[r.n] \/ prepare[r.n] # "done"
        BY <1>1, <1>3, RunParts
    <2> QED
        BY <2>1 DEF OwnInv, UntouchedBeforeReport
<1>10. DutyPlaces'
    BY <1>0, <1>4, <1>5 DEF OwnInv, DutyPlaces
<1>11. DutyHoldsKey'
    <2> SUFFICES ASSUME NEW r \in Run, HasDuty(r)'
                 PROVE  stages'[r.key] = r.n
        BY DEF DutyHoldsKey
    <2>1. CASE HasDuty(r)
        <3>1. stages[r.key] = r.n /\ r.key \notin K
            BY <1>2, <2>1, RunParts DEF OwnInv, DutyHoldsKey
        <3> QED
            BY <1>0, <3>1, RunParts
    <2>2. CASE r.n = n /\ r.key \in K
        BY <1>0, <2>2
    <2> QED
        BY <1>7, <2>1, <2>2
<1>12. KeyHasDuty'
    <2> SUFFICES ASSUME NEW k \in Key, stages'[k] # 0, ~shutdown
                 PROVE  HasDuty(Holder(k))'
        BY <1>0 DEF KeyHasDuty
    <2>1. PICK r \in Run : r = [key |-> k, n |-> stages'[k]] /\ HasDuty(r)'
        <3>1. CASE k \in K
            <4>1. [key |-> k, n |-> n] \in Run /\ stages'[k] = n
                BY <1>0, <3>1, RunOf
            <4> QED
                BY <1>7, <3>1, <4>1
        <3>2. CASE k \notin K
            <4>1. stages'[k] = stages[k]
                BY <1>0, <3>2
            <4>2. Holder(k) \in Run /\ HasDuty(Holder(k))
                BY <4>1, HolderIsRun DEF OwnInv, KeyHasDuty
            <4> QED
                BY <1>7, <4>1, <4>2 DEF Holder
        <3> QED
            BY <3>1, <3>2
    <2>2. Holder(k)' = r
        BY <2>1 DEF Holder
    <2> QED
        BY <2>1, <2>2 DEF HasDuty, PrepareDuty, LaunchDuty, AfterDuty, Queued, Carries
<1>13. MapsAgree'
    <2>1. sessions' = {k \in Key : stages'[k] # 0}
        BY <1>0, <1>1 DEF OwnInv, MapsAgree
    <2>2. \A k \in finishing : stages'[k] = stages[k] /\ Holder(k)' = Holder(k)
        BY <1>0, <1>2 DEF OwnInv, MapsAgree, Holder, TypeOK
    <2> QED
        BY <1>0, <2>1, <2>2 DEF OwnInv, MapsAgree
<1> QED
    BY <1>8, <1>9, <1>10, <1>11, <1>12, <1>13 DEF OwnInv

\* Only after cancel_all may a preparation task forget its keys.
LEMMA PrepareDroppedDuty ==
    ASSUME OwnInv, TypeOK, NEW n \in RunNo, PrepareDropped(n)
    PROVE  OwnInv'
<1> USE DEF mapVars, sessionVars
<1>1. /\ prepare[n] = "preparing" /\ shutdown
      /\ prepare' = [prepare EXCEPT ![n] = "done"]
      /\ UNCHANGED <<mapVars, shutdown, issueRuns, reserved, task, after, queue>>
    BY DEF PrepareDropped
<1>2. \A m \in RunNo : m # n => prepare'[m] = prepare[m]
    BY <1>1 DEF TypeOK
<1>3. prepare'[n] = "done"
    BY <1>1 DEF TypeOK
<1>4. \A r \in Run : /\ Queued(r)' <=> Queued(r)
                     /\ QueuedPrep(r)' <=> QueuedPrep(r)
                     /\ QueuedTerm(r)' <=> QueuedTerm(r)
                     /\ QueuedOnce(r)' <=> QueuedOnce(r)
    BY <1>1, SameQueue
<1>5. \A r \in Run : /\ LaunchDuty(r)' <=> LaunchDuty(r)
                     /\ AfterDuty(r)' <=> AfterDuty(r)
                     /\ PrepareDuty(r)' => PrepareDuty(r)
    BY <1>1, <1>2, <1>3, RunParts DEF LaunchDuty, AfterDuty, PrepareDuty
<1>6. \A r \in Run : HasDuty(r)' => HasDuty(r)
    BY <1>4, <1>5 DEF HasDuty
<1>7. FreshNumbers'
    BY <1>1, <1>2 DEF OwnInv, FreshNumbers
<1>8. UntouchedBeforeReport'
    BY <1>1, <1>2, <1>3, <1>4, RunParts DEF OwnInv, UntouchedBeforeReport, Untouched
<1>9. DutyPlaces'
    BY <1>1, <1>4, <1>5 DEF OwnInv, DutyPlaces
<1>10. DutyHoldsKey'
    BY <1>1, <1>6 DEF OwnInv, DutyHoldsKey
<1>11. KeyHasDuty'
    BY <1>1 DEF KeyHasDuty
<1>12. MapsAgree'
    BY <1>1 DEF OwnInv, MapsAgree, Holder
<1> QED
    BY <1>7, <1>8, <1>9, <1>10, <1>11, <1>12 DEF OwnInv


LEMMA PrepareDutyKept ==
    ASSUME OwnInv, TypeOK, NEW n \in RunNo, PrepareTask(n)
    PROVE  OwnInv'
<1> USE DEF mapVars, sessionVars
<1>1. CASE PrepareEnds(n)
    <2>0. PICK result \in {"ready", "failed"} : prepare' = [prepare EXCEPT ![n] = result]
        BY <1>1 DEF PrepareEnds
    <2>1. \A m \in RunNo : /\ prepare'[m] = "none" <=> prepare[m] = "none"
                           /\ prepare'[m] = "done" <=> prepare[m] = "done"
        BY <1>1, <2>0 DEF PrepareEnds, TypeOK
    <2>2. \A r \in Run : PrepareDuty(r)' <=> PrepareDuty(r)
        BY <1>1, <2>0, RunParts DEF PrepareEnds, PrepareDuty, TypeOK
    <2>3. \A r \in Run : /\ LaunchDuty(r)' <=> LaunchDuty(r)
                         /\ AfterDuty(r)' <=> AfterDuty(r)
        BY <1>1 DEF PrepareEnds, LaunchDuty, AfterDuty
    <2>4. UNCHANGED <<sessions, stages, finishing, shutdown, issueRuns, reserved, task, after, queue>>
        BY <1>1 DEF PrepareEnds
    <2> QED
        BY <2>1, <2>2, <2>3, <2>4, SameQueue, QuietStep
<1>2. CASE PrepareDropped(n)
    BY <1>2, PrepareDroppedDuty
<1>3. CASE PrepareReports(n)
    BY <1>3, PrepareReportsDuty
<1> QED
    BY <1>1, <1>2, <1>3 DEF PrepareTask

\* A launch task moves on within its duty, sending nothing that drains a key.
LEMMA LaunchMovesOn ==
    ASSUME OwnInv, TypeOK, NEW r0 \in Run, NEW pc \in TaskPC,
           task[r0] # "none", pc # "none",
           task' = [task EXCEPT ![r0] = pc], LaunchDuty(r0)' <=> LaunchDuty(r0),
           \/ UNCHANGED queue
           \/ \E e \in Event : Send(e) /\ \A r \in Run : ~Carries(e, r),
           UNCHANGED <<sessions, stages, finishing, shutdown, prepareVars, after>>
    PROVE  OwnInv'
<1> USE DEF prepareVars
<1>1. \A r \in Run : /\ Queued(r)' <=> Queued(r)
                     /\ QueuedPrep(r)' => QueuedPrep(r)
                     /\ QueuedTerm(r)' => QueuedTerm(r)
                     /\ QueuedOnce(r) => QueuedOnce(r)'
    <2>1. CASE UNCHANGED queue
        BY <2>1, SameQueue
    <2>2. CASE \E e \in Event : Send(e) /\ \A r \in Run : ~Carries(e, r)
        <3>1. PICK e \in Event : Send(e) /\ \A r \in Run : ~Carries(e, r)
            BY <2>2
        <3>2. \A r \in Run : ~CarriesPrep(e, r) /\ ~CarriesTerm(e, r)
            BY <3>1 DEF Carries, CarriesPrep, CarriesTerm
        <3> QED
            BY <3>1, <3>2, SendQueued
    <2> QED
        BY <2>1, <2>2
<1>2. \A r \in Run : /\ LaunchDuty(r)' <=> LaunchDuty(r)
                     /\ task'[r] = "none" <=> task[r] = "none"
    BY DEF LaunchDuty, TypeOK
<1>3. \A r \in Run : /\ PrepareDuty(r)' <=> PrepareDuty(r)
                     /\ AfterDuty(r)' <=> AfterDuty(r)
    BY DEF PrepareDuty, AfterDuty
<1> QED
    BY <1>1, <1>2, <1>3, QuietStep

LEMMA LaunchDutyKept ==
    ASSUME OwnInv, TerminalIsLast, TypeOK, NEW r0 \in Run, LaunchTask(r0)
    PROVE  OwnInv'
<1> USE DEF mapVars, sessionVars
<1>t. task \in [Run -> TaskPC]
    BY DEF TypeOK
<1>1. CASE SpawnStage(r0)
    <2>1. LaunchDuty(r0)' <=> LaunchDuty(r0)
        BY <1>1, <1>t DEF SpawnStage, LaunchDuty
    <2> QED
        BY <1>1, <2>1, LaunchMovesOn DEF SpawnStage, TaskPC
<1>2. CASE LaunchFails(r0)
    <2>1. LaunchDuty(r0)' <=> LaunchDuty(r0)
        BY <1>2, <1>t DEF LaunchFails, LaunchDuty
    <2> QED
        BY <1>2, <2>1, LaunchMovesOn DEF LaunchFails, TaskPC
<1>3. CASE ReportAborted(r0)
    <2> DEFINE e == [type |-> "Finished", run |-> r0]
    <2>1. e \in Event /\ \A r \in Run : (Carries(e, r) <=> r = r0) /\ ~CarriesPrep(e, r)
        BY DEF Event, Carries, CarriesPrep
    <2>2. Send(e) /\ LaunchDuty(r0) /\ task' = [task EXCEPT ![r0] = "done"]
        BY <1>3 DEF ReportAborted, LaunchDuty
    <2>3. UNCHANGED <<mapVars, shutdown, prepareVars, after>>
        BY <1>3 DEF ReportAborted
    <2> HIDE DEF e
    <2> QED
        BY <2>1, <2>2, <2>3, LaunchReports
<1>4. CASE ReportStarted(r0)
    <2> DEFINE e == [type |-> "Started", run |-> r0]
    <2>1. e \in Event /\ \A r \in Run : ~Carries(e, r)
        BY DEF Event, Carries
    <2>2. Send(e) /\ task[r0] # "none" /\ task' = [task EXCEPT ![r0] = "proxy"]
        BY <1>4 DEF ReportStarted
    <2>3. LaunchDuty(r0)' <=> LaunchDuty(r0)
        BY <1>4, <1>t DEF ReportStarted, LaunchDuty
    <2>4. UNCHANGED <<mapVars, shutdown, prepareVars, after>>
        BY <1>4 DEF ReportStarted
    <2> HIDE DEF e
    <2> QED
        BY <2>1, <2>2, <2>3, <2>4, LaunchMovesOn DEF TaskPC
<1>5. CASE ProxyState(r0)
    <2>s. PICK s \in SessionState : s = Head(unread[r0])
        BY <1>5 DEF ProxyState, TypeOK
    <2> DEFINE e == [type |-> "StateUpdated", run |-> r0, state |-> s]
    <2>1. /\ Send(e)
          /\ task[r0] \in {"proxy", "proxied"}
          /\ task' = [task EXCEPT ![r0] = IF s \in Terminal THEN "proxied" ELSE @]
          /\ unread[r0] # <<>>
          /\ UNCHANGED <<mapVars, shutdown, prepareVars, after>>
        BY <1>5, <2>s DEF ProxyState
    <2>2. /\ e \in Event
          /\ \A r \in Run : (Carries(e, r) <=> r = r0 /\ s \in Terminal) /\ ~CarriesPrep(e, r)
        BY DEF Event, Carries, CarriesPrep
    <2>3. task[r0] = "proxy" /\ LaunchDuty(r0)
        BY <2>1 DEF TerminalIsLast, LaunchDuty
    <2> HIDE DEF e
    <2>4. CASE s \in Terminal
        BY <2>1, <2>2, <2>3, <2>4, LaunchReports
    <2>5. CASE s \notin Terminal
        <3>1. task' = [task EXCEPT ![r0] = "proxy"] /\ (LaunchDuty(r0)' <=> LaunchDuty(r0))
            BY <1>t, <2>1, <2>3, <2>5 DEF LaunchDuty
        <3> QED
            BY <2>1, <2>2, <2>3, <2>5, <3>1, LaunchMovesOn DEF TaskPC
    <2> QED
        BY <2>4, <2>5
<1>6. CASE ProxyEnds(r0)
    <2>1. LaunchDuty(r0)' <=> LaunchDuty(r0)
        BY <1>6, <1>t DEF ProxyEnds, LaunchDuty
    <2> QED
        BY <1>6, <2>1, LaunchMovesOn DEF ProxyEnds, TaskPC
<1>7. CASE ProxyReportsLost(r0)
    <2> DEFINE e == [type |-> "StateUpdated", run |-> r0, state |-> "Failed"]
    <2>1. e \in Event /\ \A r \in Run : (Carries(e, r) <=> r = r0) /\ ~CarriesPrep(e, r)
        BY DEF Event, Carries, CarriesPrep, SessionState, Terminal
    <2>2. Send(e) /\ LaunchDuty(r0) /\ task' = [task EXCEPT ![r0] = "done"]
        BY <1>7 DEF ProxyReportsLost, LaunchDuty
    <2>3. UNCHANGED <<mapVars, shutdown, prepareVars, after>>
        BY <1>7 DEF ProxyReportsLost
    <2> HIDE DEF e
    <2> QED
        BY <2>1, <2>2, <2>3, LaunchReports
<1> QED
    BY <1>1, <1>2, <1>3, <1>4, <1>5, <1>6, <1>7 DEF LaunchTask

\* Steps that touch only the session, its agent, the senders or the token.
LEMMA NoDutyStep ==
    ASSUME OwnInv, TypeOK, shutdown => shutdown',
           UNCHANGED <<sessions, stages, finishing, prepareVars, task, after, queue>>
    PROVE  OwnInv'
<1> USE DEF prepareVars
<1>1. \A r \in Run : /\ PrepareDuty(r)' <=> PrepareDuty(r)
                     /\ LaunchDuty(r)' <=> LaunchDuty(r)
                     /\ AfterDuty(r)' <=> AfterDuty(r)
    BY DEF PrepareDuty, LaunchDuty, AfterDuty
<1> QED
    BY <1>1, SameQueue, QuietStep

LEMMA SessionDutyKept ==
    ASSUME OwnInv, TypeOK, NEW r \in Run, SessionTask(r) \/ AgentExits(r) \/ SessionPanics(r)
    PROVE  OwnInv'
<1>1. UNCHANGED <<sessions, stages, finishing, shutdown, prepareVars, task, after, queue>>
    BY DEF mapVars, SessionTask, SessionPrepares, SessionSpawnsAgent, SessionStopsEarly,
           SessionRuns, SessionTerminates, SessionEnds, AgentExits, SessionPanics
<1> QED
    BY <1>1, NoDutyStep

LEMMA AfterDutyKept ==
    ASSUME OwnInv, TypeOK, NEW r0 \in Run, AfterTask(r0)
    PROVE  OwnInv'
<1> USE DEF mapVars, prepareVars
<1>1. CASE AfterRunEnds(r0)
    <2>1. \A r \in Run : /\ AfterDuty(r)' <=> AfterDuty(r)
                         /\ after'[r] = "none" <=> after[r] = "none"
        BY <1>1 DEF AfterRunEnds, AfterDuty, TypeOK
    <2>2. \A r \in Run : /\ PrepareDuty(r)' <=> PrepareDuty(r)
                         /\ LaunchDuty(r)' <=> LaunchDuty(r)
        BY <1>1 DEF AfterRunEnds, PrepareDuty, LaunchDuty
    <2>3. UNCHANGED <<sessions, stages, finishing, shutdown, prepareVars, task, queue>>
        BY <1>1 DEF AfterRunEnds
    <2> QED
        BY <2>1, <2>2, <2>3, SameQueue, QuietStep
<1>2. CASE ReportFinished(r0)
    <2>1. after[r0] = "finishing"
        BY <1>2 DEF ReportFinished
    <2> QED
        BY <1>2, <2>1, AfterReports
<1> QED
    BY <1>1, <1>2 DEF AfterTask

\* Started and non-terminal states are received without a change of duty.
LEMMA ReceiveQuietly ==
    ASSUME OwnInv, TypeOK, Receive, \A r \in Run : ~Carries(Head(queue), r),
           UNCHANGED <<sessions, stages, finishing, shutdown, prepareVars, task, after>>
    PROVE  OwnInv'
<1> USE DEF prepareVars
<1>1. \A r \in Run : /\ Queued(r)' <=> Queued(r)
                     /\ QueuedPrep(r)' => QueuedPrep(r)
                     /\ QueuedTerm(r)' => QueuedTerm(r)
                     /\ QueuedOnce(r) => QueuedOnce(r)'
    BY ReceiveQueued
<1>2. \A r \in Run : /\ PrepareDuty(r)' <=> PrepareDuty(r)
                     /\ LaunchDuty(r)' <=> LaunchDuty(r)
                     /\ AfterDuty(r)' <=> AfterDuty(r)
    BY DEF PrepareDuty, LaunchDuty, AfterDuty
<1> QED
    BY <1>1, <1>2, QuietStep

LEMMA HandleDutyKept ==
    ASSUME OwnInv, TypeOK, HandleEvent
    PROVE  OwnInv'
<1> USE DEF mapVars
<1>1. CASE HandlePrepared
    BY <1>1, HandlePreparedDuty
<1>2. CASE HandlePreparationFailed
    BY <1>2, HandlePreparationFailedDuty
<1>3. CASE HandleStarted
    <2>1. \A r \in Run : ~Carries(Head(queue), r)
        BY <1>3 DEF HandleStarted, Carries
    <2> QED
        BY <1>3, <2>1, ReceiveQuietly DEF HandleStarted
<1>4. CASE HandleStateUpdated
    <2>1. CASE Head(queue).state \in Terminal
        BY <1>4, <2>1, FinishStageDuty
    <2>2. CASE Head(queue).state \notin Terminal
        <3>1. \A r \in Run : ~Carries(Head(queue), r)
            BY <1>4, <2>2 DEF HandleStateUpdated, Carries
        <3> QED
            BY <1>4, <2>2, <3>1, ReceiveQuietly DEF HandleStateUpdated
    <2> QED
        BY <2>1, <2>2
<1>5. CASE HandleFinished
    BY <1>5, HandleFinishedDuty
<1> QED
    BY <1>1, <1>2, <1>3, <1>4, <1>5 DEF HandleEvent

LEMMA OwnInvNext ==
    ASSUME OwnInv, TerminalIsLast, TypeOK, [Next]_vars
    PROVE  OwnInv'
<1> USE DEF mapVars, sessionVars
<1>1. CASE \E i \in Issues, s \in IssueStates : TryRunIssue(i, s)
    BY <1>1, TryRunIssueDuty
<1>2. CASE \E n \in RunNo : PrepareTask(n)
    BY <1>2, PrepareDutyKept
<1>3. CASE \E r \in Run : LaunchTask(r)
    BY <1>3, LaunchDutyKept
<1>4. CASE \E r \in Run : SessionTask(r) \/ AgentExits(r) \/ SessionPanics(r)
    BY <1>4, SessionDutyKept
<1>5. CASE \E r \in Run : AfterTask(r)
    BY <1>5, AfterDutyKept
<1>6. CASE HandleEvent
    BY <1>6, HandleDutyKept
<1>7. CASE CancelAll
    BY <1>7, NoDutyStep DEF CancelAll
<1>8. CASE UNCHANGED vars
    BY <1>8, NoDutyStep DEF vars
<1> QED
    BY <1>1, <1>2, <1>3, <1>4, <1>5, <1>6, <1>7, <1>8 DEF Next, Stopped


-----------------------------------------------------------------------------
(* A session's terminal state is its last.                                 *)

LEMMA StateIsSent ==
    ASSUME TypeOK, TerminalIsLast, NEW r0 \in Run, NEW s \in SessionState,
           state[r0] \notin Terminal, SetState(r0, s), UNCHANGED task
    PROVE  TerminalIsLast'
<1>1. /\ unread[r0] \in Seq(SessionState)
      /\ unread' = [unread EXCEPT ![r0] = Append(unread[r0], s)]
      /\ state' = [state EXCEPT ![r0] = s]
    BY DEF TypeOK, SetState
<1>2. \A r \in Run : r # r0 => unread'[r] = unread[r] /\ state'[r] = state[r]
    BY <1>1 DEF TypeOK
<1>3. /\ unread'[r0] = Append(unread[r0], s)
      /\ state'[r0] = s
    BY <1>1 DEF TypeOK
<1>4. \A j \in DOMAIN unread[r0] : unread[r0][j] \notin Terminal
    BY DEF TerminalIsLast
<1>5. \A j \in DOMAIN unread'[r0] :
          unread'[r0][j] \in Terminal => j = Len(unread'[r0]) /\ s \in Terminal
    BY <1>1, <1>3, <1>4
<1>6. task[r0] # "proxied"
    BY DEF TerminalIsLast
<1> QED
    BY <1>2, <1>3, <1>5, <1>6 DEF TerminalIsLast

LEMMA TailOfStates ==
    ASSUME NEW u \in Seq(SessionState), u # <<>>
    PROVE  /\ Len(u) \in Nat /\ 1 \in DOMAIN u /\ Head(u) = u[1]
           /\ Len(Tail(u)) = Len(u) - 1
           /\ \A j \in DOMAIN Tail(u) : j \in Int /\ j + 1 \in DOMAIN u /\ Tail(u)[j] = u[j + 1]
           /\ Len(u) = 1 => Tail(u) = <<>>
OBVIOUS

LEMMA TerminalForwarded ==
    ASSUME TypeOK, TerminalIsLast, NEW r0 \in Run, ProxyState(r0)
    PROVE  TerminalIsLast'
<1> USE DEF mapVars, prepareVars
<1>1. /\ unread[r0] \in Seq(SessionState) /\ unread[r0] # <<>>
      /\ unread' = [unread EXCEPT ![r0] = Tail(unread[r0])]
      /\ task' = [task EXCEPT ![r0] = IF Head(unread[r0]) \in Terminal THEN "proxied" ELSE @]
      /\ UNCHANGED state
    BY DEF TypeOK, ProxyState
<1>2. \A r \in Run : r # r0 => unread'[r] = unread[r] /\ task'[r] = task[r]
    BY <1>1 DEF TypeOK
<1>3. /\ unread'[r0] = Tail(unread[r0])
      /\ task'[r0] = IF Head(unread[r0]) \in Terminal THEN "proxied" ELSE task[r0]
    BY <1>1 DEF TypeOK
<1>4. task[r0] # "proxied"
    BY <1>1 DEF TerminalIsLast
<1>5. /\ Len(unread[r0]) \in Nat /\ 1 \in DOMAIN unread[r0]
      /\ Head(unread[r0]) = unread[r0][1]
      /\ Len(unread'[r0]) = Len(unread[r0]) - 1
      /\ \A j \in DOMAIN unread'[r0] : /\ j \in Int /\ j + 1 \in DOMAIN unread[r0]
                                       /\ unread'[r0][j] = unread[r0][j + 1]
      /\ Len(unread[r0]) = 1 => unread'[r0] = <<>>
    BY <1>1, <1>3, TailOfStates
<1>6. \A j \in DOMAIN unread'[r0] :
          unread'[r0][j] \in Terminal => j = Len(unread'[r0]) /\ state[r0] \in Terminal
    <2> SUFFICES ASSUME NEW j \in DOMAIN unread'[r0], unread'[r0][j] \in Terminal
                 PROVE  j = Len(unread'[r0]) /\ state[r0] \in Terminal
        OBVIOUS
    <2>1. j + 1 = Len(unread[r0]) /\ state[r0] \in Terminal
        BY <1>5 DEF TerminalIsLast
    <2> QED
        BY <1>5, <2>1
<1>7. ASSUME Head(unread[r0]) \in Terminal
      PROVE  unread'[r0] = <<>> /\ state[r0] \in Terminal
    <2>1. 1 \in DOMAIN unread[r0] /\ unread[r0][1] \in Terminal
        BY <1>5, <1>7
    <2>2. Len(unread[r0]) = 1 /\ state[r0] \in Terminal
        BY <2>1 DEF TerminalIsLast
    <2> QED
        BY <1>5, <2>2
<1> QED
    BY <1>1, <1>2, <1>3, <1>4, <1>6, <1>7 DEF TerminalIsLast

\* Steps that neither send nor forward a state, and end no proxy's reading.
LEMMA TerminalUntouched ==
    ASSUME TerminalIsLast, UNCHANGED <<state, unread>>,
           \A r \in Run : task'[r] = "proxied" => task[r] = "proxied"
    PROVE  TerminalIsLast'
BY DEF TerminalIsLast

LEMMA TerminalIsLastNext ==
    ASSUME TypeOK, TerminalIsLast, [Next]_vars
    PROVE  TerminalIsLast'
<1> USE DEF sessionVars
<1>1. CASE \E r \in Run : LaunchTask(r)
    <2>1. PICK r0 \in Run : LaunchTask(r0)
        BY <1>1
    <2>2. CASE ProxyState(r0)
        BY <2>2, TerminalForwarded
    <2>3. CASE ~ProxyState(r0)
        <3>1. /\ UNCHANGED <<state, unread>>
              /\ \E pc \in {"aborting", "spawned", "proxy", "done"} :
                    task' = [task EXCEPT ![r0] = pc]
            BY <2>1, <2>3 DEF LaunchTask, SpawnStage, LaunchFails, ReportAborted, ReportStarted,
                              ProxyEnds, ProxyReportsLost
        <3> QED
            BY <3>1, TerminalUntouched DEF TypeOK
    <2> QED
        BY <2>2, <2>3
<1>2. CASE \E r \in Run : SessionTask(r) \/ AgentExits(r) \/ SessionPanics(r)
    <2>1. PICK r0 \in Run : SessionTask(r0) \/ AgentExits(r0) \/ SessionPanics(r0)
        BY <1>2
    <2>2. \/ UNCHANGED <<state, unread, task>>
          \/ /\ state[r0] \in {"UnStarted", "Preparing", "Running"}
             /\ UNCHANGED task
             /\ \E s \in {"Preparing", "Running", "Completed", "Failed", "Cancelled"} :
                    SetState(r0, s)
        BY <2>1 DEF SessionTask, SessionPrepares, SessionSpawnsAgent, SessionStopsEarly,
                    SessionRuns, SessionTerminates, SessionEnds, AgentExits, SessionPanics
    <2>3. CASE UNCHANGED <<state, unread, task>>
        BY <2>3, TerminalUntouched
    <2>4. ASSUME state[r0] \in {"UnStarted", "Preparing", "Running"}, UNCHANGED task,
                 NEW s \in {"Preparing", "Running", "Completed", "Failed", "Cancelled"},
                 SetState(r0, s)
          PROVE  TerminalIsLast'
        <3>1. state[r0] \notin Terminal /\ s \in SessionState
            BY <2>4 DEF Terminal, SessionState
        <3> QED
            BY <2>4, <3>1, StateIsSent
    <2> QED
        BY <2>2, <2>3, <2>4
<1>3. CASE HandleEvent
    <2>1. UNCHANGED <<state, unread>>
        BY <1>3 DEF HandleEvent, HandlePrepared, HandlePreparationFailed, HandleStarted,
                    HandleStateUpdated, HandleFinished
    <2>2. \A r \in Run : task'[r] = task[r] \/ task'[r] = "before_run"
        BY <1>3 DEF HandleEvent, HandlePrepared, HandlePreparationFailed, HandleStarted,
                    HandleStateUpdated, HandleFinished
    <2> QED
        BY <2>1, <2>2, TerminalUntouched
<1>4. CASE \/ \E i \in Issues, s \in IssueStates : TryRunIssue(i, s)
           \/ \E n \in RunNo : PrepareTask(n)
           \/ \E r \in Run : AfterTask(r)
           \/ CancelAll
           \/ UNCHANGED vars
    <2>1. UNCHANGED <<state, unread, task>>
        BY <1>4 DEF TryRunIssue, PrepareTask, PrepareEnds, PrepareDropped, PrepareReports,
                    AfterTask, AfterRunEnds, ReportFinished, CancelAll, vars
    <2> QED
        BY <2>1, TerminalUntouched
<1> QED
    BY <1>1, <1>2, <1>3, <1>4 DEF Next, Stopped

-----------------------------------------------------------------------------
(* The theorems.                                                           *)

LEMMA DutyInvInit == Init => DutyInv
<1> SUFFICES ASSUME Init PROVE DutyInv
    OBVIOUS
<1>1. FreshNumbers
    BY DEF Init, FreshNumbers
<1>2. \A r \in Run : ~Queued(r) /\ ~QueuedPrep(r) /\ ~QueuedTerm(r) /\ QueuedOnce(r)
    BY DEF Init, Queued, QueuedPrep, QueuedTerm, QueuedOnce
<1>3. \A r \in Run : /\ task[r] = "none" /\ after[r] = "none"
                     /\ ~PrepareDuty(r) /\ ~LaunchDuty(r) /\ ~AfterDuty(r)
    BY RunParts DEF Init, PrepareDuty, LaunchDuty, AfterDuty
<1>4. UntouchedBeforeReport /\ DutyPlaces /\ DutyHoldsKey
    BY <1>2, <1>3 DEF UntouchedBeforeReport, Untouched, DutyPlaces, DutyHoldsKey, HasDuty
<1>5. KeyHasDuty /\ MapsAgree
    BY DEF Init, KeyHasDuty, MapsAgree
<1>6. TerminalIsLast
    BY DEF Init, TerminalIsLast
<1> QED
    BY <1>1, <1>4, <1>5, <1>6 DEF DutyInv

\* The duty invariant: every reserved key has work that will drain it, in one
\* place only, and no other run of the key has any.
THEOREM DutyInvariant == Spec => []DutyInv
<1>1. DutyInv <=> OwnInv /\ TerminalIsLast
    BY DEF DutyInv, OwnInv
<1>2. DutyInv /\ TypeOK /\ [Next]_vars => DutyInv'
    <2> SUFFICES ASSUME DutyInv, TypeOK, [Next]_vars PROVE DutyInv'
        OBVIOUS
    <2>1. OwnInv' /\ TerminalIsLast'
        BY <1>1, OwnInvNext, TerminalIsLastNext
    <2> QED
        BY <2>1 DEF DutyInv, OwnInv
<1> QED
    BY DutyInvInit, <1>2, TypeCorrect, PTL DEF Spec

\* Events carry only the key; nothing that will still drain a key is left
\* over from an earlier IssueStage than the one stored under it.
THEOREM NoStale == Spec => []NoStaleDuty
<1>1. DutyInv => NoStaleDuty
    <2> SUFFICES ASSUME DutyInv, NEW r \in Run, Duties(r) # {}
                 PROVE  stages[r.key] = r.n
        BY DEF NoStaleDuty
    <2>1. HasDuty(r)
        BY DEF Duties, HasDuty, PrepareDuty, LaunchDuty, AfterDuty, Queued
    <2> QED
        BY <2>1 DEF DutyInv, DutyHoldsKey
<1> QED
    BY <1>1, DutyInvariant, PTL

LEMMA DutyIsOne ==
    ASSUME DutyInv, NEW r \in Run, HasDuty(r)
    PROVE  \E d : Duties(r) = {d}
<1>1. CASE PrepareDuty(r)
    <2>1. task[r] = "none" /\ after[r] = "none" /\ ~Queued(r)
        BY <1>1 DEF DutyInv, UntouchedBeforeReport, Untouched, PrepareDuty
    <2>2. Duties(r) = {<<"prepare", 0>>}
        BY <1>1, <2>1 DEF Duties, PrepareDuty, Queued
    <2> QED
        BY <2>2
<1>2. CASE ~PrepareDuty(r) /\ LaunchDuty(r)
    <2>1. after[r] = "none" /\ ~Queued(r)
        BY <1>2 DEF DutyInv, DutyPlaces
    <2>2. Duties(r) = {<<"launch", 0>>}
        BY <1>2, <2>1 DEF Duties, PrepareDuty, LaunchDuty, Queued
    <2> QED
        BY <2>2
<1>3. CASE ~PrepareDuty(r) /\ AfterDuty(r)
    <2>1. ~LaunchDuty(r) /\ ~Queued(r)
        BY <1>3 DEF DutyInv, DutyPlaces
    <2>2. Duties(r) = {<<"after", 0>>}
        BY <1>3, <2>1 DEF Duties, PrepareDuty, LaunchDuty, AfterDuty, Queued
    <2> QED
        BY <2>2
<1>4. CASE ~PrepareDuty(r) /\ ~LaunchDuty(r) /\ ~AfterDuty(r)
    <2>1. PICK j \in DOMAIN queue : Carries(queue[j], r)
        BY <1>4 DEF HasDuty, Queued
    <2>2. \A j2 \in DOMAIN queue : Carries(queue[j2], r) => j2 = j
        BY <2>1 DEF DutyInv, DutyPlaces, QueuedOnce
    <2>3. Duties(r) = {<<"event", j>>}
        BY <1>4, <2>1, <2>2 DEF Duties, PrepareDuty, LaunchDuty, AfterDuty
    <2> QED
        BY <2>3
<1> QED
    BY <1>1, <1>2, <1>3, <1>4

\* Until shutdown every reserved key is driven by exactly one task or event:
\* no path forgets it, none drains it twice.
THEOREM OneDuty == Spec => []ExactlyOneDuty
<1>1. DutyInv /\ TypeOK => ExactlyOneDuty
    <2> SUFFICES ASSUME DutyInv, TypeOK, NEW k \in sessions, ~shutdown
                 PROVE  Cardinality(Duties(Holder(k))) = 1
        BY DEF ExactlyOneDuty, Holder
    <2>1. k \in Key /\ stages[k] # 0
        BY DEF DutyInv, MapsAgree
    <2>2. Holder(k) \in Run /\ HasDuty(Holder(k))
        BY <2>1, HolderIsRun DEF DutyInv, KeyHasDuty
    <2>3. PICK d : Duties(Holder(k)) = {d}
        BY <2>2, DutyIsOne
    <2> QED
        BY <2>3, FS_Singleton
<1> QED
    BY <1>1, DutyInvariant, TypeCorrect, PTL

=============================================================================
