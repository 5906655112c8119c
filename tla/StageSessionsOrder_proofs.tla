---------------------- MODULE StageSessionsOrder_proofs ----------------------
(***************************************************************************)
(* The order in which the reports of a run reach the manager: the          *)
(* inductive invariant OrderInv and what follows from it.  The proofs lean *)
(* on DutyInv, before and after a step: what has no duty left sends        *)
(* nothing more, and a duty belongs to the run that holds the key.         *)
(***************************************************************************)
EXTENDS StageSessions_proofs

-----------------------------------------------------------------------------
(* The channel, position by position.                                      *)

LEMMA SendShape ==
    ASSUME TypeOK, NEW e, Send(e)
    PROVE  /\ Len(queue) + 1 \in DOMAIN queue'
           /\ queue'[Len(queue) + 1] = e
           /\ \A j \in DOMAIN queue : /\ j \in DOMAIN queue' /\ queue'[j] = queue[j]
                                      /\ j \in Int /\ j < Len(queue) + 1
           /\ \A j \in DOMAIN queue' : j \in DOMAIN queue \/ j = Len(queue) + 1
<1>1. queue \in Seq(Event) /\ queue' = Append(queue, e)
    BY DEF TypeOK, Send
<1>2. /\ Len(queue) \in Nat
      /\ DOMAIN queue = 1 .. Len(queue)
      /\ DOMAIN queue' = 1 .. Len(queue) + 1
      /\ \A j \in 1 .. Len(queue) : queue'[j] = queue[j]
      /\ queue'[Len(queue) + 1] = e
    BY <1>1
<1> QED
    BY <1>2

LEMMA ReceiveShape ==
    ASSUME TypeOK, Receive
    PROVE  /\ 1 \in DOMAIN queue /\ Head(queue) = queue[1] /\ Head(queue) \in Event
           /\ \A j \in DOMAIN queue' : /\ j \in Int /\ j + 1 \in DOMAIN queue
                                       /\ queue'[j] = queue[j + 1]
           /\ \A j \in DOMAIN queue : /\ j \in Int /\ j >= 1
                                      /\ j # 1 => j - 1 \in DOMAIN queue'
<1>1. queue \in Seq(Event) /\ queue # <<>> /\ queue' = Tail(queue)
    BY DEF TypeOK, Receive
<1>2. /\ Len(queue) \in Nat /\ Len(queue) >= 1
      /\ DOMAIN queue = 1 .. Len(queue)
      /\ DOMAIN queue' = 1 .. Len(queue) - 1
      /\ \A j \in 1 .. Len(queue) - 1 : queue'[j] = queue[j + 1]
      /\ Head(queue) = queue[1] /\ Head(queue) \in Event
    BY <1>1
<1> QED
    BY <1>2

\* What a send adds to the announcements and the ends in the channel.
LEMMA SendOrdered ==
    ASSUME TypeOK, NEW e, Send(e), NEW r
    PROVE  /\ StartQueued(r)' <=> StartQueued(r) \/ Started(e, r)
           /\ EndQueued(r)' <=> EndQueued(r) \/ Finished(e, r)
BY SendShape DEF StartQueued, EndQueued, Started, Finished

LEMMA ReceiveOrdered ==
    ASSUME TypeOK, Receive, NEW r
    PROVE  /\ StartQueued(r)' => StartQueued(r)
           /\ StartQueued(r) => StartQueued(r)' \/ Started(Head(queue), r)
           /\ EndQueued(r)' => EndQueued(r)
           /\ Started(Head(queue), r) => StartQueued(r)
           /\ Finished(Head(queue), r) => EndQueued(r)
<1>1. StartQueued(r)' => StartQueued(r)
    BY ReceiveShape DEF StartQueued, Started
<1>2. EndQueued(r)' => EndQueued(r)
    BY ReceiveShape DEF EndQueued, Finished
<1>3. /\ Started(Head(queue), r) => StartQueued(r)
      /\ Finished(Head(queue), r) => EndQueued(r)
    BY ReceiveShape DEF StartQueued, EndQueued
<1>4. ASSUME StartQueued(r), ~Started(Head(queue), r)
      PROVE  StartQueued(r)'
    <2>1. PICK j \in DOMAIN queue : Started(queue[j], r)
        BY <1>4 DEF StartQueued
    <2>2. j # 1
        BY <1>4, <2>1, ReceiveShape
    <2>3. j - 1 \in DOMAIN queue' /\ queue'[j - 1] = queue[j]
        <3>1. j \in Int /\ j - 1 \in DOMAIN queue'
            BY <2>2, ReceiveShape
        <3>2. queue'[j - 1] = queue[(j - 1) + 1]
            BY <3>1, ReceiveShape
        <3> QED
            BY <3>1, <3>2
    <2> QED
        BY <2>1, <2>3 DEF StartQueued, Started
<1> QED
    BY <1>1, <1>2, <1>3, <1>4

LEMMA SameOrdered ==
    ASSUME UNCHANGED queue, NEW r
    PROVE  /\ StartQueued(r)' <=> StartQueued(r)
           /\ EndQueued(r)' <=> EndQueued(r)
BY DEF StartQueued, EndQueued, Started, Finished

-----------------------------------------------------------------------------
(* The steps, by what they do to the channel.                              *)

\* A task or session moves on by itself.
Quiet ==
    /\ UNCHANGED <<sessions, senders, stages, finishing, reserved, queue>>
    /\ \A n \in RunNo : prepare'[n] \in {"preparing", "ready", "failed"} => prepare[n] = "preparing"
                                                                            \/ prepare'[n] = prepare[n]
    /\ \A r \in Run :
          /\ \/ task'[r] = task[r]
             \/ task[r] = "before_run" /\ task'[r] \in {"aborting", "spawned"}
             \/ task[r] = "proxied" /\ task'[r] = "done"
          /\ AfterDuty(r)' <=> AfterDuty(r)

\* A launch, proxy or after_run task reports on r.
Reports(r) ==
    \/ ReportAborted(r) \/ ReportStarted(r) \/ ProxyState(r) \/ ProxyReportsLost(r)
    \/ ReportFinished(r)

LEMMA StepKinds ==
    ASSUME TypeOK, [Next]_vars
    PROVE  \/ \E i \in Issues, s \in IssueStates : TryRunIssue(i, s)
           \/ \E n \in RunNo : PrepareReports(n)
           \/ \E r \in Run : Reports(r)
           \/ HandleEvent
           \/ Quiet
<1> USE DEF mapVars, prepareVars, sessionVars
<1>1. ASSUME NEW n \in RunNo, PrepareTask(n) PROVE PrepareReports(n) \/ Quiet
    <2>1. CASE PrepareEnds(n)
        BY <2>1 DEF PrepareEnds, Quiet, AfterDuty, TypeOK
    <2>2. CASE PrepareDropped(n)
        BY <2>2 DEF PrepareDropped, Quiet, AfterDuty, TypeOK
    <2> QED
        BY <1>1, <2>1, <2>2 DEF PrepareTask
<1>2. ASSUME NEW r \in Run, LaunchTask(r) PROVE Reports(r) \/ Quiet
    <2>1. CASE SpawnStage(r)
        BY <2>1 DEF SpawnStage, Quiet, AfterDuty, TypeOK
    <2>2. CASE LaunchFails(r)
        BY <2>2 DEF LaunchFails, Quiet, AfterDuty, TypeOK
    <2>3. CASE ProxyEnds(r)
        BY <2>3 DEF ProxyEnds, Quiet, AfterDuty, TypeOK
    <2> QED
        BY <1>2, <2>1, <2>2, <2>3 DEF LaunchTask, Reports
<1>3. ASSUME NEW r \in Run, SessionTask(r) \/ AgentExits(r) \/ SessionPanics(r) PROVE Quiet
    <2>1. UNCHANGED <<mapVars, shutdown, prepareVars, task, after, queue>>
        BY <1>3 DEF SessionTask, SessionPrepares, SessionSpawnsAgent, SessionStopsEarly,
               SessionRuns, SessionTerminates, SessionEnds, AgentExits, SessionPanics
    <2> QED
        BY <2>1 DEF Quiet, AfterDuty
<1>4. ASSUME NEW r \in Run, AfterTask(r) PROVE Reports(r) \/ Quiet
    <2>1. CASE AfterRunEnds(r)
        BY <2>1 DEF AfterRunEnds, Quiet, AfterDuty, TypeOK
    <2> QED
        BY <1>4, <2>1 DEF AfterTask, Reports
<1>5. CASE CancelAll
    BY <1>5 DEF CancelAll, Quiet, AfterDuty
<1>6. CASE UNCHANGED vars
    BY <1>6 DEF vars, Quiet, AfterDuty
<1> QED
    BY <1>1, <1>2, <1>3, <1>4, <1>5, <1>6 DEF Next, Stopped

\* What the report of r0 is, by the pc it is sent from.
ReportOf(e, r0) ==
    /\ e \in Event /\ Send(e) /\ e.run = r0
    /\ UNCHANGED <<sessions, senders, stages, finishing, prepare, reserved, state, ended>>
    /\ \A r \in Run : r # r0 => task'[r] = task[r]
    /\ \A r \in Run : AfterDuty(r)' => AfterDuty(r)
    /\ \/ /\ e.type = "Finished"
          /\ \/ task[r0] = "aborting" /\ task'[r0] = "done"
             \/ AfterDuty(r0) /\ task'[r0] = task[r0]
       \/ e.type = "Started" /\ task[r0] = "spawned" /\ task'[r0] = "proxy"
       \/ /\ e.type = "StateUpdated" /\ e.state \notin Terminal
          /\ task[r0] = "proxy" /\ task'[r0] = "proxy"
       \/ /\ e.type = "StateUpdated" /\ e.state \in Terminal
          /\ task[r0] = "proxy" /\ task'[r0] \in {"proxied", "done"}
          /\ \/ ended[r0]
             \/ \E j \in DOMAIN unread[r0] : unread[r0][j] = e.state

LEMMA ReportHasForm ==
    ASSUME TypeOK, TerminalIsLast, NEW r0 \in Run, Reports(r0)
    PROVE  \E e \in Event : ReportOf(e, r0)
<1> USE DEF mapVars, prepareVars, sessionVars
<1>1. CASE ReportAborted(r0)
    <2> DEFINE e == [type |-> "Finished", run |-> r0]
    <2>1. e \in Event /\ e.type = "Finished" /\ e.run = r0
        BY DEF Event
    <2>2. Send(e)
        BY <1>1 DEF ReportAborted
    <2> HIDE DEF e
    <2>3. ReportOf(e, r0)
        BY <1>1, <2>1, <2>2 DEF ReportAborted, ReportOf, AfterDuty, TypeOK
    <2> QED
        BY <2>1, <2>3
<1>2. CASE ReportStarted(r0)
    <2> DEFINE e == [type |-> "Started", run |-> r0]
    <2>1. e \in Event /\ e.type = "Started" /\ e.run = r0
        BY DEF Event
    <2>2. Send(e)
        BY <1>2 DEF ReportStarted
    <2> HIDE DEF e
    <2>3. ReportOf(e, r0)
        BY <1>2, <2>1, <2>2 DEF ReportStarted, ReportOf, AfterDuty, TypeOK
    <2> QED
        BY <2>1, <2>3
<1>3. CASE ProxyState(r0)
    <2> DEFINE s == Head(unread[r0])
    <2> DEFINE e == [type |-> "StateUpdated", run |-> r0, state |-> s]
    <2>1. unread[r0] \in Seq(SessionState) /\ unread[r0] # <<>>
        BY <1>3 DEF TypeOK, ProxyState
    <2>2. s \in SessionState /\ 1 \in DOMAIN unread[r0] /\ unread[r0][1] = s
        BY <2>1, TailOfStates
    <2>3. e \in Event /\ e.type = "StateUpdated" /\ e.run = r0 /\ e.state = s
        BY <2>2 DEF Event
    <2>4. /\ Send(e)
          /\ task' = [task EXCEPT ![r0] = IF s \in Terminal THEN "proxied" ELSE @]
          /\ UNCHANGED <<mapVars, shutdown, prepareVars, after, state, ended>>
        BY <1>3 DEF ProxyState
    <2>5. task[r0] = "proxy"
        BY <1>3, <2>1 DEF ProxyState, TerminalIsLast
    <2> HIDE DEF e, s
    <2>6. ReportOf(e, r0)
        BY <2>2, <2>3, <2>4, <2>5 DEF ReportOf, AfterDuty, TypeOK
    <2> QED
        BY <2>3, <2>6
<1>4. CASE ProxyReportsLost(r0)
    <2> DEFINE e == [type |-> "StateUpdated", run |-> r0, state |-> "Failed"]
    <2>1. /\ e \in Event /\ e.type = "StateUpdated" /\ e.run = r0
          /\ e.state \in Terminal
        BY DEF Event, SessionState, Terminal
    <2>2. Send(e) /\ ended[r0]
        BY <1>4 DEF ProxyReportsLost, ChannelClosed
    <2> HIDE DEF e
    <2>3. ReportOf(e, r0)
        BY <1>4, <2>1, <2>2 DEF ProxyReportsLost, ReportOf, AfterDuty, TypeOK
    <2> QED
        BY <2>1, <2>3
<1>5. CASE ReportFinished(r0)
    <2> DEFINE e == [type |-> "Finished", run |-> r0]
    <2>1. e \in Event /\ e.type = "Finished" /\ e.run = r0
        BY DEF Event
    <2>2. Send(e) /\ AfterDuty(r0)
        BY <1>5 DEF ReportFinished, AfterDuty
    <2> HIDE DEF e
    <2>3. ReportOf(e, r0)
        BY <1>5, <2>1, <2>2 DEF ReportFinished, ReportOf, AfterDuty, TypeOK
    <2> QED
        BY <2>1, <2>3
<1> QED
    BY <1>1, <1>2, <1>3, <1>4, <1>5 DEF Reports

\* A preparation reports a batch and changes nothing else the reports of a
\* run depend on.
LEMMA PrepareReportHasForm ==
    ASSUME TypeOK, NEW n \in RunNo, PrepareReports(n)
    PROVE  \E e \in Event :
              /\ Send(e) /\ e.type \in {"Prepared", "PreparationFailed"}
              /\ e.runs = RunsOf(n) /\ prepare[n] \in {"ready", "failed"}
              /\ UNCHANGED <<sessions, senders, stages, finishing, reserved, task, after, state,
                             ended, unread>>
              /\ \A m \in RunNo : prepare'[m] = IF m = n THEN "done" ELSE prepare[m]
<1> DEFINE e == [type |-> IF prepare[n] = "ready" THEN "Prepared" ELSE "PreparationFailed",
                 runs |-> RunsOf(n)]
<1>1. RunsOf(n) \subseteq Run
    BY RunOf DEF RunsOf, TypeOK
<1>2. /\ e \in Event /\ e.type \in {"Prepared", "PreparationFailed"}
      /\ e.runs = RunsOf(n)
    BY <1>1 DEF Event
<1>3. Send(e)
    BY DEF PrepareReports
<1> HIDE DEF e
<1>4. /\ prepare[n] \in {"ready", "failed"}
      /\ UNCHANGED <<sessions, senders, stages, finishing, reserved, task, after, state, ended, unread>>
      /\ \A m \in RunNo : prepare'[m] = IF m = n THEN "done" ELSE prepare[m]
    BY DEF PrepareReports, mapVars, sessionVars, TypeOK
<1> QED
    BY <1>2, <1>3, <1>4

\* What the manager does with the head of the channel.
LEMMA HandleHasForm ==
    ASSUME TypeOK, DutyInv, HandleEvent
    PROVE  /\ Receive
           /\ UNCHANGED <<prepare, reserved, state, unread, ended>>
           /\ \A r \in Run : \/ task'[r] = task[r]
                             \/ task[r] = "none" /\ task'[r] = "before_run"
           /\ \A k \in Key :
                 \/ senders'[k] = senders[k]
                 \/ senders'[k] = 0 /\ stages'[k] = 0
                 \/ k \in sessions /\ \E r \in Run : /\ Started(Head(queue), r) /\ r.key = k
                                                     /\ senders'[k] = r.n /\ stages'[k] = stages[k]
<1> USE DEF mapVars, prepareVars, sessionVars
<1>1. CASE HandlePrepared
    <2>1. Receive /\ Head(queue).type = "Prepared"
        BY <1>1 DEF HandlePrepared
    <2>2. \A r \in Run : r \in Head(queue).runs => QueuedPrep(r)
        BY <2>1, ReceiveQueued DEF CarriesPrep
    <2>3. \A r \in Run : r \in Head(queue).runs => task[r] = "none"
        BY <2>2 DEF DutyInv, DutyPlaces
    <2> QED
        BY <1>1, <2>3 DEF HandlePrepared
<1>2. CASE HandlePreparationFailed
    BY <1>2 DEF HandlePreparationFailed, DrainKeyState
<1>3. CASE HandleStarted
    <2>1. Receive /\ Head(queue) \in Event /\ Head(queue).type = "Started"
        BY <1>3, ReceiveType DEF HandleStarted, TypeOK
    <2>2. Head(queue).run \in Run
        BY <2>1 DEF Event
    <2> QED
        BY <1>3, <2>1, <2>2 DEF HandleStarted, Started, TypeOK
<1>4. CASE HandleStateUpdated
    BY <1>4 DEF HandleStateUpdated
<1>5. CASE HandleFinished
    BY <1>5 DEF HandleFinished, DrainKeyState
<1> QED
    BY <1>1, <1>2, <1>3, <1>4, <1>5 DEF HandleEvent

LEMMA TryRunHasForm ==
    ASSUME TypeOK, DutyInv, NEW i \in Issues, NEW s \in IssueStates, TryRunIssue(i, s)
    PROVE  \E K \in SUBSET {k \in Key : k.issue = i}, n \in RunNo :
              /\ K # {} /\ K \cap sessions = {} /\ CanAcceptIssue(i)
              /\ sessions' = sessions \cup K
              /\ \A k \in Key : /\ senders'[k] = IF k \in K THEN 0 ELSE senders[k]
                                /\ stages'[k] = IF k \in K THEN n ELSE stages[k]
              /\ \A m \in RunNo : /\ prepare'[m] = IF m = n THEN "preparing" ELSE prepare[m]
                                  /\ reserved'[m] = IF m = n THEN K ELSE reserved[m]
              /\ ~shutdown
              /\ UNCHANGED <<finishing, shutdown, task, after, state, unread, ended, queue>>
<1>k. PICK K \in SUBSET {k \in Key : k.issue = i} : K = ShouldDispatch(i, s)
    BY DispatchedKeys
<1>n. PICK n \in RunNo : n = issueRuns + 1
    BY MaxIssueRunsAssumption DEF TypeOK, TryRunIssue, RunNo
<1>1. K # {} /\ K \cap sessions = {} /\ CanAcceptIssue(i)
    BY <1>k DEF TryRunIssue, ShouldDispatch
<1>2. /\ sessions' = sessions \cup K
      /\ senders' = [k \in Key |-> IF k \in K THEN 0 ELSE senders[k]]
      /\ stages' = [k \in Key |-> IF k \in K THEN n ELSE stages[k]]
      /\ prepare' = [prepare EXCEPT ![n] = "preparing"]
      /\ reserved' = [reserved EXCEPT ![n] = K]
      /\ ~shutdown
      /\ UNCHANGED <<finishing, shutdown, task, after, state, unread, ended, queue>>
    BY <1>k, <1>n DEF TryRunIssue, ReserveIssueStages, sessionVars
<1> QED
    BY <1>1, <1>2 DEF TypeOK

-----------------------------------------------------------------------------
(* Each part of OrderInv is kept by every step.                            *)

LEMMA BatchesKept ==
    ASSUME TypeOK, DutyInv, BatchesOnly, [Next]_vars
    PROVE  BatchesOnly'
<1> DEFINE Prep(e) == e.type \in {"Prepared", "PreparationFailed"}
<1>q. UNCHANGED queue => \A j \in DOMAIN queue' : Prep(queue'[j]) => Batch(queue'[j].runs)
    BY DEF BatchesOnly
<1>p. ASSUME UNCHANGED reserved,
             \A n \in RunNo : prepare'[n] \in {"preparing", "ready", "failed"} =>
                                 prepare[n] \in {"preparing", "ready", "failed"}
      PROVE  \A n \in RunNo : prepare'[n] \in {"preparing", "ready", "failed"} => Batch(RunsOf(n)')
    BY <1>p DEF BatchesOnly, RunsOf
<1>s. ASSUME NEW e, Send(e), Prep(e) => Batch(e.runs)
      PROVE  \A j \in DOMAIN queue' : Prep(queue'[j]) => Batch(queue'[j].runs)
    BY <1>s, SendShape DEF BatchesOnly
<1>1. CASE \E i \in Issues, s \in IssueStates : TryRunIssue(i, s)
    <2>1. PICK i \in Issues, s \in IssueStates : TryRunIssue(i, s)
        BY <1>1
    <2>2. PICK K \in SUBSET {k \in Key : k.issue = i}, n \in RunNo :
              /\ K # {} /\ UNCHANGED queue
              /\ \A m \in RunNo : /\ prepare'[m] = IF m = n THEN "preparing" ELSE prepare[m]
                                  /\ reserved'[m] = IF m = n THEN K ELSE reserved[m]
        BY <2>1, TryRunHasForm
    <2>3. RunsOf(n)' = {[key |-> k, n |-> n] : k \in K}
        BY <2>2 DEF RunsOf
    <2>4. Batch(RunsOf(n)')
        <3>1. RunsOf(n)' # {}
            BY <2>2, <2>3
        <3>2. \A r \in RunsOf(n)' : r.key.issue = i
            BY <2>3
        <3> QED
            BY <3>1, <3>2 DEF Batch
    <2>5. \A m \in RunNo : m # n => RunsOf(m)' = RunsOf(m)
        BY <2>2 DEF RunsOf
    <2>6. \A m \in RunNo : prepare'[m] \in {"preparing", "ready", "failed"} => Batch(RunsOf(m)')
        BY <2>2, <2>4, <2>5 DEF BatchesOnly
    <2> QED
        BY <1>q, <2>2, <2>6 DEF BatchesOnly, Batch
<1>2. CASE \E n \in RunNo : PrepareReports(n)
    <2>1. PICK n \in RunNo, e \in Event :
              /\ Send(e) /\ e.runs = RunsOf(n) /\ prepare[n] \in {"ready", "failed"}
              /\ UNCHANGED reserved
              /\ \A m \in RunNo : prepare'[m] = IF m = n THEN "done" ELSE prepare[m]
        BY <1>2, PrepareReportHasForm
    <2>2. Batch(e.runs)
        BY <2>1 DEF BatchesOnly
    <2> QED
        BY <1>p, <1>s, <2>1, <2>2 DEF BatchesOnly, Batch
<1>3. CASE \E r \in Run : Reports(r)
    <2>1. PICK r \in Run, e \in Event : ReportOf(e, r)
        BY <1>3, ReportHasForm DEF DutyInv
    <2>2. Send(e) /\ ~Prep(e) /\ UNCHANGED <<prepare, reserved>>
        BY <2>1 DEF ReportOf
    <2> QED
        BY <1>p, <1>s, <2>2 DEF BatchesOnly, Batch
<1>4. CASE HandleEvent
    <2>1. Receive /\ UNCHANGED <<prepare, reserved>>
        BY <1>4, HandleHasForm
    <2>2. \A j \in DOMAIN queue' : Prep(queue'[j]) => Batch(queue'[j].runs)
        BY <2>1, ReceiveShape DEF BatchesOnly
    <2> QED
        BY <1>p, <2>1, <2>2 DEF BatchesOnly, Batch
<1>5. CASE Quiet
    BY <1>p, <1>q, <1>5 DEF Quiet, BatchesOnly, Batch
<1> QED
    BY <1>1, <1>2, <1>3, <1>4, <1>5, StepKinds

\* What the events of a run say of the run: it has a duty.
LEMMA ReportsHaveDuty ==
    ASSUME DutyInv, ReportsBeforeVerdict, NEW r \in Run,
           \/ StartQueued(r) \/ EndQueued(r)
           \/ \E j \in DOMAIN queue : CarriesTerm(queue[j], r) \/ Running(queue[j], r)
    PROVE  HasDuty(r) /\ stages[r.key] = r.n
<1>1. \A j \in DOMAIN queue : CarriesTerm(queue[j], r) \/ Finished(queue[j], r) => Queued(r)
    BY DEF Queued, CarriesTerm, Finished, Carries
<1>2. \A j \in DOMAIN queue : Started(queue[j], r) \/ Running(queue[j], r) =>
          task[r] = "proxy" \/ Queued(r)
    BY <1>1 DEF ReportsBeforeVerdict
<1>3. HasDuty(r)
    BY <1>1, <1>2 DEF StartQueued, EndQueued, HasDuty, LaunchDuty
<1> QED
    BY <1>3 DEF DutyInv, DutyHoldsKey

LEMMA SendersKept ==
    ASSUME TypeOK, DutyInv, ReportsBeforeVerdict, SendersAreCurrent, [Next]_vars
    PROVE  SendersAreCurrent'
<1>1. CASE \E i \in Issues, s \in IssueStates : TryRunIssue(i, s)
    <2>1. PICK K, n :
              \A k \in Key : /\ senders'[k] = IF k \in K THEN 0 ELSE senders[k]
                             /\ stages'[k] = IF k \in K THEN n ELSE stages[k]
        BY <1>1, TryRunHasForm
    <2> QED
        BY <2>1 DEF SendersAreCurrent
<1>2. CASE HandleEvent
    <2> SUFFICES ASSUME NEW k \in Key, senders'[k] # 0
                 PROVE  senders'[k] = stages'[k]
        BY DEF SendersAreCurrent
    <2>1. CASE senders'[k] = senders[k]
        <3>1. stages'[k] = stages[k] \/ senders'[k] = 0
            BY <1>2 DEF HandleEvent, HandlePrepared, HandlePreparationFailed, HandleStarted,
                        HandleStateUpdated, HandleFinished, DrainKeyState, mapVars, TypeOK
        <3> QED
            BY <2>1, <3>1 DEF SendersAreCurrent
    <2>2. ASSUME NEW r \in Run, Receive, Started(Head(queue), r), r.key = k,
                 senders'[k] = r.n, stages'[k] = stages[k]
          PROVE  senders'[k] = stages'[k]
        <3>1. StartQueued(r)
            BY <2>2, ReceiveOrdered
        <3>2. stages[k] = r.n
            BY <2>2, <3>1, ReportsHaveDuty
        <3> QED
            BY <2>2, <3>2
    <2> QED
        BY <1>2, <2>1, <2>2, HandleHasForm
<1>3. CASE UNCHANGED <<senders, stages>>
    BY <1>3 DEF SendersAreCurrent
<1>4. ASSUME NEW r \in Run, Reports(r) PROVE UNCHANGED <<senders, stages>>
    BY <1>4 DEF Reports, ReportAborted, ReportStarted, ProxyState, ProxyReportsLost,
                ReportFinished, mapVars
<1>5. ASSUME NEW n \in RunNo, PrepareReports(n) PROVE UNCHANGED <<senders, stages>>
    BY <1>5 DEF PrepareReports, mapVars
<1> QED
    BY <1>1, <1>2, <1>3, <1>4, <1>5, StepKinds DEF Quiet

\* Only report_started announces a run.
LEMMA AnnouncedBefore ==
    ASSUME TypeOK, DutyInv, [Next]_vars, NEW r \in Run, Announced(r)'
    PROVE  Announced(r) \/ (task[r] = "spawned" /\ task'[r] = "proxy")
<1>t. r.key \in Key /\ r.n # 0
    BY RunParts
<1>a. senders'[r.key] = r.n \/ StartQueued(r)'
    BY DEF Announced
<1>1. CASE \E i \in Issues, s \in IssueStates : TryRunIssue(i, s)
    <2>1. PICK K : /\ \A k \in Key : senders'[k] = IF k \in K THEN 0 ELSE senders[k]
                   /\ UNCHANGED queue
        BY <1>1, TryRunHasForm
    <2>2. senders'[r.key] = r.n => senders[r.key] = r.n
        BY <1>t, <2>1
    <2> QED
        BY <1>a, <2>1, <2>2, SameOrdered DEF Announced
<1>2. CASE \E n \in RunNo : PrepareReports(n)
    <2>1. PICK e \in Event : /\ Send(e) /\ e.type \in {"Prepared", "PreparationFailed"}
                             /\ UNCHANGED senders
        BY <1>2, PrepareReportHasForm
    <2>2. StartQueued(r)' => StartQueued(r)
        BY <2>1, SendOrdered DEF Started
    <2> QED
        BY <1>a, <2>1, <2>2 DEF Announced
<1>3. CASE \E r0 \in Run : Reports(r0)
    <2>1. PICK r0 \in Run, e \in Event : ReportOf(e, r0)
        BY <1>3, ReportHasForm DEF DutyInv
    <2>2. Send(e) /\ UNCHANGED senders /\ e.run = r0
        BY <2>1 DEF ReportOf
    <2>3. StartQueued(r)' => StartQueued(r) \/ Started(e, r)
        BY <2>2, SendOrdered
    <2>4. Started(e, r) => task[r] = "spawned" /\ task'[r] = "proxy"
        BY <2>1 DEF ReportOf, Started
    <2> QED
        BY <1>a, <2>2, <2>3, <2>4 DEF Announced
<1>4. CASE HandleEvent
    <2>1. Receive
        BY <1>4, HandleHasForm
    <2>2. StartQueued(r)' => StartQueued(r)
        BY <2>1, ReceiveOrdered
    <2>3. ASSUME senders'[r.key] = r.n PROVE Announced(r)
        <3>1. CASE senders'[r.key] = senders[r.key]
            BY <2>3, <3>1 DEF Announced
        <3>2. ASSUME NEW r1 \in Run, Started(Head(queue), r1), r1.key = r.key, senders'[r.key] = r1.n
              PROVE  Announced(r)
            <4>1. r1 = r
                BY <2>3, <3>2, SameRun
            <4> QED
                BY <2>1, <3>2, <4>1, ReceiveOrdered DEF Announced
        <3> QED
            BY <1>4, <1>t, <2>3, <3>1, <3>2, HandleHasForm
    <2> QED
        BY <1>a, <2>2, <2>3 DEF Announced
<1>5. CASE Quiet
    BY <1>5, <1>a, SameOrdered DEF Quiet, Announced
<1> QED
    BY <1>1, <1>2, <1>3, <1>4, <1>5, StepKinds

LEMMA AnnouncedBySpawnKept ==
    ASSUME TypeOK, DutyInv, AnnouncedBySpawn, [Next]_vars
    PROVE  AnnouncedBySpawn'
<1> DEFINE Early == {"none", "before_run", "aborting", "spawned"}
<1> SUFFICES ASSUME NEW r \in Run, task'[r] \in Early
             PROVE  ~Announced(r)'
    BY DEF AnnouncedBySpawn
<1>1. task[r] \in Early
    <2>1. CASE \E r0 \in Run : Reports(r0)
        <3>1. PICK r0 \in Run, e \in Event : ReportOf(e, r0)
            BY <2>1, ReportHasForm DEF DutyInv
        <3> QED
            BY <3>1 DEF ReportOf
    <2>2. CASE HandleEvent
        BY <2>2, HandleHasForm
    <2>3. CASE Quiet
        BY <2>3 DEF Quiet
    <2> QED
        BY <2>1, <2>2, <2>3, StepKinds DEF TryRunIssue, PrepareReports
<1> QED
    BY <1>1, AnnouncedBefore DEF AnnouncedBySpawn

\* A key leaves the finishing set only when it is drained.
LEMMA FinishingUntilDrained ==
    ASSUME TypeOK, [Next]_vars, NEW k \in finishing
    PROVE  k \in finishing' \/ stages'[k] = 0
<1>1. k \in Key
    BY DEF TypeOK
<1>2. CASE HandleEvent
    BY <1>1, <1>2 DEF HandleEvent, HandlePrepared, HandlePreparationFailed, HandleStarted,
                      HandleStateUpdated, HandleFinished, FinishStage, DrainKeyState, mapVars
<1>3. CASE \E r \in Run : Reports(r)
    BY <1>3 DEF Reports, ReportAborted, ReportStarted, ProxyState, ProxyReportsLost,
                ReportFinished, mapVars
<1>4. CASE \E n \in RunNo : PrepareReports(n)
    BY <1>4 DEF PrepareReports, mapVars
<1>5. CASE \E i \in Issues, s \in IssueStates : TryRunIssue(i, s)
    BY <1>5 DEF TryRunIssue
<1>6. CASE Quiet
    BY <1>6 DEF Quiet
<1> QED
    BY <1>2, <1>3, <1>4, <1>5, <1>6, StepKinds

\* An after_run task starts with its key in the finishing set.
LEMMA AfterDutyBefore ==
    ASSUME TypeOK, DutyInv, [Next]_vars, NEW r \in Run, AfterDuty(r)'
    PROVE  AfterDuty(r) \/ r.key \in finishing'
<1>1. CASE HandleStateUpdated
    <2>1. CASE after'[r] = after[r]
        BY <2>1 DEF AfterDuty
    <2>2. CASE after'[r] # after[r]
        <3>1. FinishStage(Head(queue).run.key, Head(queue).state)
            BY <1>1, <2>2 DEF HandleStateUpdated
        <3> DEFINE k == Head(queue).run.key
        <3>2. r = [key |-> k, n |-> stages[k]] /\ k \in finishing'
            BY <2>2, <3>1 DEF FinishStage, TypeOK
        <3> QED
            BY <3>2
    <2> QED
        BY <2>1, <2>2
<1>2. CASE HandlePrepared \/ HandlePreparationFailed \/ HandleStarted \/ HandleFinished
    BY <1>2 DEF HandlePrepared, HandlePreparationFailed, HandleStarted, HandleFinished, AfterDuty
<1>3. CASE \E r0 \in Run : Reports(r0)
    <2>1. PICK r0 \in Run, e \in Event : ReportOf(e, r0)
        BY <1>3, ReportHasForm DEF DutyInv
    <2> QED
        BY <2>1 DEF ReportOf
<1>4. CASE \E n \in RunNo : PrepareReports(n)
    BY <1>4 DEF PrepareReports, AfterDuty
<1>5. CASE \E i \in Issues, s \in IssueStates : TryRunIssue(i, s)
    BY <1>5 DEF TryRunIssue, AfterDuty
<1>6. CASE Quiet
    BY <1>6 DEF Quiet
<1> QED
    BY <1>1, <1>2, <1>3, <1>4, <1>5, <1>6, StepKinds DEF HandleEvent

\* Finished is sent by a launch task that gives up or by after_run.
LEMMA EndBefore ==
    ASSUME TypeOK, DutyInv, [Next]_vars, NEW r \in Run, EndQueued(r)'
    PROVE  \/ EndQueued(r)
           \/ task[r] = "aborting"
           \/ AfterDuty(r)
<1>1. CASE \E i \in Issues, s \in IssueStates : TryRunIssue(i, s)
    BY <1>1, SameOrdered DEF TryRunIssue
<1>2. CASE \E n \in RunNo : PrepareReports(n)
    <2>1. PICK e \in Event : Send(e) /\ e.type \in {"Prepared", "PreparationFailed"}
        BY <1>2, PrepareReportHasForm
    <2> QED
        BY <2>1, SendOrdered DEF Finished
<1>3. CASE \E r0 \in Run : Reports(r0)
    <2>1. PICK r0 \in Run, e \in Event : ReportOf(e, r0)
        BY <1>3, ReportHasForm DEF DutyInv
    <2>2. Send(e) /\ e.run = r0
        BY <2>1 DEF ReportOf
    <2>3. EndQueued(r)' => EndQueued(r) \/ Finished(e, r)
        BY <2>2, SendOrdered
    <2>4. Finished(e, r) => task[r] = "aborting" \/ AfterDuty(r)
        BY <2>1 DEF ReportOf, Finished
    <2> QED
        BY <2>3, <2>4
<1>4. CASE HandleEvent
    BY <1>4, HandleHasForm, ReceiveOrdered
<1>5. CASE Quiet
    BY <1>5, SameOrdered DEF Quiet
<1> QED
    BY <1>1, <1>2, <1>3, <1>4, <1>5, StepKinds

LEMMA FinishedAtTheEndKept ==
    ASSUME TypeOK, DutyInv, DutyInv', AnnouncedBySpawn, FinishedAtTheEnd, [Next]_vars
    PROVE  FinishedAtTheEnd'
<1> SUFFICES ASSUME NEW r \in Run
             PROVE  /\ AfterDuty(r)' => r.key \in finishing'
                    /\ EndQueued(r)' => r.key \in finishing' \/ ~Announced(r)'
    BY DEF FinishedAtTheEnd
<1>1. ASSUME AfterDuty(r)' \/ EndQueued(r)', r.key \in finishing
      PROVE  r.key \in finishing'
    <2>1. EndQueued(r)' => Queued(r)'
        BY DEF EndQueued, Queued, Finished, Carries
    <2>2. HasDuty(r)'
        BY <1>1, <2>1 DEF HasDuty
    <2>3. stages'[r.key] # 0
        BY <2>2, RunParts DEF DutyInv, DutyHoldsKey
    <2> QED
        BY <1>1, <2>3, FinishingUntilDrained
<1>2. AfterDuty(r)' => r.key \in finishing'
    BY <1>1, AfterDutyBefore DEF FinishedAtTheEnd
<1>3. ASSUME EndQueued(r)', Announced(r)' PROVE r.key \in finishing'
    <2>1. CASE AfterDuty(r)
        BY <1>1, <1>3, <2>1 DEF FinishedAtTheEnd
    <2>2. CASE task[r] = "aborting"
        BY <1>3, <2>2, AnnouncedBefore DEF AnnouncedBySpawn
    <2>3. CASE EndQueued(r)
        <3>1. Queued(r)
            BY <2>3 DEF EndQueued, Queued, Finished, Carries
        <3>2. task[r] # "spawned"
            BY <3>1 DEF DutyInv, DutyPlaces, LaunchDuty
        <3>3. Announced(r)
            BY <1>3, <3>2, AnnouncedBefore
        <3> QED
            BY <1>1, <1>3, <2>3, <3>3 DEF FinishedAtTheEnd
    <2> QED
        BY <1>3, <2>1, <2>2, <2>3, EndBefore
<1> QED
    BY <1>2, <1>3

\* A pc other than "proxy" is left for it only by report_started, and it is
\* left only for the terminal report.
LEMMA ReportsOnSend ==
    ASSUME TypeOK, ReportsBeforeVerdict, NEW e, Send(e),
           \A r \in Run : task[r] = "proxy" => task'[r] = "proxy" \/ CarriesTerm(e, r),
           \A r \in Run : Started(e, r) \/ Running(e, r) => task'[r] = "proxy"
    PROVE  ReportsBeforeVerdict'
<1> DEFINE L == Len(queue) + 1
<1> SUFFICES ASSUME NEW r \in Run, NEW j \in DOMAIN queue',
                    Started(queue'[j], r) \/ Running(queue'[j], r), task'[r] # "proxy"
             PROVE  \E i \in DOMAIN queue' : i > j /\ CarriesTerm(queue'[i], r)
    BY DEF ReportsBeforeVerdict, Started, Running, CarriesTerm
<1>1. j \in DOMAIN queue /\ queue'[j] = queue[j] /\ j < L /\ j \in Int
    BY SendShape
<1>2. CASE task[r] = "proxy"
    BY <1>1, <1>2, SendShape
<1>3. CASE \E i \in DOMAIN queue : i > j /\ CarriesTerm(queue[i], r)
    BY <1>3, SendShape
<1> QED
    BY <1>1, <1>2, <1>3 DEF ReportsBeforeVerdict

LEMMA ReportsOnReceive ==
    ASSUME TypeOK, ReportsBeforeVerdict, Receive,
           \A r \in Run : task[r] = "proxy" => task'[r] = "proxy"
    PROVE  ReportsBeforeVerdict'
<1> SUFFICES ASSUME NEW r \in Run, NEW j \in DOMAIN queue',
                    Started(queue'[j], r) \/ Running(queue'[j], r), task'[r] # "proxy"
             PROVE  \E i \in DOMAIN queue' : i > j /\ CarriesTerm(queue'[i], r)
    BY DEF ReportsBeforeVerdict, Started, Running, CarriesTerm
<1>1. j \in Int /\ j + 1 \in DOMAIN queue /\ queue'[j] = queue[j + 1]
    BY ReceiveShape
<1>2. PICK i \in DOMAIN queue : i > j + 1 /\ CarriesTerm(queue[i], r)
    BY <1>1 DEF ReportsBeforeVerdict
<1>3. i \in Int /\ i # 1
    <2>1. i \in Int /\ j + 1 >= 1
        BY <1>1, ReceiveShape
    <2> QED
        BY <1>1, <1>2, <2>1
<1>4. i - 1 \in DOMAIN queue' /\ i - 1 > j
    BY <1>1, <1>2, <1>3, ReceiveShape
<1>5. queue'[i - 1] = queue[(i - 1) + 1] /\ (i - 1) + 1 = i
    BY <1>3, <1>4, ReceiveShape
<1> QED
    BY <1>2, <1>4, <1>5

LEMMA ReportsBeforeVerdictKept ==
    ASSUME TypeOK, DutyInv, ReportsBeforeVerdict, [Next]_vars
    PROVE  ReportsBeforeVerdict'
<1>1. CASE \E i \in Issues, s \in IssueStates : TryRunIssue(i, s)
    <2>1. UNCHANGED <<task, queue>>
        BY <1>1 DEF TryRunIssue
    <2> QED
        BY <2>1 DEF ReportsBeforeVerdict, Started, Running, CarriesTerm
<1>2. CASE \E n \in RunNo : PrepareReports(n)
    <2>1. PICK e \in Event : /\ Send(e) /\ e.type \in {"Prepared", "PreparationFailed"}
                             /\ UNCHANGED task
        BY <1>2, PrepareReportHasForm
    <2> QED
        BY <2>1, ReportsOnSend DEF Started, Running
<1>3. CASE \E r \in Run : Reports(r)
    <2>1. PICK r0 \in Run, e \in Event : ReportOf(e, r0)
        BY <1>3, ReportHasForm DEF DutyInv
    <2>2. Send(e) /\ e.run = r0
        BY <2>1 DEF ReportOf
    <2>3. \A r \in Run : task[r] = "proxy" => task'[r] = "proxy" \/ CarriesTerm(e, r)
        BY <2>1 DEF ReportOf, CarriesTerm
    <2>4. \A r \in Run : Started(e, r) \/ Running(e, r) => task'[r] = "proxy"
        BY <2>1 DEF ReportOf, Started, Running
    <2> QED
        BY <2>2, <2>3, <2>4, ReportsOnSend
<1>4. CASE HandleEvent
    <2>1. Receive /\ \A r \in Run : task[r] = "proxy" => task'[r] = "proxy"
        BY <1>4, HandleHasForm
    <2> QED
        BY <2>1, ReportsOnReceive
<1>5. CASE Quiet
    <2>1. UNCHANGED queue /\ \A r \in Run : task[r] = "proxy" => task'[r] = "proxy"
        BY <1>5 DEF Quiet
    <2> QED
        BY <2>1 DEF ReportsBeforeVerdict, Started, Running, CarriesTerm
<1> QED
    BY <1>1, <1>2, <1>3, <1>4, <1>5, StepKinds

LEMMA VerdictOnSend ==
    ASSUME TypeOK, VerdictAfterStart, NEW e, Send(e), UNCHANGED senders,
           \A r \in Run : task'[r] = "proxy" => task[r] = "proxy" \/ Started(e, r),
           \A r \in Run : CarriesTerm(e, r) => task[r] = "proxy"
    PROVE  VerdictAfterStart'
<1> DEFINE L == Len(queue) + 1
<1> SUFFICES ASSUME NEW r \in Run
             PROVE  /\ task'[r] = "proxy" => Announced(r)'
                    /\ \A j \in DOMAIN queue' : CarriesTerm(queue'[j], r) =>
                          \/ senders[r.key] = r.n
                          \/ \E i \in DOMAIN queue' : i < j /\ Started(queue'[i], r)
    BY DEF VerdictAfterStart, CarriesTerm, Started
<1>1. task'[r] = "proxy" => Announced(r)'
    BY SendOrdered DEF VerdictAfterStart, Announced
<1>2. ASSUME NEW j \in DOMAIN queue', CarriesTerm(queue'[j], r), senders[r.key] # r.n
      PROVE  \E i \in DOMAIN queue' : i < j /\ Started(queue'[i], r)
    <2>1. CASE j \in DOMAIN queue
        <3>1. PICK i \in DOMAIN queue : i < j /\ Started(queue[i], r)
            BY <1>2, <2>1, SendShape DEF VerdictAfterStart
        <3> QED
            BY <3>1, SendShape
    <2>2. CASE j = L /\ CarriesTerm(e, r)
        <3>1. PICK i \in DOMAIN queue : Started(queue[i], r)
            BY <1>2, <2>2 DEF VerdictAfterStart, Announced, StartQueued
        <3>2. i < j /\ i \in DOMAIN queue' /\ queue'[i] = queue[i]
            BY <2>2, SendShape
        <3> QED
            BY <3>1, <3>2
    <2> QED
        BY <1>2, <2>1, <2>2, SendShape
<1> QED
    BY <1>1, <1>2

LEMMA VerdictOnReceive ==
    ASSUME TypeOK, VerdictAfterStart, Receive,
           \A r \in Run : task'[r] = "proxy" => task[r] = "proxy",
           \A r \in Run :
               /\ task'[r] = "proxy" \/ QueuedTerm(r)'
               /\ senders[r.key] = r.n \/ Started(Head(queue), r)
               => senders'[r.key] = r.n
    PROVE  VerdictAfterStart'
<1> SUFFICES ASSUME NEW r \in Run
             PROVE  /\ task'[r] = "proxy" => Announced(r)'
                    /\ \A j \in DOMAIN queue' : CarriesTerm(queue'[j], r) =>
                          \/ senders'[r.key] = r.n
                          \/ \E i \in DOMAIN queue' : i < j /\ Started(queue'[i], r)
    BY DEF VerdictAfterStart, CarriesTerm, Started
<1>1. ASSUME task'[r] = "proxy" PROVE Announced(r)'
    <2>1. senders[r.key] = r.n \/ StartQueued(r)
        BY <1>1 DEF VerdictAfterStart, Announced
    <2>2. senders'[r.key] = r.n \/ StartQueued(r)'
        BY <1>1, <2>1, ReceiveOrdered
    <2> QED
        BY <2>2 DEF Announced
<1>2. ASSUME NEW j \in DOMAIN queue', CarriesTerm(queue'[j], r), senders'[r.key] # r.n
      PROVE  \E i \in DOMAIN queue' : i < j /\ Started(queue'[i], r)
    <2>1. j \in Int /\ j + 1 \in DOMAIN queue /\ queue'[j] = queue[j + 1]
        BY ReceiveShape
    <2>2. QueuedTerm(r)'
        BY <1>2 DEF QueuedTerm, CarriesTerm
    <2>3. senders[r.key] # r.n /\ ~Started(Head(queue), r)
        BY <1>2, <2>2
    <2>4. PICK i \in DOMAIN queue : i < j + 1 /\ Started(queue[i], r)
        BY <1>2, <2>1, <2>3 DEF VerdictAfterStart
    <2>5. i \in Int /\ i # 1
        BY <2>3, <2>4, ReceiveShape
    <2>6. i - 1 \in DOMAIN queue' /\ i - 1 < j
        BY <2>1, <2>4, <2>5, ReceiveShape
    <2>7. queue'[i - 1] = queue[(i - 1) + 1] /\ (i - 1) + 1 = i
        BY <2>5, <2>6, ReceiveShape
    <2> QED
        BY <2>4, <2>6, <2>7
<1> QED
    BY <1>1, <1>2

LEMMA VerdictAfterStartKept ==
    ASSUME TypeOK, DutyInv, DutyInv', SendersAreCurrent, ReportsBeforeVerdict,
           AnnouncedBySpawn, VerdictAfterStart, [Next]_vars
    PROVE  VerdictAfterStart'
<1>d. \A r \in Run : task'[r] = "proxy" \/ QueuedTerm(r)' => stages'[r.key] = r.n
    <2> SUFFICES ASSUME NEW r \in Run, task'[r] = "proxy" \/ QueuedTerm(r)'
                 PROVE  HasDuty(r)'
        BY DEF DutyInv, DutyHoldsKey
    <2> QED
        BY DEF HasDuty, LaunchDuty, QueuedTerm, Queued, CarriesTerm, Carries
<1>1. CASE \E i \in Issues, s \in IssueStates : TryRunIssue(i, s)
    <2>1. PICK K \in SUBSET Key :
              /\ K \cap sessions = {}
              /\ \A k \in Key : senders'[k] = IF k \in K THEN 0 ELSE senders[k]
              /\ UNCHANGED <<task, queue>>
        BY <1>1, TryRunHasForm
    <2> SUFFICES ASSUME NEW r \in Run
                 PROVE  /\ task[r] = "proxy" => Announced(r)'
                        /\ \A j \in DOMAIN queue : CarriesTerm(queue[j], r) =>
                              \/ senders'[r.key] = r.n
                              \/ \E i \in DOMAIN queue : i < j /\ Started(queue[i], r)
        BY <2>1 DEF VerdictAfterStart, CarriesTerm, Started
    <2>2. ASSUME task[r] = "proxy" \/ QueuedTerm(r)
          PROVE  senders'[r.key] = senders[r.key]
        <3>1. HasDuty(r)
            BY <2>2 DEF HasDuty, LaunchDuty, QueuedTerm, Queued, CarriesTerm, Carries
        <3>2. r.key \in sessions
            BY <3>1, RunParts DEF DutyInv, DutyHoldsKey, MapsAgree
        <3> QED
            BY <2>1, <3>2, RunParts
    <2>3. task[r] = "proxy" => Announced(r)'
        BY <2>1, <2>2, SameOrdered DEF VerdictAfterStart, Announced
    <2>4. \A j \in DOMAIN queue : CarriesTerm(queue[j], r) => QueuedTerm(r)
        BY DEF QueuedTerm
    <2> QED
        BY <2>2, <2>3, <2>4 DEF VerdictAfterStart
<1>2. CASE \E n \in RunNo : PrepareReports(n)
    <2>1. PICK e \in Event : /\ Send(e) /\ e.type \in {"Prepared", "PreparationFailed"}
                             /\ UNCHANGED <<senders, task>>
        BY <1>2, PrepareReportHasForm
    <2> QED
        BY <2>1, VerdictOnSend DEF CarriesTerm
<1>3. CASE \E r \in Run : Reports(r)
    <2>1. PICK r0 \in Run, e \in Event : ReportOf(e, r0)
        BY <1>3, ReportHasForm DEF DutyInv
    <2>2. Send(e) /\ UNCHANGED senders
        BY <2>1 DEF ReportOf
    <2>3. \A r \in Run : task'[r] = "proxy" => task[r] = "proxy" \/ Started(e, r)
        BY <2>1 DEF ReportOf, Started
    <2>4. \A r \in Run : CarriesTerm(e, r) => task[r] = "proxy"
        BY <2>1 DEF ReportOf, CarriesTerm
    <2> QED
        BY <2>2, <2>3, <2>4, VerdictOnSend
<1>4. CASE HandleEvent
    <2>1. Receive /\ \A r \in Run : task'[r] = "proxy" => task[r] = "proxy"
        BY <1>4, HandleHasForm
    <2>2. ASSUME NEW r \in Run, task'[r] = "proxy" \/ QueuedTerm(r)',
                 senders[r.key] = r.n \/ Started(Head(queue), r)
          PROVE  senders'[r.key] = r.n
        <3>1. stages'[r.key] = r.n /\ r.key \in Key /\ r.n # 0
            BY <1>d, <2>2, RunParts
        <3>2. CASE Started(Head(queue), r)
            <4>1. StartQueued(r)
                BY <2>1, <3>2, ReceiveOrdered
            <4>2. stages[r.key] = r.n
                BY <4>1, ReportsHaveDuty
            <4>3. r.key \in sessions
                BY <3>1, <4>2 DEF DutyInv, MapsAgree
            <4>4. HandleStarted
                BY <1>4, <3>2 DEF HandleEvent, HandlePrepared, HandlePreparationFailed,
                                  HandleStateUpdated, HandleFinished, Started
            <4> QED
                BY <3>1, <3>2, <4>3, <4>4 DEF HandleStarted, Started, TypeOK
        <3>3. CASE senders[r.key] = r.n
            <4>1. ASSUME NEW r1 \in Run, Started(Head(queue), r1), r1.key = r.key,
                         senders'[r.key] = r1.n
                  PROVE  senders'[r.key] = r.n
                <5>1. StartQueued(r1)
                    BY <2>1, <4>1, ReceiveOrdered
                <5>2. stages[r.key] = r1.n
                    BY <4>1, <5>1, ReportsHaveDuty
                <5>3. stages[r.key] = r.n
                    BY <3>1, <3>3 DEF SendersAreCurrent
                <5> QED
                    BY <4>1, <5>2, <5>3
            <4> QED
                BY <1>4, <3>1, <3>3, <4>1, HandleHasForm
        <3> QED
            BY <2>2, <3>2, <3>3
    <2> QED
        BY <2>1, <2>2, VerdictOnReceive
<1>5. CASE Quiet
    <2>1. /\ UNCHANGED <<senders, queue>>
          /\ \A r \in Run : task'[r] = "proxy" => task[r] = "proxy"
        BY <1>5 DEF Quiet
    <2>2. \A r \in Run : task'[r] = "proxy" => Announced(r)'
        BY <2>1, SameOrdered DEF VerdictAfterStart, Announced
    <2> QED
        BY <2>1, <2>2 DEF VerdictAfterStart, CarriesTerm, Started
<1> QED
    BY <1>1, <1>2, <1>3, <1>4, <1>5, StepKinds

\* A session in a terminal state stays in it, and a session that is gone
\* does not come back; its channel gets the state it enters.
LEMMA SessionMoves ==
    ASSUME TypeOK, [Next]_vars, NEW r \in Run
    PROVE  /\ state[r] \in Terminal => state'[r] = state[r]
           /\ ended[r] => ended'[r]
           /\ \/ unread'[r] = unread[r]
              \/ unread[r] # <<>> /\ unread'[r] = Tail(unread[r])
              \/ state[r] \notin Terminal /\ unread'[r] = Append(unread[r], state'[r])
<1> USE DEF sessionVars
<1>1. CASE \E r0 \in Run : SessionTask(r0) \/ AgentExits(r0) \/ SessionPanics(r0)
    <2>1. PICK r0 \in Run : SessionTask(r0) \/ AgentExits(r0) \/ SessionPanics(r0)
        BY <1>1
    <2>2. \/ UNCHANGED <<state, unread>>
          \/ /\ state[r0] \in {"UnStarted", "Preparing", "Running"}
             /\ \E s \in {"Preparing", "Running", "Completed", "Failed", "Cancelled"} :
                    SetState(r0, s)
        BY <2>1 DEF SessionTask, SessionPrepares, SessionSpawnsAgent, SessionStopsEarly,
                    SessionRuns, SessionTerminates, SessionEnds, AgentExits, SessionPanics
    <2>3. UNCHANGED ended \/ ended' = [ended EXCEPT ![r0] = TRUE]
        BY <2>1 DEF SessionTask, SessionPrepares, SessionSpawnsAgent, SessionStopsEarly,
                    SessionRuns, SessionTerminates, SessionEnds, AgentExits, SessionPanics
    <2>4. ended[r] => ended'[r]
        BY <2>3 DEF TypeOK
    <2>5. CASE UNCHANGED <<state, unread>>
        BY <2>4, <2>5
    <2>6. ASSUME state[r0] \in {"UnStarted", "Preparing", "Running"},
                 NEW s \in {"Preparing", "Running", "Completed", "Failed", "Cancelled"},
                 SetState(r0, s)
          PROVE  /\ state[r] \in Terminal => state'[r] = state[r]
                 /\ \/ unread'[r] = unread[r]
                    \/ state[r] \notin Terminal /\ unread'[r] = Append(unread[r], state'[r])
        BY <2>6 DEF SetState, TypeOK, Terminal
    <2> QED
        BY <2>2, <2>4, <2>5, <2>6
<1>2. CASE \E r0 \in Run : LaunchTask(r0)
    <2>1. PICK r0 \in Run : LaunchTask(r0)
        BY <1>2
    <2>2. CASE ProxyState(r0)
        BY <2>2 DEF ProxyState, TypeOK
    <2>3. CASE ~ProxyState(r0)
        BY <2>1, <2>3 DEF LaunchTask, SpawnStage, LaunchFails, ReportAborted, ReportStarted,
                          ProxyEnds, ProxyReportsLost
    <2> QED
        BY <2>2, <2>3
<1>3. CASE \/ \E i \in Issues, s \in IssueStates : TryRunIssue(i, s)
           \/ \E n \in RunNo : PrepareTask(n)
           \/ \E r0 \in Run : AfterTask(r0)
           \/ CancelAll
           \/ UNCHANGED vars
    BY <1>3 DEF TryRunIssue, PrepareTask, PrepareEnds, PrepareDropped, PrepareReports,
                AfterTask, AfterRunEnds, ReportFinished, CancelAll, vars
<1>4. CASE HandleEvent
    BY <1>4 DEF HandleEvent, HandlePrepared, HandlePreparationFailed, HandleStarted,
                HandleStateUpdated, HandleFinished
<1> QED
    BY <1>1, <1>2, <1>3, <1>4 DEF Next, Stopped

\* What is in the channel about the end of a session is its end.
TrueEnd(e, r) == CarriesTerm(e, r) => e.state = state[r] \/ ended[r]

LEMMA TrueEndStays ==
    ASSUME TypeOK, [Next]_vars, NEW r \in Run, NEW e, TrueEnd(e, r)
    PROVE  CarriesTerm(e, r) => e.state = state'[r] \/ ended'[r]
BY SessionMoves DEF TrueEnd, CarriesTerm

LEMMA UnreadIsTrue ==
    ASSUME TypeOK, DutyInv, VerdictIsTrue, [Next]_vars, NEW r \in Run, NEW j \in DOMAIN unread'[r],
           unread'[r][j] \in Terminal
    PROVE  unread'[r][j] = state'[r]
<1>t. unread[r] \in Seq(SessionState)
    BY DEF TypeOK
<1>o. ASSUME NEW i \in DOMAIN unread[r], unread[r][i] \in Terminal
      PROVE  unread[r][i] = state'[r]
    BY <1>o, SessionMoves DEF VerdictIsTrue
<1>1. CASE unread'[r] = unread[r]
    BY <1>1, <1>o
<1>2. CASE unread[r] # <<>> /\ unread'[r] = Tail(unread[r])
    <2>1. j + 1 \in DOMAIN unread[r] /\ unread'[r][j] = unread[r][j + 1]
        BY <1>2, <1>t, TailOfStates
    <2> QED
        BY <1>o, <2>1
<1>3. CASE unread'[r] = Append(unread[r], state'[r])
    <2>1. j = Len(unread[r]) + 1 \/ (j \in DOMAIN unread[r] /\ unread'[r][j] = unread[r][j])
        BY <1>3, <1>t
    <2>2. CASE j = Len(unread[r]) + 1
        BY <1>3, <1>t, <2>2
    <2> QED
        BY <1>o, <2>1, <2>2
<1> QED
    BY <1>1, <1>2, <1>3, SessionMoves

LEMMA QueuedIsTrue ==
    ASSUME TypeOK, DutyInv, VerdictIsTrue, [Next]_vars, NEW r \in Run, NEW j \in DOMAIN queue',
           CarriesTerm(queue'[j], r)
    PROVE  queue'[j].state = state'[r] \/ ended'[r]
<1>o. \A i \in DOMAIN queue : TrueEnd(queue[i], r)
    BY DEF VerdictIsTrue, TrueEnd
<1>s. ASSUME NEW e, Send(e), TrueEnd(e, r) PROVE TrueEnd(queue'[j], r)
    BY <1>s, <1>o, SendShape
<1>1. TrueEnd(queue'[j], r)
    <2>1. CASE \E i \in Issues, s \in IssueStates : TryRunIssue(i, s)
        BY <1>o, <2>1 DEF TryRunIssue
    <2>2. CASE \E n \in RunNo : PrepareReports(n)
        <3>1. PICK e \in Event : Send(e) /\ e.type \in {"Prepared", "PreparationFailed"}
            BY <2>2, PrepareReportHasForm
        <3>2. TrueEnd(e, r)
            BY <3>1 DEF TrueEnd, CarriesTerm
        <3> QED
            BY <1>s, <3>1, <3>2
    <2>3. CASE \E r0 \in Run : Reports(r0)
        <3>1. PICK r0 \in Run, e \in Event : ReportOf(e, r0)
            BY <2>3, ReportHasForm DEF DutyInv
        <3>2. CarriesTerm(e, r) => ended[r] \/ \E i \in DOMAIN unread[r] : unread[r][i] = e.state
            BY <3>1 DEF ReportOf, CarriesTerm
        <3>3. TrueEnd(e, r)
            BY <3>2 DEF TrueEnd, CarriesTerm, VerdictIsTrue
        <3>4. Send(e)
            BY <3>1 DEF ReportOf
        <3> QED
            BY <1>s, <3>3, <3>4
    <2>4. CASE HandleEvent
        <3>1. Receive
            BY <2>4, HandleHasForm
        <3> QED
            BY <1>o, <3>1, ReceiveShape
    <2>5. CASE Quiet
        BY <1>o, <2>5 DEF Quiet
    <2> QED
        BY <2>1, <2>2, <2>3, <2>4, <2>5, StepKinds
<1> QED
    BY <1>1, TrueEndStays

LEMMA VerdictIsTrueKept ==
    ASSUME TypeOK, DutyInv, VerdictIsTrue, [Next]_vars
    PROVE  VerdictIsTrue'
<1>1. \A r \in Run : \A j \in DOMAIN unread'[r] :
          unread'[r][j] \in Terminal => unread'[r][j] = state'[r]
    BY UnreadIsTrue
<1>2. \A r \in Run, j \in DOMAIN queue' :
          CarriesTerm(queue'[j], r) => queue'[j].state = state'[r] \/ ended'[r]
    BY QueuedIsTrue
<1> QED
    BY <1>1, <1>2 DEF VerdictIsTrue, CarriesTerm

-----------------------------------------------------------------------------
(* The invariant and what follows from it.                                 *)

LEMMA OrderInvInit == Init => OrderInv
<1> SUFFICES ASSUME Init PROVE OrderInv
    OBVIOUS
<1>1. \A r \in Run : ~StartQueued(r) /\ ~EndQueued(r) /\ ~Announced(r)
    BY RunParts DEF Init, StartQueued, EndQueued, Announced
<1>2. \A r \in Run : task[r] = "none" /\ ~AfterDuty(r) /\ unread[r] = <<>>
    BY DEF Init, AfterDuty
<1>3. AnnouncedBySpawn /\ FinishedAtTheEnd
    BY <1>1, <1>2 DEF AnnouncedBySpawn, FinishedAtTheEnd
<1>4. ReportsBeforeVerdict /\ VerdictAfterStart /\ VerdictIsTrue
    BY <1>2 DEF Init, ReportsBeforeVerdict, VerdictAfterStart, VerdictIsTrue
<1>5. BatchesOnly /\ SendersAreCurrent
    BY DEF Init, BatchesOnly, SendersAreCurrent
<1> QED
    BY <1>3, <1>4, <1>5 DEF OrderInv

LEMMA OrderInvNext ==
    ASSUME TypeOK, DutyInv, DutyInv', OrderInv, [Next]_vars
    PROVE  OrderInv'
<1>1. BatchesOnly'
    BY BatchesKept DEF OrderInv
<1>2. SendersAreCurrent'
    BY SendersKept DEF OrderInv
<1>3. AnnouncedBySpawn'
    BY AnnouncedBySpawnKept DEF OrderInv
<1>4. FinishedAtTheEnd'
    BY FinishedAtTheEndKept DEF OrderInv
<1>5. ReportsBeforeVerdict'
    BY ReportsBeforeVerdictKept DEF OrderInv
<1>6. VerdictAfterStart'
    BY VerdictAfterStartKept DEF OrderInv
<1>7. VerdictIsTrue'
    BY VerdictIsTrueKept DEF OrderInv
<1> QED
    BY <1>1, <1>2, <1>3, <1>4, <1>5, <1>6, <1>7 DEF OrderInv

\* The order invariant: the manager learns of a run's start before its end,
\* of its true end, and of nothing after it.
THEOREM OrderInvariant == Spec => []OrderInv
<1>1. TypeOK /\ DutyInv /\ DutyInv' /\ OrderInv /\ [Next]_vars => OrderInv'
    BY OrderInvNext
<1> QED
    BY OrderInvInit, <1>1, TypeCorrect, DutyInvariant, PTL DEF Spec

\* A saved command sender belongs to the run that holds its key, so
\* cancel_all never cancels the session of an earlier reservation.
THEOREM SendersCurrent == Spec => []SendersAreCurrent
<1>1. OrderInv => SendersAreCurrent
    BY DEF OrderInv
<1> QED
    BY <1>1, OrderInvariant, PTL

\* When the sessions map is empty and the orchestrator may return, no event
\* is in the channel and no task owes one.
THEOREM DrainedSilence == Spec => []DrainedIsSilent
<1>1. TypeOK /\ DutyInv /\ OrderInv => DrainedIsSilent
    <2> SUFFICES ASSUME TypeOK, DutyInv, OrderInv, sessions = {}
                 PROVE  /\ queue = <<>>
                        /\ \A r \in Run : /\ Duties(r) = {}
                                          /\ task[r] = "proxied" => unread[r] = <<>>
        BY DEF DrainedIsSilent
    <2>1. \A r \in Run : ~HasDuty(r)
        BY RunParts DEF DutyInv, MapsAgree, DutyHoldsKey
    <2>2. \A r \in Run : Duties(r) = {}
        BY <2>1 DEF Duties, HasDuty, PrepareDuty, LaunchDuty, AfterDuty, Queued
    <2>3. \A r \in Run : task[r] = "proxied" => unread[r] = <<>>
        BY DEF DutyInv, TerminalIsLast
    <2>4. ASSUME NEW j \in DOMAIN queue PROVE FALSE
        <3> DEFINE e == queue[j]
        <3>1. e \in Event
            BY DEF TypeOK
        <3>2. CASE e.type \in {"Prepared", "PreparationFailed"}
            <4>1. e.runs \subseteq Run
                BY <3>1, <3>2 DEF Event
            <4>2. PICK r \in Run : r \in e.runs
                BY <3>2, <4>1 DEF OrderInv, BatchesOnly, Batch
            <4> QED
                BY <2>1, <3>2, <4>2 DEF HasDuty, Queued, Carries
        <3>3. CASE e.type \in {"Started", "Finished", "StateUpdated"}
            <4>1. e.run \in Run
                BY <3>1, <3>3 DEF Event
            <4>2. \/ Started(e, e.run) \/ Finished(e, e.run)
                  \/ Running(e, e.run) \/ CarriesTerm(e, e.run)
                BY <3>3 DEF Started, Finished, Running, CarriesTerm
            <4>3. HasDuty(e.run)
                BY <4>1, <4>2, ReportsHaveDuty DEF OrderInv, StartQueued, EndQueued
            <4> QED
                BY <2>1, <4>1, <4>3
        <3> QED
            BY <3>1, <3>2, <3>3 DEF Event
    <2>5. queue = <<>>
        <3>1. queue \in Seq(Event) /\ (queue # <<>> => 1 \in DOMAIN queue)
            BY DEF TypeOK
        <3> QED
            BY <2>4, <3>1
    <2> QED
        BY <2>2, <2>3, <2>5
<1> QED
    BY <1>1, TypeCorrect, DutyInvariant, OrderInvariant, PTL

\* The head that finishes a stage is the true end of the run that holds the
\* key, and the manager knows the run's session.
LEMMA VerdictAtHead ==
    ASSUME TypeOK, DutyInv, OrderInv, HandleStateUpdated, Head(queue).state \in Terminal
    PROVE  \E r \in Run :
              /\ r = Head(queue).run /\ r = Holder(r.key)
              /\ after[r] = "none" /\ r.key \notin finishing
              /\ senders[r.key] = r.n
              /\ Head(queue).state = state[r] \/ ended[r]
<1>1. Receive /\ Head(queue) \in Event /\ Head(queue).type = "StateUpdated"
    BY ReceiveType DEF HandleStateUpdated, TypeOK
<1>2. PICK r \in Run : r = Head(queue).run
    BY <1>1 DEF Event
<1>3. 1 \in DOMAIN queue /\ CarriesTerm(queue[1], r) /\ queue[1] = Head(queue)
    BY <1>1, <1>2, ReceiveShape DEF CarriesTerm
<1>4. stages[r.key] = r.n
    BY <1>3, ReportsHaveDuty DEF OrderInv
<1>5. r = Holder(r.key)
    BY <1>4, RunParts DEF Holder
<1>6. after[r] = "none"
    BY <1>3 DEF DutyInv, DutyPlaces, QueuedTerm
<1>7. r.key \notin finishing
    BY <1>5, <1>6 DEF DutyInv, MapsAgree
<1>8. senders[r.key] = r.n
    <2>1. \A i \in DOMAIN queue : ~(i < 1)
        BY <1>1, ReceiveShape
    <2> QED
        BY <1>3, <2>1 DEF OrderInv, VerdictAfterStart
<1>9. Head(queue).state = state[r] \/ ended[r]
    BY <1>3 DEF OrderInv, VerdictIsTrue
<1> QED
    BY <1>2, <1>5, <1>6, <1>7, <1>8, <1>9

AfterRunStep ==
    \A r \in Run : after'[r] = "hook" /\ after[r] # "hook" =>
        /\ after[r] = "none"
        /\ state[r] \in {"Completed", "Failed"} \/ ended[r]
        /\ senders[r.key] = r.n

\* after_run is started at most once per IssueStage, and only for a stage
\* whose session was started, has ended or is lost, and still holds its key.
THEOREM AfterRunFollows == Spec => AfterRunFollowsSession
<1>1. TypeOK /\ DutyInv /\ OrderInv /\ [Next]_vars => AfterRunStep
    <2> SUFFICES ASSUME TypeOK, DutyInv, OrderInv, [Next]_vars,
                        NEW r \in Run, after'[r] = "hook", after[r] # "hook"
                 PROVE  /\ after[r] = "none"
                        /\ state[r] \in {"Completed", "Failed"} \/ ended[r]
                        /\ senders[r.key] = r.n
        BY DEF AfterRunStep
    <2>1. HandleStateUpdated
        BY DEF Next, vars, Stopped, CancelAll, TryRunIssue, PrepareTask, PrepareEnds,
               PrepareDropped, PrepareReports, LaunchTask, SpawnStage, LaunchFails,
               ReportAborted, ReportStarted, ProxyState, ProxyEnds, ProxyReportsLost,
               SessionTask, SessionPrepares, SessionSpawnsAgent, SessionStopsEarly,
               SessionRuns, SessionTerminates, SessionEnds, AgentExits, SessionPanics,
               AfterTask, AfterRunEnds, ReportFinished, HandleEvent, HandlePrepared,
               HandlePreparationFailed, HandleStarted, HandleFinished, TypeOK
    <2>2. Head(queue).state \in Terminal
        BY <2>1 DEF HandleStateUpdated
    <2>3. PICK r0 \in Run :
              /\ r0 = Head(queue).run /\ r0 = Holder(r0.key)
              /\ after[r0] = "none" /\ senders[r0.key] = r0.n
              /\ Head(queue).state = state[r0] \/ ended[r0]
        BY <2>1, <2>2, VerdictAtHead
    <2>4. FinishStage(r0.key, Head(queue).state)
        BY <2>1, <2>2, <2>3 DEF HandleStateUpdated
    <2>5. r = r0 /\ Head(queue).state # "Cancelled"
        BY <2>3, <2>4 DEF FinishStage, Holder, TypeOK
    <2> QED
        BY <2>2, <2>3, <2>5 DEF Terminal
<1>2. AfterRunStep => [AfterRunStep]_vars
    OBVIOUS
<1> QED
    BY <1>1, <1>2, TypeCorrect, DutyInvariant, OrderInvariant, PTL
    DEF Spec, AfterRunFollowsSession, AfterRunStep

-----------------------------------------------------------------------------
(* StageSessions implements StageLifecycle.                                *)

LEMMA PhaseOf ==
    \A k \in Key :
        phase[k] = IF k \notin sessions THEN "idle"
                   ELSE IF k \in finishing THEN "finishing"
                   ELSE IF senders[k] = 0 THEN "reserved" ELSE "running"
BY DEF phase

LEMMA PhaseOfNext ==
    \A k \in Key :
        phase'[k] = IF k \notin sessions' THEN "idle"
                    ELSE IF k \in finishing' THEN "finishing"
                    ELSE IF senders'[k] = 0 THEN "reserved" ELSE "running"
BY DEF phase

LEMMA SameKeys == Lifecycle!Key = Key
BY DEF Lifecycle!Key, Key

LEMMA SameSize ==
    ASSUME NEW S
    PROVE  Lifecycle!Cardinality(S) = Cardinality(S)
BY DEF Lifecycle!Cardinality, Cardinality

LEMMA IsMove ==
    ASSUME NEW K, NEW from, NEW to,
           \A k \in K : phase[k] = from,
           \A k \in Key : phase'[k] = IF k \in K THEN to ELSE phase[k]
    PROVE  Lifecycle!Move(K, from, to)
<1>1. phase' = [k \in Key |-> phase'[k]]
    BY DEF phase
<1>2. phase' = [k \in Key |-> IF k \in K THEN to ELSE phase[k]]
    BY <1>1
<1> QED
    BY <1>2, SameKeys DEF Lifecycle!Move

LEMMA PhaseKept ==
    ASSUME UNCHANGED <<sessions, senders, finishing>>
    PROVE  UNCHANGED phase
BY DEF phase

\* The issues of StageLifecycle are the active issues of the stages map.
LEMMA IssuesAgree ==
    ASSUME DutyInv
    PROVE  /\ Lifecycle!IssuesInUse = ActiveIssues
           /\ \A i \in Issues : Lifecycle!InUse(i) <=> i \in ActiveIssues
<1>1. \A k \in Key : phase[k] # "idle" <=> stages[k] # 0
    BY PhaseOf DEF DutyInv, MapsAgree
<1>2. ActiveIssues \subseteq Issues
    BY DEF ActiveIssues, Key
<1>3. \A i \in Issues : Lifecycle!InUse(i) <=> i \in ActiveIssues
    BY <1>1, SameKeys DEF Lifecycle!InUse, ActiveIssues
<1> QED
    BY <1>2, <1>3 DEF Lifecycle!IssuesInUse

LEMMA DispatchIsReserve ==
    ASSUME TypeOK, DutyInv, NEW i \in Issues, NEW s \in IssueStates, TryRunIssue(i, s)
    PROVE  Lifecycle!Reserve(i)
<1>1. PICK K \in SUBSET {k \in Key : k.issue = i} :
          /\ K \cap sessions = {} /\ CanAcceptIssue(i)
          /\ sessions' = sessions \cup K
          /\ \A k \in Key : senders'[k] = IF k \in K THEN 0 ELSE senders[k]
          /\ UNCHANGED finishing
    BY TryRunHasForm
<1>2. K \subseteq Key /\ finishing \subseteq sessions
    BY DEF DutyInv, MapsAgree, TypeOK
<1>3. \A k \in Key : phase'[k] = IF k \in K THEN "reserved" ELSE phase[k]
    BY <1>1, <1>2, PhaseOf, PhaseOfNext
<1>4. \A k \in K : phase[k] = "idle"
    BY <1>1, <1>2, PhaseOf
<1>5. Lifecycle!Move(K, "idle", "reserved")
    BY <1>3, <1>4, IsMove
<1>6. Lifecycle!InUse(i) \/ Lifecycle!Cardinality(Lifecycle!IssuesInUse) < MaxIssueConcurrency
    BY <1>1, IssuesAgree, SameSize DEF CanAcceptIssue
<1>7. K \in SUBSET {k \in Lifecycle!Key : k.issue = i}
    BY SameKeys
<1> QED
    BY <1>5, <1>6, <1>7 DEF Lifecycle!Reserve

\* Drained keys become idle, and no other key moves.
LEMMA DrainPhase ==
    ASSUME NEW K, DrainKeyState(K)
    PROVE  \A k \in Key : phase'[k] = IF k \in K THEN "idle" ELSE phase[k]
BY PhaseOf, PhaseOfNext DEF DrainKeyState

\* A run with a duty, not announced and with no after_run yet, holds a key
\* that is merely reserved.
LEMMA IsReserved ==
    ASSUME TypeOK, DutyInv, OrderInv, NEW r \in Run, HasDuty(r), ~Announced(r),
           r.key \notin finishing
    PROVE  phase[r.key] = "reserved"
<1>1. stages[r.key] = r.n /\ r.key \in Key /\ r.n # 0
    BY RunParts DEF DutyInv, DutyHoldsKey
<1>2. r.key \in sessions
    BY <1>1 DEF DutyInv, MapsAgree
<1>3. senders[r.key] = 0
    BY <1>1 DEF OrderInv, SendersAreCurrent, Announced
<1> QED
    BY <1>1, <1>2, <1>3, PhaseOf

LEMMA FailureIsGiveBack ==
    ASSUME TypeOK, DutyInv, OrderInv, HandlePreparationFailed
    PROVE  \E i \in Issues : Lifecycle!GiveBack(i)
<1> DEFINE R == Head(queue).runs
<1> DEFINE K == {r.key : r \in R}
<1>1. /\ Receive /\ Head(queue).type = "PreparationFailed" /\ DrainKeyState(K)
    BY DEF HandlePreparationFailed
<1>2. Head(queue) \in Event /\ 1 \in DOMAIN queue /\ queue[1] = Head(queue)
    BY <1>1, ReceiveShape
<1>3. R \subseteq Run
    BY <1>1, <1>2 DEF Event
<1>4. Batch(R)
    BY <1>1, <1>2 DEF OrderInv, BatchesOnly
<1>5. PICK r0 \in Run : r0 \in R
    BY <1>3, <1>4 DEF Batch
<1>6. r0.key.issue \in Issues
    BY RunParts DEF Key
<1>7. \A r \in R : r \in Run /\ QueuedPrep(r) /\ HasDuty(r)
    BY <1>1, <1>2, <1>3 DEF QueuedPrep, CarriesPrep, HasDuty, Queued, Carries
<1>8. ASSUME NEW r \in R PROVE phase[r.key] = "reserved"
    <2>1. task[r] = "none" /\ after[r] = "none" /\ r \in Run /\ HasDuty(r)
        BY <1>7 DEF DutyInv, DutyPlaces
    <2>2. ~Announced(r)
        BY <2>1 DEF OrderInv, AnnouncedBySpawn
    <2>3. Holder(r.key) = r
        BY <2>1, RunParts DEF DutyInv, DutyHoldsKey, Holder
    <2>4. r.key \notin finishing
        BY <2>1, <2>3 DEF DutyInv, MapsAgree
    <2> QED
        BY <2>1, <2>2, <2>4, IsReserved
<1>9. \A k \in Key : phase'[k] = IF k \in K THEN "idle" ELSE phase[k]
    BY <1>1, DrainPhase
<1>10. \A k \in K : phase[k] = "reserved"
    BY <1>8
<1>11. K \subseteq {k \in Key : k.issue = r0.key.issue}
    BY <1>3, <1>4, <1>5, RunParts DEF Batch
<1> HIDE DEF K
<1>12. Lifecycle!Move(K, "reserved", "idle")
    BY <1>9, <1>10, IsMove
<1> QED
    BY <1>6, <1>11, <1>12, SameKeys DEF Lifecycle!GiveBack

LEMMA StartedIsStart ==
    ASSUME TypeOK, DutyInv, OrderInv, HandleStarted
    PROVE  (\E k \in Key : Lifecycle!Start(k)) \/ UNCHANGED phase
<1>1. Receive /\ Head(queue) \in Event /\ Head(queue).type = "Started"
    BY ReceiveType DEF HandleStarted, TypeOK
<1>2. PICK r \in Run : r = Head(queue).run
    BY <1>1 DEF Event
<1>3. /\ senders' = IF r.key \in sessions THEN [senders EXCEPT ![r.key] = r.n] ELSE senders
      /\ UNCHANGED <<sessions, stages, finishing>>
    BY <1>2 DEF HandleStarted
<1>4. StartQueued(r)
    BY <1>1, <1>2, ReceiveOrdered DEF Started
<1>5. /\ HasDuty(r) /\ stages[r.key] = r.n /\ r.key \in Key /\ r.n # 0
    BY <1>4, ReportsHaveDuty, RunParts DEF OrderInv
<1>6. r.key \in sessions
    BY <1>5 DEF DutyInv, MapsAgree
<1>7. CASE senders[r.key] # 0
    <2>1. senders[r.key] = r.n
        BY <1>5, <1>7 DEF OrderInv, SendersAreCurrent
    <2>2. UNCHANGED senders
        BY <1>3, <2>1 DEF TypeOK
    <2> QED
        BY <1>3, <2>2, PhaseKept
<1>8. CASE senders[r.key] = 0
    <2>1. r.key \notin finishing
        <3>1. after[r] = "none"
            <4>1. PICK j \in DOMAIN queue : Started(queue[j], r)
                BY <1>4 DEF StartQueued
            <4>2. task[r] = "proxy" \/ QueuedTerm(r)
                BY <4>1 DEF OrderInv, ReportsBeforeVerdict, QueuedTerm
            <4> QED
                BY <4>2 DEF DutyInv, DutyPlaces, LaunchDuty
        <3>2. Holder(r.key) = r
            BY <1>5, RunParts DEF Holder
        <3> QED
            BY <3>1, <3>2 DEF DutyInv, MapsAgree
    <2>2. \A k \in Key : senders'[k] = IF k = r.key THEN r.n ELSE senders[k]
        BY <1>3, <1>6 DEF TypeOK
    <2>3. \A k \in Key : phase'[k] = IF k \in {r.key} THEN "running" ELSE phase[k]
        BY <1>3, <1>5, <1>6, <2>1, <2>2, PhaseOf, PhaseOfNext
    <2>4. phase[r.key] = "reserved"
        BY <1>5, <1>6, <1>8, <2>1, PhaseOf
    <2>5. Lifecycle!Move({r.key}, "reserved", "running")
        BY <2>3, <2>4, IsMove
    <2> QED
        BY <1>5, <2>5 DEF Lifecycle!Start
<1> QED
    BY <1>7, <1>8

LEMMA VerdictIsFinish ==
    ASSUME TypeOK, DutyInv, OrderInv, HandleStateUpdated
    PROVE  (\E k \in Key : Lifecycle!Finish(k)) \/ UNCHANGED phase
<1>1. CASE Head(queue).state \notin Terminal
    BY <1>1, PhaseKept DEF HandleStateUpdated
<1>2. CASE Head(queue).state \in Terminal
    <2>1. PICK r \in Run :
              /\ r = Head(queue).run /\ r = Holder(r.key)
              /\ r.key \notin finishing /\ senders[r.key] = r.n
        BY <1>2, VerdictAtHead
    <2>2. stages[r.key] = r.n /\ r.key \in Key /\ r.n # 0
        BY <2>1, RunParts DEF Holder
    <2>3. r.key \in sessions
        BY <2>2 DEF DutyInv, MapsAgree
    <2>4. finishing' = finishing \cup {r.key} /\ UNCHANGED <<sessions, senders>>
        BY <1>2, <2>1, <2>2 DEF HandleStateUpdated, FinishStage
    <2>5. \A k \in Key : phase'[k] = IF k \in {r.key} THEN "finishing" ELSE phase[k]
        BY <2>3, <2>4, PhaseOf, PhaseOfNext
    <2>6. phase[r.key] = "running"
        BY <2>1, <2>2, <2>3, PhaseOf
    <2>7. Lifecycle!Move({r.key}, "running", "finishing")
        BY <2>5, <2>6, IsMove
    <2> QED
        BY <2>2, <2>7 DEF Lifecycle!Finish
<1> QED
    BY <1>1, <1>2

LEMMA FinishedIsRelease ==
    ASSUME TypeOK, DutyInv, OrderInv, HandleFinished
    PROVE  \/ \E k \in Key : Lifecycle!Release(k)
           \/ \E i \in Issues : Lifecycle!GiveBack(i)
<1>1. /\ Receive /\ Head(queue) \in Event /\ Head(queue).type = "Finished"
    BY ReceiveType DEF HandleFinished, TypeOK
<1>2. PICK r \in Run : r = Head(queue).run
    BY <1>1 DEF Event
<1>3. DrainKeyState({r.key})
    BY <1>2 DEF HandleFinished
<1>4. EndQueued(r)
    BY <1>1, <1>2, ReceiveOrdered DEF Finished
<1>5. HasDuty(r) /\ stages[r.key] = r.n /\ r.key \in Key /\ r.n # 0 /\ r.key.issue \in Issues
    BY <1>4, ReportsHaveDuty, RunParts DEF OrderInv, Key
<1>6. r.key \in sessions
    BY <1>5 DEF DutyInv, MapsAgree
<1>7. \A k \in Key : phase'[k] = IF k \in {r.key} THEN "idle" ELSE phase[k]
    BY <1>3, DrainPhase
<1>8. CASE r.key \in finishing
    <2>1. phase[r.key] = "finishing"
        BY <1>5, <1>6, <1>8, PhaseOf
    <2>2. Lifecycle!Move({r.key}, "finishing", "idle")
        BY <1>7, <2>1, IsMove
    <2> QED
        BY <1>5, <2>2 DEF Lifecycle!Release
<1>9. CASE r.key \notin finishing
    <2>1. ~Announced(r)
        BY <1>4, <1>9 DEF OrderInv, FinishedAtTheEnd
    <2>2. phase[r.key] = "reserved"
        BY <1>5, <1>9, <2>1, IsReserved
    <2>3. Lifecycle!Move({r.key}, "reserved", "idle")
        BY <1>7, <2>2, IsMove
    <2>4. {r.key} \in SUBSET {k \in Key : k.issue = r.key.issue}
        BY <1>5
    <2> QED
        BY <1>5, <2>3, <2>4, SameKeys DEF Lifecycle!GiveBack
<1> QED
    BY <1>8, <1>9

LEMMA PhaseStep ==
    ASSUME TypeOK, DutyInv, OrderInv, [Next]_vars
    PROVE  [Lifecycle!Next]_phase
<1>1. CASE \E i \in Issues, s \in IssueStates : TryRunIssue(i, s)
    BY <1>1, DispatchIsReserve DEF Lifecycle!Next
<1>2. CASE HandlePrepared
    BY <1>2, PhaseKept DEF HandlePrepared, mapVars
<1>3. CASE HandlePreparationFailed
    BY <1>3, FailureIsGiveBack DEF Lifecycle!Next
<1>4. CASE HandleStarted
    BY <1>4, StartedIsStart, SameKeys DEF Lifecycle!Next
<1>5. CASE HandleStateUpdated
    BY <1>5, VerdictIsFinish, SameKeys DEF Lifecycle!Next
<1>6. CASE HandleFinished
    BY <1>6, FinishedIsRelease, SameKeys DEF Lifecycle!Next
<1>7. CASE Quiet
    BY <1>7, PhaseKept DEF Quiet
<1>8. CASE \E r \in Run : Reports(r)
    BY <1>8, PhaseKept DEF Reports, ReportAborted, ReportStarted, ProxyState, ProxyReportsLost,
                           ReportFinished, mapVars
<1>9. CASE \E n \in RunNo : PrepareReports(n)
    BY <1>9, PhaseKept DEF PrepareReports, mapVars
<1> QED
    BY <1>1, <1>2, <1>3, <1>4, <1>5, <1>6, <1>7, <1>8, <1>9, StepKinds DEF HandleEvent

LEMMA PhaseInit == Init => Lifecycle!Init
<1> SUFFICES ASSUME Init PROVE Lifecycle!Init
    OBVIOUS
<1>1. phase = [k \in Key |-> "idle"]
    BY DEF Init, phase
<1> QED
    BY <1>1, SameKeys DEF Lifecycle!Init

\* The manager implements StageLifecycle: a key goes from idle through
\* reserved, running and finishing back to idle, within the issue cap; it is
\* given back early only before its session was announced, and an announced
\* one never skips after_run.
THEOREM LifecycleImplemented == Spec => ImplementsLifecycle
<1>1. TypeOK /\ DutyInv /\ OrderInv /\ [Next]_vars => [Lifecycle!Next]_phase
    BY PhaseStep
<1> QED
    BY PhaseInit, <1>1, TypeCorrect, DutyInvariant, OrderInvariant, PTL
    DEF Spec, ImplementsLifecycle, Lifecycle!Spec

-----------------------------------------------------------------------------
(* The safety of ManagerContract, which the orchestrator loop is built on. *)

LEMMA DispatchIsAccept ==
    ASSUME TypeOK, DutyInv, NEW i \in Issues, NEW s \in IssueStates, TryRunIssue(i, s)
    PROVE  \E K \in SUBSET Key : Contract!Accept(K)
<1>1. PICK K \in SUBSET {k \in Key : k.issue = i} :
          /\ K \cap sessions = {} /\ sessions' = sessions \cup K
          /\ ~shutdown /\ UNCHANGED shutdown
    BY TryRunHasForm
<1>2. K \in SUBSET Key /\ \A k, l \in K : k.issue = l.issue
    OBVIOUS
<1> QED
    BY <1>1, <1>2 DEF Contract!Accept

\* What a handler drains was reserved.
LEMMA DrainIsRelease ==
    ASSUME TypeOK, DutyInv, OrderInv, HandlePreparationFailed \/ HandleFinished
    PROVE  \E K \in SUBSET Key : Contract!Release(K)
<1>1. Receive /\ Head(queue) \in Event /\ UNCHANGED shutdown /\ ~shutdown
    BY ReceiveType DEF HandlePreparationFailed, HandleFinished, TypeOK, Receive
<1>2. \A r \in Run : HasDuty(r) => r.key \in sessions
    BY RunParts DEF DutyInv, DutyHoldsKey, MapsAgree
<1>3. \A r \in Run : Carries(Head(queue), r) => r.key \in sessions
    BY <1>1, <1>2, ReceiveQueued DEF HasDuty
<1>4. PICK K : DrainKeyState(K) /\ K \subseteq sessions
    <2>1. CASE HandlePreparationFailed
        <3>1. Head(queue).type = "PreparationFailed"
            BY <2>1 DEF HandlePreparationFailed
        <3>2. Head(queue).runs \subseteq Run
            BY <1>1, <3>1 DEF Event
        <3>3. {r.key : r \in Head(queue).runs} \subseteq sessions
            BY <1>3, <3>1, <3>2 DEF Carries
        <3> QED
            BY <2>1, <3>3 DEF HandlePreparationFailed
    <2>2. CASE HandleFinished
        <3>1. Head(queue).type = "Finished"
            BY <2>2 DEF HandleFinished
        <3>2. Head(queue).run \in Run
            BY <1>1, <3>1 DEF Event
        <3>3. {Head(queue).run.key} \subseteq sessions
            BY <1>3, <3>1, <3>2 DEF Carries
        <3> QED
            BY <2>2, <3>3 DEF HandleFinished
    <2> QED
        BY <2>1, <2>2
<1>5. K \in SUBSET Key
    BY <1>4 DEF TypeOK
<1>6. Contract!Release(K)
    BY <1>1, <1>4 DEF Contract!Release, DrainKeyState
<1> QED
    BY <1>5, <1>6

LEMMA ContractStep ==
    ASSUME TypeOK, DutyInv, OrderInv, [Next]_vars
    PROVE  [Contract!Next]_(Contract!vars)
<1> USE DEF mapVars
<1>1. CASE \E i \in Issues, s \in IssueStates : TryRunIssue(i, s)
    BY <1>1, DispatchIsAccept DEF Contract!Next
<1>2. CASE HandlePreparationFailed \/ HandleFinished
    BY <1>2, DrainIsRelease DEF Contract!Next
<1>3. CASE CancelAll
    BY <1>3 DEF CancelAll, Contract!Next, Contract!CancelAll
<1>4. CASE UNCHANGED <<sessions, shutdown>>
    BY <1>4 DEF Contract!vars
<1>5. ASSUME HandlePrepared \/ HandleStarted \/ HandleStateUpdated
      PROVE  UNCHANGED <<sessions, shutdown>>
    BY <1>5 DEF HandlePrepared, HandleStarted, HandleStateUpdated
<1>6. ASSUME NEW r \in Run, LaunchTask(r) \/ AfterTask(r) PROVE UNCHANGED <<sessions, shutdown>>
    BY <1>6 DEF LaunchTask, SpawnStage, LaunchFails, ReportAborted, ReportStarted,
                ProxyState, ProxyEnds, ProxyReportsLost, AfterTask, AfterRunEnds, ReportFinished
<1>7. ASSUME NEW r \in Run, SessionTask(r) \/ AgentExits(r) \/ SessionPanics(r)
      PROVE  UNCHANGED <<sessions, shutdown>>
    BY <1>7 DEF SessionTask, SessionPrepares, SessionSpawnsAgent, SessionStopsEarly,
                SessionRuns, SessionTerminates, SessionEnds, AgentExits, SessionPanics
<1>8. ASSUME NEW n \in RunNo, PrepareTask(n) PROVE UNCHANGED <<sessions, shutdown>>
    BY <1>8 DEF PrepareTask, PrepareEnds, PrepareDropped, PrepareReports
<1> QED
    BY <1>1, <1>2, <1>3, <1>4, <1>5, <1>6, <1>7, <1>8 DEF Next, Stopped, HandleEvent, vars

\* ImplementsManager: the manager takes no step but those of the contract.  It
\* reserves free keys of one issue, gives back only what it reserved, and
\* does neither once cancel_all has run (session_manager.rs).
THEOREM ContractKept == Spec => ImplementsManager
<1>1. Init => Contract!Init
    BY DEF Init, Contract!Init
<1>2. TypeOK /\ DutyInv /\ OrderInv /\ [Next]_vars => [Contract!Next]_(Contract!vars)
    BY ContractStep
<1> QED
    BY <1>1, <1>2, TypeCorrect, DutyInvariant, OrderInvariant, PTL
    DEF Spec, ImplementsManager, Contract!Spec

=============================================================================
