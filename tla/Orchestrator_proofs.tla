------------------------ MODULE Orchestrator_proofs ------------------------
(***************************************************************************)
(* Facts about the orchestrator loop for every set of issues and stages,   *)
(* whatever the pulls return, and for every capacity of the event channel. *)
(***************************************************************************)
EXTENDS Orchestrator, FiniteSetTheorems, TLAPS

LEMMA TypeInit == Init => TypeOK
<1> SUFFICES ASSUME Init PROVE TypeOK
    OBVIOUS
<1>1. iterations \in 0 .. MaxIterations /\ pos \in 0 .. Len(batch)
    BY IterationsAssumption DEF Init
<1>2. queue \in Seq(Event) /\ Len(queue) <= EventCapacity
    BY EventCapacityAssumption DEF Init
<1> QED
    BY <1>1, <1>2 DEF Init, Manager!Init, TypeOK, Returned

\* Sending keeps the channel's type and its bound.
LEMMA SendType ==
    ASSUME queue \in Seq(Event), Len(queue) <= EventCapacity, NEW e \in Event, Send(e)
    PROVE  queue' \in Seq(Event) /\ Len(queue') <= EventCapacity
<1>1. CASE loop \in Returned
    BY <1>1 DEF Send
<1>2. CASE loop \notin Returned
    BY <1>2, EventCapacityAssumption DEF Send
<1> QED
    BY <1>1, <1>2

LEMMA TypeIntake ==
    ASSUME TypeOK, Intake \/ IntakeDies \/ KillPull
    PROVE  TypeOK'
<1> USE DEF TypeOK, Go, outside, pullVars, childVars, loopVars, mgrVars, Returned
<1>1. CASE Render
    BY <1>1 DEF Render
<1>2. CASE ReportBroken
    <2>1. queue' \in Seq(Event) /\ Len(queue') <= EventCapacity
        BY <1>2, SendType DEF ReportBroken, Event
    <2> QED
        BY <1>2, <2>1 DEF ReportBroken
<1>3. CASE Check
    <2>1. iterations' \in 0 .. MaxIterations
        BY <1>3, IterationsAssumption DEF Check
    <2>2. intake' \in {"stopping", "pulling", "failing"}
        BY <1>3 DEF Check
    <2>3. child' \in {"none", "alive", "gone"} /\ killed' \in BOOLEAN
        BY <1>3 DEF Check
    <2>4. UNCHANGED <<shutdown, batch, pos, seen, queue, loop, intakeStopped, intakeClosed,
                      active, ready, cancelled, runtime, afterShutdown>>
        BY <1>3 DEF Check
    <2> QED
        BY <2>1, <2>2, <2>3, <2>4
<1>4. CASE PullEnds
    <2>1. pos' \in 0 .. Len(batch') /\ batch' \in Batches \cup {<<>>}
        BY <1>4, BatchesAssumption DEF PullEnds
    <2>2. seen' \subseteq Issues
        BY <1>4 DEF PullEnds
    <2> QED
        BY <1>4, <2>1, <2>2 DEF PullEnds
<1>4a. CASE PullExits \/ PullTimesOut
    BY <1>4a DEF PullExits, PullTimesOut
<1>5. CASE PullCancelled
    BY <1>5 DEF PullCancelled
<1>5a. CASE CancelledPullReaped
    BY <1>5a DEF CancelledPullReaped
<1>6. CASE Emit
    <2> DEFINE issue == batch[pos + 1]
    <2>1. Len(batch) \in Nat /\ pos \in Nat /\ pos + 1 \in 1 .. Len(batch)
        BY <1>6, BatchesAssumption DEF Emit
    <2>2. issue.id \in Issues /\ issue \in Pulled
        BY <2>1, BatchesAssumption DEF Pulled
    <2>3. queue' \in Seq(Event) /\ Len(queue') <= EventCapacity
        <3>1. [type |-> "Issue", issue |-> issue] \in Event
            BY <2>2 DEF Event
        <3> QED
            BY <1>6, <3>1, SendType DEF Emit
    <2>4. seen' \subseteq Issues
        BY <1>6, <2>2 DEF Emit
    <2>5. pos' \in 0 .. Len(batch')
        BY <1>6, <2>1 DEF Emit
    <2> QED
        BY <1>6, <2>3, <2>4, <2>5 DEF Emit
<1>7. CASE EmitEnds
    BY <1>7 DEF EmitEnds
<1>7a. CASE Idle
    BY <1>7a DEF Idle
<1>8. CASE ReportFailed
    <2>1. queue' \in Seq(Event) /\ Len(queue') <= EventCapacity
        BY <1>8, SendType DEF ReportFailed, Event
    <2> QED
        BY <1>8, <2>1 DEF ReportFailed
<1>9. CASE Stop
    <2>1. queue' \in Seq(Event) /\ Len(queue') <= EventCapacity
        BY <1>9, SendType DEF Stop, Event
    <2> QED
        BY <1>9, <2>1 DEF Stop
<1>10. CASE IntakeDies \/ KillPull
    BY <1>10 DEF IntakeDies, KillPull
<1> QED
    BY <1>1, <1>2, <1>3, <1>4, <1>4a, <1>5, <1>5a, <1>6, <1>7, <1>7a, <1>8, <1>9, <1>10
    DEF Intake, Timely

LEMMA TypeLoop ==
    ASSUME TypeOK, Loop
    PROVE  TypeOK'
<1> USE DEF TypeOK, intakeVars, pullVars, childVars, loopVars, mgrVars, Returned
<1>1. CASE Top
    BY <1>1 DEF Top
<1>1a. CASE NoEvent
    BY <1>1a DEF NoEvent
<1>1b. CASE Wake
    BY <1>1b DEF Wake
<1>2. CASE PollShutdown
    <2>1. loop' \in {"cancelled", "intake?"}
        BY <1>2 DEF PollShutdown
    <2>2. active' = active /\ cancelled' \in BOOLEAN
        BY <1>2 DEF PollShutdown, Manager!CancelAll
    <2>3. UNCHANGED <<shutdown, intake, iterations, batch, pos, seen, child, killed, queue,
                      intakeStopped, intakeClosed, ready, runtime, afterShutdown>>
        BY <1>2 DEF PollShutdown
    <2> QED
        BY <2>1, <2>2, <2>3
<1>3. CASE AbortIntake
    BY <1>3 DEF AbortIntake
<1>4. CASE HandleEvent
    <2> DEFINE event == Head(queue)
    <2>1. event \in Event /\ queue' \in Seq(Event) /\ Len(queue') <= EventCapacity
        BY <1>4, EventCapacityAssumption DEF HandleEvent
    <2>2. active' \subseteq Key /\ active \subseteq active' /\ cancelled' \in BOOLEAN
        <3>1. CASE event.type = "Issue"
            <4>1. event.issue \in Pulled
                BY <2>1, <3>1 DEF Event
            <4>2. event.issue.id \in Issues
                BY <4>1, BatchesAssumption DEF Pulled
            <4> QED
                BY <1>4, <3>1, <4>2 DEF HandleEvent, Manager!Accept, Key
        <3>2. CASE event.type # "Issue"
            BY <1>4, <3>2 DEF HandleEvent
        <3> QED
            BY <3>1, <3>2
    <2>3. afterShutdown' \in Nat
        BY <1>4 DEF HandleEvent, Counted
    <2>4. intakeStopped' \in BOOLEAN
        BY <1>4 DEF HandleEvent
    <2> QED
        BY <1>4, <2>1, <2>2, <2>3, <2>4 DEF HandleEvent
<1>5. CASE ChannelClosed
    BY <1>5 DEF ChannelClosed
<1>6. CASE HandleSession
    <2>1. afterShutdown' \in Nat
        BY <1>6 DEF HandleSession, Counted
    <2>2. active' \subseteq Key /\ ready' \subseteq active' /\ cancelled' \in BOOLEAN
        BY <1>6 DEF HandleSession, Manager!Release
    <2> QED
        BY <1>6, <2>1, <2>2 DEF HandleSession
<1> QED
    BY <1>1, <1>1a, <1>1b, <1>2, <1>3, <1>4, <1>5, <1>6 DEF Loop

LEMMA TypeOutside ==
    ASSUME TypeOK, (\E k \in Key : StageEnds(k)) \/ ShutDown \/ RuntimeDropped \/ UNCHANGED vars
    PROVE  TypeOK'
<1> USE DEF TypeOK, vars, intakeVars, pullVars, childVars, loopVars, mgrVars, Returned
<1>1. CASE \E k \in Key : StageEnds(k)
    BY <1>1 DEF StageEnds
<1>2. CASE ShutDown
    BY <1>2 DEF ShutDown
<1>3. CASE RuntimeDropped
    BY <1>3 DEF RuntimeDropped
<1>4. CASE UNCHANGED vars
    BY <1>4
<1> QED
    BY <1>1, <1>2, <1>3, <1>4

\* The event channel never holds more than EVENT_BUFFER events, and every
\* reserved key is a stage of a pulled issue.
THEOREM TypeAlways == Spec => []TypeOK
<1>1. TypeOK /\ [Next]_vars => TypeOK'
    BY TypeIntake, TypeLoop, TypeOutside DEF Next, Done
<1> QED
    BY <1>1, TypeInit, PTL DEF Spec

-----------------------------------------------------------------------------

LEMMA OrchInit == Init => OrchInv
BY DEF Init, Manager!Init, OrchInv, Idling, Ended, Returned, ReturnsDrained, ErrorMeansBrokenOff

\* What sending adds to the channel: the event, at its end, or nothing once
\* the receiver is gone.
LEMMA SendAppends ==
    ASSUME queue \in Seq(Event), NEW e \in Event, Send(e), loop \notin Returned
    PROVE  /\ queue' \in Seq(Event) /\ Len(queue') = Len(queue) + 1
           /\ queue'[Len(queue')] = e
           /\ \A j \in DOMAIN queue' : j # Len(queue') => j \in DOMAIN queue /\ queue'[j] = queue[j]
           /\ \A j \in DOMAIN queue : j \in DOMAIN queue' /\ queue'[j] = queue[j]
BY DEF Send

LEMMA OrchIntake ==
    ASSUME TypeOK, OrchInv, Intake \/ IntakeDies \/ KillPull
    PROVE  OrchInv'
<1> USE DEF OrchInv, Idling, Ended, Returned, ReturnsDrained, ErrorMeansBrokenOff, Go, outside,
        pullVars, childVars, loopVars, mgrVars
<1>1. CASE \/ Render \/ Check \/ PullExits \/ PullTimesOut \/ PullEnds \/ PullCancelled
           \/ CancelledPullReaped \/ EmitEnds \/ Idle
    BY <1>1 DEF TypeOK, Render, Check, PullExits, PullTimesOut, PullEnds, PullCancelled,
           CancelledPullReaped, EmitEnds, Idle
<1>2. CASE ReportBroken
    <2> DEFINE e == [type |-> "Failed"]
    <2>1. e \in Event /\ e.type = "Failed" /\ Send(e)
        BY <1>2 DEF ReportBroken, Event
    <2>2. CASE loop \in Returned
        BY <1>2, <2>1, <2>2 DEF ReportBroken, Send
    <2>3. CASE loop \notin Returned
        <3>1. \A j \in DOMAIN queue' : queue'[j].type \notin {"Issue", "Stopped"}
            <4> SUFFICES ASSUME NEW j \in DOMAIN queue' PROVE queue'[j].type \notin {"Issue", "Stopped"}
                OBVIOUS
            <4>1. queue'[Len(queue')] = e /\ (j # Len(queue') => j \in DOMAIN queue /\ queue'[j] = queue[j])
                BY <2>1, <2>3, SendAppends DEF TypeOK
            <4>2. \A i \in DOMAIN queue : queue[i].type \notin {"Issue", "Stopped"}
                BY <1>2 DEF ReportBroken
            <4> QED
                BY <2>1, <4>1, <4>2
        <3> QED
            BY <1>2, <2>3, <3>1 DEF TypeOK, ReportBroken
    <2> QED
        BY <2>2, <2>3
<1>3. ASSUME intake \notin Ended, intake' \notin Ended, intake \notin {"render", "broken"},
             intake' \notin {"render", "broken"}, queue' \in Seq(Event),
             \A j \in DOMAIN queue' : queue'[j].type # "Stopped",
             loop \in Returned => UNCHANGED queue,
             child # "alive", UNCHANGED <<childVars, outside>>
      PROVE  OrchInv'
    BY <1>3
<1>4. ASSUME intake \notin Ended, NEW e \in Event, e.type # "Stopped", Send(e)
      PROVE  /\ queue' \in Seq(Event)
             /\ \A j \in DOMAIN queue' : queue'[j].type # "Stopped"
             /\ loop \in Returned => UNCHANGED queue
    <2>1. \A j \in DOMAIN queue : queue[j].type # "Stopped"
        BY <1>4
    <2>2. CASE loop \in Returned
        BY <1>4, <2>1, <2>2 DEF TypeOK, Send
    <2>3. CASE loop \notin Returned
        BY <1>4, <2>1, <2>3, SendAppends DEF TypeOK
    <2> QED
        BY <2>2, <2>3
<1>5. CASE Emit
    <2> DEFINE issue == batch[pos + 1]
    <2>1. issue \in Pulled
        BY <1>5, BatchesAssumption DEF TypeOK, Emit, Pulled
    <2>2. [type |-> "Issue", issue |-> issue] \in Event
        BY <2>1 DEF Event
    <2>3. /\ queue' \in Seq(Event)
          /\ \A j \in DOMAIN queue' : queue'[j].type # "Stopped"
          /\ loop \in Returned => UNCHANGED queue
        <3>1. CASE issue.id \in seen
            BY <1>5, <3>1 DEF TypeOK, Emit
        <3>2. CASE issue.id \notin seen
            BY <1>4, <1>5, <2>2, <3>2 DEF Emit
        <3> QED
            BY <3>1, <3>2
    <2> QED
        BY <1>3, <1>5, <2>3 DEF Emit
<1>6. CASE ReportFailed
    <2>1. [type |-> "Failed"] \in Event
        BY DEF Event
    <2> QED
        BY <1>3, <1>4, <1>6, <2>1 DEF ReportFailed
<1>7. CASE Stop
    <2> DEFINE e == [type |-> "Stopped"]
    <2>1. e \in Event /\ e.type = "Stopped" /\ Send(e)
        BY <1>7 DEF Stop, Event
    <2>2. CASE loop \in Returned
        BY <1>7, <2>1, <2>2 DEF Stop, Send
    <2>3. CASE loop \notin Returned
        <3>1. Len(queue') \in DOMAIN queue' /\ queue'[Len(queue')].type = "Stopped"
            BY <2>1, <2>3, SendAppends DEF TypeOK
        <3>2. \A j \in DOMAIN queue' : queue'[j].type = "Stopped" => j = Len(queue')
            BY <1>7, <2>1, <2>3, SendAppends DEF TypeOK, Stop
        <3>3. ~intakeStopped /\ ~intakeClosed
            BY <1>7 DEF Stop
        <3> QED
            BY <1>7, <2>3, <3>1, <3>2, <3>3 DEF TypeOK, Stop
    <2> QED
        BY <2>2, <2>3
<1>8. CASE IntakeDies \/ KillPull
    BY <1>8 DEF TypeOK, IntakeDies, KillPull
<1> QED
    BY <1>1, <1>2, <1>5, <1>6, <1>7, <1>8 DEF Intake, Timely

LEMMA OrchLoop ==
    ASSUME TypeOK, OrchInv, Loop
    PROVE  OrchInv'
<1> USE DEF OrchInv, Idling, Ended, Returned, ReturnsDrained, ErrorMeansBrokenOff,
        intakeVars, pullVars, childVars, loopVars, mgrVars
<1>1. CASE Top \/ NoEvent \/ Wake
    BY <1>1 DEF TypeOK, Top, NoEvent, Wake
<1>2. CASE PollShutdown
    BY <1>2 DEF TypeOK, PollShutdown, Manager!CancelAll
<1>3. CASE AbortIntake
    BY <1>3 DEF TypeOK, AbortIntake
<1>4. CASE HandleEvent
    <2> DEFINE event == Head(queue)
    <2>1. /\ event \in Event /\ event = queue[1]
          /\ queue' \in Seq(Event) /\ Len(queue') = Len(queue) - 1
          /\ \A j \in DOMAIN queue' : j + 1 \in DOMAIN queue /\ queue'[j] = queue[j + 1]
          /\ \A j \in DOMAIN queue : j # 1 => j - 1 \in DOMAIN queue' /\ queue'[j - 1] = queue[j]
        <3>1. queue \in Seq(Event) /\ queue # <<>> /\ queue' = Tail(queue)
            BY <1>4 DEF TypeOK, HandleEvent
        <3> HIDE DEF OrchInv
        <3>2. event \in Event /\ event = queue[1]
            BY <3>1
        <3>3. queue' \in Seq(Event) /\ Len(queue') = Len(queue) - 1
            BY <3>1
        <3>4. \A j \in DOMAIN queue' : j + 1 \in DOMAIN queue /\ queue'[j] = queue[j + 1]
            BY <3>1
        <3>5. \A j \in DOMAIN queue : j # 1 => j - 1 \in DOMAIN queue' /\ queue'[j - 1] = queue[j]
            BY <3>1
        <3> QED
            BY <3>2, <3>3, <3>4, <3>5
    <2>2. \A j \in DOMAIN queue' : queue'[j].type = "Stopped" => intake' = "ended" /\ j = Len(queue')
        BY <1>4, <2>1 DEF TypeOK, HandleEvent
    <2>3. intakeStopped' => intake' = "ended" /\ queue' = <<>>
        <3>1. ~intakeStopped
            BY <1>4 DEF TypeOK, HandleEvent
        <3>2. CASE event.type = "Stopped"
            <4>1. Len(queue) = 1 /\ intake = "ended"
                BY <1>4, <2>1, <3>2 DEF TypeOK, HandleEvent
            <4> QED
                BY <1>4, <2>1, <4>1 DEF HandleEvent
        <3> QED
            BY <1>4, <3>1, <3>2 DEF TypeOK, HandleEvent
    <2>4. Idling => Idling'
        BY <1>4, <2>1 DEF TypeOK, HandleEvent
    <2>5. intake' \in {"render", "broken"} => Idling'
        BY <1>4, <2>4 DEF HandleEvent
    <2>6. intake' = "ended" =>
            intakeStopped' \/ Idling' \/ \E j \in DOMAIN queue' : queue'[j].type = "Stopped"
        <3> SUFFICES ASSUME intake = "ended"
                     PROVE  intakeStopped' \/ Idling' \/ \E j \in DOMAIN queue' : queue'[j].type = "Stopped"
            BY <1>4 DEF HandleEvent
        <3>1. intakeStopped \/ Idling \/ \E j \in DOMAIN queue : queue[j].type = "Stopped"
            BY <1>4 DEF HandleEvent
        <3>2. ASSUME NEW j \in DOMAIN queue, queue[j].type = "Stopped"
              PROVE  intakeStopped' \/ \E i \in DOMAIN queue' : queue'[i].type = "Stopped"
            BY <1>4, <2>1, <3>2 DEF TypeOK, HandleEvent
        <3>3. intakeStopped => intakeStopped'
            BY <1>4 DEF HandleEvent
        <3> QED
            BY <2>4, <3>1, <3>2, <3>3
    <2> QED
        BY <1>4, <2>2, <2>3, <2>5, <2>6 DEF TypeOK, HandleEvent
<1>5. CASE ChannelClosed
    BY <1>5 DEF TypeOK, ChannelClosed
<1>6. CASE HandleSession
    BY <1>6 DEF TypeOK, HandleSession, Manager!Release
<1> QED
    BY <1>1, <1>2, <1>3, <1>4, <1>5, <1>6 DEF Loop

LEMMA OrchOutside ==
    ASSUME TypeOK, OrchInv,
           (\E k \in Key : StageEnds(k)) \/ ShutDown \/ RuntimeDropped \/ UNCHANGED vars
    PROVE  OrchInv'
BY DEF OrchInv, Idling, Ended, Returned, ReturnsDrained, ErrorMeansBrokenOff, TypeOK,
    StageEnds, ShutDown, RuntimeDropped, vars, intakeVars, pullVars, childVars, loopVars, mgrVars

\* Where the word Stopped is, and what may still come before it.
THEOREM OrchInvAlways == Spec => []OrchInv
<1>1. TypeOK /\ OrchInv /\ [Next]_vars => OrchInv'
    BY OrchIntake, OrchLoop, OrchOutside DEF Next, Done
<1> QED
    BY <1>1, OrchInit, TypeAlways, PTL DEF Spec

\* ReturnsDrained: without shutdown the loop returns Ok only with intake over,
\* its events handled and every stage drained (orchestrator/mod.rs, run).
THEOREM ReturnIsDrained == Spec => []ReturnsDrained
<1>1. OrchInv => ReturnsDrained
    BY DEF OrchInv
<1> QED
    BY <1>1, OrchInvAlways, PTL

\* ErrorMeansBrokenOff: the loop returns the error only for an intake task
\* that died with stages active (orchestrator/mod.rs, run).
THEOREM ErrorIsBrokenOff == Spec => []ErrorMeansBrokenOff
<1>1. OrchInv => ErrorMeansBrokenOff
    BY DEF OrchInv
<1> QED
    BY <1>1, OrchInvAlways, PTL

\* StoppedMeansNoPull: once Stopped is sent no pull command runs (intake.rs).
THEOREM StoppedHasNoPull == Spec => []StoppedMeansNoPull
<1>1. TypeOK /\ OrchInv => StoppedMeansNoPull
    <2> SUFFICES ASSUME TypeOK, OrchInv,
                        intakeStopped \/ [type |-> "Stopped"] \in {queue[j] : j \in DOMAIN queue}
                 PROVE  child # "alive"
        BY DEF StoppedMeansNoPull
    <2>1. intake = "ended"
        BY DEF OrchInv
    <2> QED
        BY <2>1 DEF OrchInv
<1> QED
    BY <1>1, TypeAlways, OrchInvAlways, PTL

-----------------------------------------------------------------------------
(* Shutdown.                                                               *)

\* Once the loop has taken an event with the token cancelled it is on its way
\* to the poll of the token, which comes first.
ShutInv ==
    /\ ~shutdown => afterShutdown = 0
    /\ afterShutdown <= 1
    /\ afterShutdown = 1 => loop \in {"top", "shutdown?", "cancelled"} \cup Returned

LEMMA ShutLoop ==
    ASSUME TypeOK, OrchInv, ShutInv, Loop
    PROVE  ShutInv'
<1> USE DEF TypeOK, ShutInv, Returned, Counted
<1>1. CASE Top \/ PollShutdown
    <2>1. CASE Top
        <3>1. ~intakeStopped \/ active # {} => loop' = "shutdown?"
            BY <2>1 DEF Top
        <3> QED
            BY <2>1, <3>1 DEF Top
    <2>2. CASE PollShutdown
        BY <2>2 DEF PollShutdown
    <2> QED
        BY <1>1, <2>1, <2>2
<1>2. CASE AbortIntake
    BY <1>2 DEF AbortIntake
<1>3. CASE HandleEvent
    BY <1>3 DEF HandleEvent
<1>4. CASE ChannelClosed \/ NoEvent \/ Wake
    BY <1>4 DEF ChannelClosed, NoEvent, Wake
<1>5. CASE HandleSession
    BY <1>5 DEF HandleSession
<1> QED
    BY <1>1, <1>2, <1>3, <1>4, <1>5 DEF Loop

LEMMA ShutOthers ==
    ASSUME TypeOK, ShutInv, UNCHANGED <<loop, afterShutdown>>, shutdown => shutdown'
    PROVE  ShutInv'
BY DEF ShutInv, Returned

\* What is left alone by everyone but the loop.
LEMMA LoopAlone ==
    ASSUME Intake \/ IntakeDies \/ KillPull \/ (\E k \in Key : StageEnds(k)) \/ ShutDown
           \/ RuntimeDropped \/ UNCHANGED vars
    PROVE  /\ UNCHANGED <<loop, afterShutdown>>
           /\ shutdown => shutdown'
<1> USE DEF outside, loopVars, mgrVars
<1>1. CASE Intake
    BY <1>1 DEF Intake, Timely, Render, ReportBroken, Check, PullExits, PullTimesOut, PullEnds, PullCancelled,
           CancelledPullReaped, Emit, EmitEnds, ReportFailed, Idle, Stop
<1>2. CASE IntakeDies \/ KillPull
    BY <1>2 DEF IntakeDies, KillPull
<1>3. CASE (\E k \in Key : StageEnds(k)) \/ ShutDown \/ RuntimeDropped \/ UNCHANGED vars
    BY <1>3 DEF StageEnds, ShutDown, RuntimeDropped, vars
<1> QED
    BY <1>1, <1>2, <1>3

\* ShutdownComesFirst: with the token cancelled the loop takes at most the one
\* event it was polling for, however full its channels are (mod.rs, run).
THEOREM ShutdownIsFirst == Spec => []ShutdownComesFirst
<1>1. Init => ShutInv
    BY DEF Init, ShutInv
<1>2. TypeOK /\ OrchInv /\ ShutInv /\ [Next]_vars => ShutInv'
    BY ShutLoop, ShutOthers, LoopAlone DEF Next, Done
<1>3. ShutInv => ShutdownComesFirst
    BY DEF ShutInv, ShutdownComesFirst
<1> QED
    BY <1>1, <1>2, <1>3, TypeAlways, OrchInvAlways, PTL DEF Spec

-----------------------------------------------------------------------------
(* Deduplication.                                                          *)

\* The positions, up to p, of the first issue of each id.
Firsts(p) == {j \in 1 .. p : \A i \in 1 .. j - 1 : batch[i].id # batch[j].id}

LEMMA FirstsFinite ==
    ASSUME NEW p \in Nat, NEW q \in Nat
    PROVE  IsFiniteSet(Firsts(p)) /\ IsFiniteSet(Firsts(p) \cap 1 .. q)
<1>1. IsFiniteSet(1 .. p)
    BY FS_Interval
<1>2. Firsts(p) \subseteq 1 .. p /\ Firsts(p) \cap 1 .. q \subseteq 1 .. p
    BY DEF Firsts
<1> QED
    BY <1>1, <1>2, FS_Subset

\* What has been looked at is seen, and what was sent is the first of each
\* id, whatever the intake task is doing.
EmitInv ==
    /\ seen = {batch[j].id : j \in 1 .. pos}
    /\ emitted \in Seq(Pulled)
    /\ Len(emitted) = Cardinality(Firsts(pos))
    /\ \A j \in Firsts(pos) : emitted[Cardinality(Firsts(pos) \cap 1 .. j)] = batch[j]

LEMMA NothingEmitted ==
    ASSUME pos = 0, seen = {}, emitted = <<>>
    PROVE  EmitInv
<1>1. Firsts(0) = {}
    BY DEF Firsts
<1>2. Cardinality(Firsts(0)) = 0
    BY <1>1, FS_EmptySet
<1>3. {batch[j].id : j \in 1 .. 0} = {}
    OBVIOUS
<1> QED
    BY <1>1, <1>2, <1>3 DEF EmitInv

\* One more position is a first one, or it is not.
LEMMA FirstsGrow ==
    ASSUME NEW p \in Nat
    PROVE  Firsts(p + 1) = IF batch[p + 1].id \in {batch[j].id : j \in 1 .. p} THEN Firsts(p)
                           ELSE Firsts(p) \cup {p + 1}
<1>1. 1 .. p + 1 = (1 .. p) \cup {p + 1} /\ (p + 1) - 1 = p
    OBVIOUS
<1> QED
    BY <1>1 DEF Firsts

LEMMA EmitEmitInv ==
    ASSUME TypeOK, EmitInv, Emit
    PROVE  EmitInv'
<1> DEFINE issue == batch[pos + 1]
<1>1. /\ pos \in Nat /\ pos' = pos + 1 /\ pos + 1 \in 1 .. Len(batch)
      /\ batch' = batch
    BY BatchesAssumption DEF TypeOK, Emit
<1>2. issue \in Pulled
    BY <1>1, BatchesAssumption DEF TypeOK, Pulled
<1>3. Firsts(pos)' = Firsts(pos + 1)
    BY <1>1 DEF Firsts
<1>4. 1 .. pos + 1 = (1 .. pos) \cup {pos + 1}
    BY <1>1
<1>5. {batch[j].id : j \in 1 .. pos + 1} = seen \cup {issue.id}
    BY <1>4 DEF EmitInv
<1>6. CASE issue.id \in seen
    <2>1. UNCHANGED <<seen, emitted>>
        BY <1>6 DEF Emit
    <2>2. Firsts(pos + 1) = Firsts(pos)
        BY <1>1, <1>6, FirstsGrow DEF EmitInv
    <2>3. Firsts(pos)' = Firsts(pos) /\ seen' = {batch'[j].id : j \in 1 .. pos'}
        BY <1>1, <1>3, <1>5, <1>6, <2>1, <2>2
    <2> QED
        BY <1>1, <2>1, <2>3 DEF EmitInv
<1>7. CASE issue.id \notin seen
    <2>1. seen' = seen \cup {issue.id} /\ emitted' = Append(emitted, issue)
        BY <1>7 DEF Emit
    <2>2. Firsts(pos + 1) = Firsts(pos) \cup {pos + 1}
        <3>1. issue.id \notin {batch[j].id : j \in 1 .. pos}
            BY <1>7 DEF EmitInv
        <3> QED
            BY <1>1, <3>1, FirstsGrow
    <2>3. IsFiniteSet(Firsts(pos)) /\ pos + 1 \notin Firsts(pos)
        <3>1. pos + 1 \notin Firsts(pos)
            BY <1>1 DEF Firsts
        <3> QED
            BY <1>1, <3>1, FirstsFinite
    <2>4. Cardinality(Firsts(pos + 1)) = Cardinality(Firsts(pos)) + 1
        BY <2>2, <2>3, FS_AddElement
    <2>5. /\ emitted' \in Seq(Pulled) /\ Len(emitted') = Cardinality(Firsts(pos + 1))
          /\ emitted'[Cardinality(Firsts(pos + 1))] = issue
          /\ \A n \in 1 .. Len(emitted) : emitted'[n] = emitted[n]
        BY <1>2, <2>1, <2>4 DEF EmitInv
    <2>6. ASSUME NEW j \in Firsts(pos + 1)
          PROVE  emitted'[Cardinality(Firsts(pos + 1) \cap 1 .. j)] = batch[j]
        <3>1. CASE j = pos + 1
            <4>1. Firsts(pos + 1) \cap 1 .. j = Firsts(pos + 1)
                BY <1>1, <3>1 DEF Firsts
            <4> QED
                BY <2>5, <3>1, <4>1
        <3>2. CASE j # pos + 1
            <4>1. j \in Firsts(pos) /\ j \in 1 .. pos
                BY <2>2, <3>2 DEF Firsts
            <4>2. Firsts(pos + 1) \cap 1 .. j = Firsts(pos) \cap 1 .. j
                BY <1>1, <2>2, <4>1
            <4>3. /\ IsFiniteSet(Firsts(pos) \cap 1 .. j)
                  /\ Cardinality(Firsts(pos) \cap 1 .. j) \in Nat
                BY <1>1, <4>1, FirstsFinite, FS_CardinalityType
            <4>4. Cardinality(Firsts(pos) \cap 1 .. j) <= Cardinality(Firsts(pos))
                BY <2>3, FS_Subset
            <4>5. Cardinality(Firsts(pos) \cap 1 .. j) # 0
                <5>1. j \in Firsts(pos) \cap 1 .. j
                    BY <1>1, <4>1
                <5> QED
                    BY <4>3, <5>1, FS_EmptySet
            <4>6. Cardinality(Firsts(pos) \cap 1 .. j) \in 1 .. Len(emitted)
                BY <4>3, <4>4, <4>5 DEF EmitInv
            <4> QED
                BY <2>5, <4>1, <4>2, <4>6 DEF EmitInv
        <3> QED
            BY <3>1, <3>2
    <2>7. seen' = {batch'[j].id : j \in 1 .. pos'}
        BY <1>1, <1>5, <2>1
    <2> QED
        BY <1>1, <1>3, <2>5, <2>6, <2>7 DEF EmitInv
<1> QED
    BY <1>6, <1>7

LEMMA EmitInvNext ==
    ASSUME TypeOK, EmitInv, [Next]_vars
    PROVE  EmitInv'
<1> USE DEF outside, pullVars, intakeVars
<1>1. CASE Emit
    BY <1>1, EmitEmitInv
<1>2. CASE pos' = 0 /\ seen' = {} /\ emitted' = <<>>
    <2>1. Firsts(pos)' = {}
        BY <1>2 DEF Firsts
    <2>2. {batch'[j].id : j \in 1 .. pos'} = {}
        BY <1>2
    <2>3. Cardinality(Firsts(pos))' = 0
        BY <2>1, FS_EmptySet
    <2>4. emitted' \in Seq(Pulled) /\ Len(emitted') = 0
        BY <1>2
    <2> QED
        BY <1>2, <2>1, <2>2, <2>3, <2>4 DEF EmitInv
<1>3. CASE UNCHANGED <<batch, pos, seen, emitted>>
    <2>1. Firsts(pos)' = Firsts(pos)
        BY <1>3 DEF Firsts
    <2> QED
        BY <1>3, <2>1 DEF EmitInv
<1>4. CASE Intake /\ ~Emit
    <2>1. CASE PullEnds
        BY <1>2, <1>3, <2>1 DEF PullEnds
    <2>2. CASE ~PullEnds
        <3>1. UNCHANGED <<batch, pos, seen, emitted>>
            BY <1>4, <2>2 DEF Intake, Timely, Render, ReportBroken, Check, PullExits, PullTimesOut, PullCancelled,
               CancelledPullReaped, EmitEnds, ReportFailed, Idle, Stop
        <3> QED
            BY <1>3, <3>1
    <2> QED
        BY <2>1, <2>2
<1>5. CASE IntakeDies \/ KillPull \/ Loop
    <2>1. UNCHANGED <<batch, pos, seen, emitted>>
        BY <1>5 DEF IntakeDies, KillPull, Loop, Top, PollShutdown, AbortIntake, HandleEvent,
           ChannelClosed, NoEvent, HandleSession, Wake
    <2> QED
        BY <1>3, <2>1
<1>6. CASE (\E k \in Key : StageEnds(k)) \/ ShutDown \/ RuntimeDropped \/ UNCHANGED vars
    BY <1>3, <1>6 DEF StageEnds, ShutDown, RuntimeDropped, vars
<1> QED
    BY <1>1, <1>4, <1>5, <1>6 DEF Next, Done

\* FirstIssueWins: of equal ids in one pull exactly the first is sent, in the
\* order of the pull, for every batch (intake.rs, run_once).
THEOREM FirstIsSent == Spec => []FirstIssueWins
<1>1. Init => EmitInv
    <2> SUFFICES ASSUME Init PROVE EmitInv
        OBVIOUS
    <2>1. Firsts(pos) = {} /\ {batch[j].id : j \in 1 .. pos} = {}
        BY DEF Init, Firsts
    <2> QED
        BY <2>1, FS_EmptySet DEF Init, EmitInv
<1>2. EmitInv => FirstIssueWins
    BY DEF EmitInv, Firsts, FirstIssueWins
<1> QED
    BY <1>1, <1>2, EmitInvNext, TypeAlways, PTL DEF Spec

=============================================================================
