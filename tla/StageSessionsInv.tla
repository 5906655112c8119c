-------------------------- MODULE StageSessionsInv --------------------------
(***************************************************************************)
(* The inductive invariants behind the properties of StageSessions.        *)
(* DutyInv: where the duty to drain a key can be, and that it is never in  *)
(* two places.  OrderInv: in which order a run's reports reach the manager *)
(* and what the manager has saved of it by then.                           *)
(***************************************************************************)
EXTENDS StageSessions

CarriesPrep(e, r) == e.type \in {"Prepared", "PreparationFailed"} /\ r \in e.runs
CarriesTerm(e, r) == e.type = "StateUpdated" /\ e.state \in Terminal /\ r = e.run

Queued(r)     == \E j \in DOMAIN queue : Carries(queue[j], r)
QueuedPrep(r) == \E j \in DOMAIN queue : CarriesPrep(queue[j], r)
QueuedTerm(r) == \E j \in DOMAIN queue : CarriesTerm(queue[j], r)
QueuedOnce(r) ==
    \A j1, j2 \in DOMAIN queue : Carries(queue[j1], r) /\ Carries(queue[j2], r) => j1 = j2

PrepareDuty(r) == /\ prepare[r.n] \in {"preparing", "ready", "failed"}
                  /\ r.key \in reserved[r.n]
LaunchDuty(r)  == task[r] \in {"before_run", "aborting", "spawned", "proxy"}
AfterDuty(r)   == after[r] \in {"hook", "finishing"}
HasDuty(r)     == PrepareDuty(r) \/ LaunchDuty(r) \/ AfterDuty(r) \/ Queued(r)

Holder(k) == [key |-> k, n |-> stages[k]]

\* Runs that were never dispatched, or whose preparation has not reported.
Untouched(r) == task[r] = "none" /\ after[r] = "none" /\ ~Queued(r)

FreshNumbers ==
    \A n \in RunNo : n > issueRuns => reserved[n] = {} /\ prepare[n] = "none"

UntouchedBeforeReport ==
    \A r \in Run :
        r.key \notin reserved[r.n] \/ prepare[r.n] # "done" => Untouched(r)

\* One duty at a time, and which pcs go with it.
DutyPlaces ==
    \A r \in Run :
        /\ QueuedPrep(r) => task[r] = "none" /\ after[r] = "none"
        /\ QueuedTerm(r) => after[r] = "none"
        /\ LaunchDuty(r) => after[r] = "none" /\ ~Queued(r)
        /\ AfterDuty(r) => ~Queued(r) /\ ~LaunchDuty(r)
        /\ QueuedOnce(r)

DutyHoldsKey == \A r \in Run : HasDuty(r) => stages[r.key] = r.n

KeyHasDuty == \A k \in Key : stages[k] # 0 /\ ~shutdown => HasDuty(Holder(k))

MapsAgree ==
    /\ sessions = {k \in Key : stages[k] # 0}
    /\ \A k \in finishing : stages[k] # 0 /\ after[Holder(k)] # "none"

\* A session's terminal state is the last it sends, so a proxy that has
\* forwarded it has nothing left to forward.
TerminalIsLast ==
    \A r \in Run :
        /\ \A j \in DOMAIN unread[r] :
              unread[r][j] \in Terminal => j = Len(unread[r]) /\ state[r] \in Terminal
        /\ task[r] = "proxied" => unread[r] = <<>> /\ state[r] \in Terminal

\* The conjunction is inductive: an event carries a key only, so a handler
\* acts on the right stage because at most one duty for the key exists, and
\* it exists because no task ends without passing it on.
DutyInv ==
    /\ FreshNumbers
    /\ UntouchedBeforeReport
    /\ DutyPlaces
    /\ DutyHoldsKey
    /\ KeyHasDuty
    /\ MapsAgree
    /\ TerminalIsLast

-----------------------------------------------------------------------------
(* The order of a run's reports.                                           *)

Started(e, r)  == e.type = "Started" /\ r = e.run
Finished(e, r) == e.type = "Finished" /\ r = e.run
Running(e, r)  == e.type = "StateUpdated" /\ e.state \notin Terminal /\ r = e.run

StartQueued(r) == \E j \in DOMAIN queue : Started(queue[j], r)
EndQueued(r)   == \E j \in DOMAIN queue : Finished(queue[j], r)

\* The manager has the command sender of r, or the event that brings it.
Announced(r) == senders[r.key] = r.n \/ StartQueued(r)

\* A preparation task works for, and reports, some stages of one issue.
Batch(R) == R # {} /\ \A r1, r2 \in R : r1.key.issue = r2.key.issue

BatchesOnly ==
    /\ \A n \in RunNo : prepare[n] \in {"preparing", "ready", "failed"} => Batch(RunsOf(n))
    /\ \A j \in DOMAIN queue :
          queue[j].type \in {"Prepared", "PreparationFailed"} => Batch(queue[j].runs)

AnnouncedBySpawn ==
    \A r \in Run : task[r] \in {"none", "before_run", "aborting", "spawned"} => ~Announced(r)

\* Finished comes from after_run, or from a launch task that never announced
\* its session.
FinishedAtTheEnd ==
    \A r \in Run : /\ AfterDuty(r) => r.key \in finishing
                   /\ EndQueued(r) => r.key \in finishing \/ ~Announced(r)

\* Reports that drain nothing are followed by the proxy's terminal one.
ReportsBeforeVerdict ==
    \A r \in Run, j \in DOMAIN queue :
        Started(queue[j], r) \/ Running(queue[j], r) =>
            \/ task[r] = "proxy"
            \/ \E i \in DOMAIN queue : i > j /\ CarriesTerm(queue[i], r)

VerdictAfterStart ==
    \A r \in Run :
        /\ task[r] = "proxy" => Announced(r)
        /\ \A j \in DOMAIN queue : CarriesTerm(queue[j], r) =>
              \/ senders[r.key] = r.n
              \/ \E i \in DOMAIN queue : i < j /\ Started(queue[i], r)

\* What the proxy forwards as the end of a session is its end.
VerdictIsTrue ==
    \A r \in Run :
        /\ \A j \in DOMAIN unread[r] : unread[r][j] \in Terminal => unread[r][j] = state[r]
        /\ \A j \in DOMAIN queue :
              CarriesTerm(queue[j], r) => queue[j].state = state[r] \/ ended[r]

OrderInv ==
    /\ BatchesOnly
    /\ SendersAreCurrent
    /\ AnnouncedBySpawn
    /\ FinishedAtTheEnd
    /\ ReportsBeforeVerdict
    /\ VerdictAfterStart
    /\ VerdictIsTrue

=============================================================================
