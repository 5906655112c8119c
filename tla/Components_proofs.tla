-------------------------- MODULE Components_proofs --------------------------
(***************************************************************************)
(* Proofs about the components around the core, as parts of MCComponents.  *)
(* A behaviour stays in its part, so each invariant is one of its part.    *)
(* The parts "events" and "prompt" are in ComponentsData_proofs.           *)
(***************************************************************************)
EXTENDS ComponentsData_proofs

-----------------------------------------------------------------------------
(* Part "races": any commands at any time.                                 *)

RacesPlaces ==
    {"read", "probe", "signal", "wait", "remove", "running", "stale", "fork"}
        \cup Races!Booting \cup Races!Serving \cup Races!Closing \cup Races!Idle

RacesRecords ==
    [pc : RacesPlaces, verb : Races!Verbs \cup {"none"}, target : Pids \cup {Races!NoPid},
     pending : SUBSET {"INT", "TERM"}, token : BOOLEAN]

\* The record names a daemon that serves, or one that died in office or left
\* it without removing the record.
RacesOffice == {"serving", "cleanup", "leaving", "left", "died"}

RacesInv ==
    /\ Races!TypeOK
    /\ x2 \in Pids => Races!pc(x2) \in RacesOffice

LEMMA RacesInit ==
    ASSUME Races!Init PROVE RacesInv
BY PidAssumption DEF Races!Init, RacesInv, Races!TypeOK, Races!Process, Races!NoPid, Races!Idle,
   Races!Over, Races!Verbs, Races!Booting, Races!Serving, Races!Closing

LEMMA RacesType ==
    Races!TypeOK <=> x1 \in [Pids -> RacesRecords] /\ x2 \in Pids \cup {Races!NoPid}
BY DEF Races!TypeOK, RacesRecords, RacesPlaces

LEMMA RacesTypeNext ==
    Races!TypeOK' <=> x1' \in [Pids -> RacesRecords] /\ x2' \in Pids \cup {Races!NoPid}
BY DEF Races!TypeOK, RacesRecords, RacesPlaces

\* What becomes of a process is a process.
LEMMA RacesProcess ==
    ASSUME NEW w \in RacesPlaces, NEW v \in Races!Verbs \cup {"none"}
    PROVE  Races!Process(w, v) \in RacesRecords /\ Races!Process(w, v).pc = w
BY DEF Races!Process, RacesRecords

LEMMA RacesMoved ==
    ASSUME NEW r \in RacesRecords, NEW w \in RacesPlaces
    PROVE  Races!Moved(r, w) \in RacesRecords /\ Races!Moved(r, w).pc = w
BY DEF Races!Process, Races!Moved, RacesRecords

\* A signal changes no place but to end the process, and none of a daemon
\* that has its handlers.
LEMMA RacesSignalled ==
    ASSUME RacesInv, NEW q \in Pids, NEW s \in {"INT", "TERM"}
    PROVE  /\ Races!Signalled(q, s) \in RacesRecords
           /\ Races!pc(q) \in RacesOffice => Races!Signalled(q, s).pc = Races!pc(q)
<1>1. x1[q] \in RacesRecords
    BY RacesType DEF RacesInv
<1>2. "exited" \in RacesPlaces
    BY DEF RacesPlaces, Races!Idle, Races!Over
<1>3. CASE Races!Handling(q)
    BY <1>1, <1>3 DEF Races!Signalled, RacesRecords, Races!pc
<1>4. CASE ~Races!Handling(q) /\ Races!Alive(q)
    BY <1>1, <1>2, <1>4, RacesMoved
       DEF Races!Signalled, Races!pc, Races!Handling, Races!Alive, Races!Over, Races!Serving,
           Races!Closing, RacesOffice
<1>5. CASE ~Races!Handling(q) /\ ~Races!Alive(q)
    BY <1>1, <1>5 DEF Races!Signalled, Races!pc
<1> QED BY <1>3, <1>4, <1>5

\* A step of one process leaves the invariant when the one on record does
\* not leave office.
LEMMA RacesMove ==
    ASSUME RacesInv, NEW p \in Pids, NEW r \in RacesRecords,
           x1' = [x1 EXCEPT ![p] = r], UNCHANGED x2,
           x2 = p => r.pc \in RacesOffice
    PROVE  RacesInv'
<1>1. Races!TypeOK'
    BY RacesType, RacesTypeNext DEF RacesInv
<1>2. ASSUME x2 \in Pids PROVE x1'[x2].pc \in RacesOffice
    BY <1>2, RacesType DEF RacesInv, Races!pc
<1> QED BY <1>1, <1>2 DEF RacesInv, Races!pc

LEMMA RacesAt ==
    ASSUME RacesInv, NEW p \in Pids, NEW to \in RacesPlaces, NEW from, Races!At(p, from, to),
           UNCHANGED x2,
           x2 = p => to \in RacesOffice
    PROVE  RacesInv'
<1>1. x1[p] \in RacesRecords
    BY RacesType DEF RacesInv
<1>2. x1' = [x1 EXCEPT ![p] = Races!Moved(x1[p], to)]
    BY <1>1, RacesType DEF Races!At, RacesInv
<1> QED BY <1>1, <1>2, RacesMoved, RacesMove

LEMMA RacesNames ==
    /\ {"read", "probe", "signal", "wait", "remove", "running", "stale", "fork", "boot", "armed",
        "writing", "serving", "cleanup", "closing", "leaving", "exited", "died", "left", "free"}
         \subseteq RacesPlaces
    /\ RacesOffice = {"serving", "cleanup", "leaving", "left", "died"}
    /\ Races!Over = {"exited", "died", "left"}
    /\ Races!Booting = {"boot", "armed", "writing"}
    /\ {"run -d", "none"} \cup Races!Verbs \subseteq Races!Verbs \cup {"none"}
BY DEF RacesPlaces, RacesOffice, Races!Serving, Races!Closing, Races!Booting, Races!Idle,
   Races!Over, Races!Verbs

LEMMA RacesStarts ==
    ASSUME RacesInv, NEW p \in Pids, NEW v \in Races!Verbs, Races!Start(p, v) PROVE RacesInv'
<1> DEFINE w == IF v = "run" THEN "boot" ELSE "read"
<1>1. x1' = [x1 EXCEPT ![p] = Races!Process(w, v)] /\ UNCHANGED x2 /\ x1[p].pc = "free"
    BY DEF Races!Start, Races!pc
<1>2. x2 # p
    BY <1>1, RacesNames DEF RacesInv, Races!pc
<1>3. Races!Process(w, v) \in RacesRecords
    BY RacesProcess, RacesNames
<1> QED BY <1>1, <1>2, <1>3, RacesMove

LEMMA RacesRecycles ==
    ASSUME RacesInv, NEW p \in Pids, Races!Recycle(p) PROVE RacesInv'
<1>1. x2 # p /\ UNCHANGED x2 /\ Races!At(p, Races!pc(p), "free")
    BY DEF Races!Recycle, Races!Remembered
<1> QED BY <1>1, RacesAt, RacesNames

LEMMA RacesInterrupt ==
    ASSUME RacesInv, NEW p \in Pids, Races!Interrupt(p) PROVE RacesInv'
<1>1. /\ x1' = [x1 EXCEPT ![p] = Races!Signalled(p, "INT")]
      /\ UNCHANGED x2
    BY DEF Races!Interrupt
<1>2. /\ Races!Signalled(p, "INT") \in RacesRecords
      /\ x2 = p => Races!Signalled(p, "INT").pc \in RacesOffice
    BY RacesSignalled DEF RacesInv
<1> QED BY <1>1, <1>2, RacesMove

LEMMA RacesCrash ==
    ASSUME RacesInv, NEW p \in Pids, Races!Crash(p) PROVE RacesInv'
BY RacesAt, RacesNames DEF Races!Crash

\* A step of a verb that goes from one place to another.
LEMMA RacesVerbMoves ==
    ASSUME RacesInv, NEW p \in Pids, NEW to \in RacesPlaces,
           NEW from \in {"read", "probe", "running", "stale", "signal", "wait", "remove", "fork",
                         "boot", "armed", "writing", "closing"},
           Races!At(p, from, to), UNCHANGED x2
    PROVE  RacesInv'
<1>1. x2 # p
    BY RacesNames DEF RacesInv, Races!pc, Races!At
<1> QED BY <1>1, RacesAt

LEMMA RacesRunAfresh ==
    ASSUME RacesInv, NEW p \in Pids, Races!pc(p) = "read", Races!RunAfresh(p), UNCHANGED x2
    PROVE  RacesInv'
<1>1. x2 # p
    BY RacesNames DEF RacesInv
<1>2. Races!Process("read", "run -d") \in RacesRecords
    BY RacesProcess, RacesNames
<1> QED BY <1>1, <1>2, RacesMove DEF Races!RunAfresh

LEMMA RacesReads ==
    ASSUME RacesInv, NEW p \in Pids, Races!ReadAbsent(p) \/ Races!Read(p) PROVE RacesInv'
<1>1. CASE Races!ReadAbsent(p)
    BY <1>1, RacesRunAfresh, RacesVerbMoves, RacesNames DEF Races!ReadAbsent
<1>2. CASE Races!Read(p)
    <2>1. CASE Races!At(p, "read", "exited")
        BY <1>2, <2>1, RacesVerbMoves, RacesNames DEF Races!Read
    <2>2. CASE /\ Races!pc(p) = "read" /\ x2 \in Pids
               /\ x1' = [x1 EXCEPT ![p].pc = "probe", ![p].target = x2]
        <3> DEFINE r == [x1[p] EXCEPT !.pc = "probe", !.target = x2]
        <3>1. x1[p] \in RacesRecords /\ x1 \in [Pids -> RacesRecords]
            BY RacesType DEF RacesInv
        <3>2. x1' = [x1 EXCEPT ![p] = r]
            BY <2>2, <3>1
        <3>3. r \in RacesRecords
            BY <2>2, <3>1, RacesNames DEF RacesRecords
        <3>4. x2 # p
            BY <2>2, RacesNames DEF RacesInv
        <3> HIDE DEF r
        <3> QED BY <1>2, <3>2, <3>3, <3>4, RacesMove DEF Races!Read
    <2> QED BY <1>2, <2>1, <2>2 DEF Races!Read
<1> QED BY <1>1, <1>2

LEMMA RacesProbes ==
    ASSUME RacesInv, NEW p \in Pids,
           Races!Probe(p) \/ Races!Report(p) \/ Races!SeesDeath(p) \/ Races!StopTimesOut(p)
    PROVE  RacesInv'
<1>1. CASE Races!Probe(p)
    BY <1>1, RacesVerbMoves, RacesNames DEF Races!Probe
<1>2. CASE Races!Report(p)
    BY <1>2, RacesVerbMoves, RacesNames DEF Races!Report
<1>3. CASE Races!SeesDeath(p)
    BY <1>3, RacesVerbMoves, RacesNames DEF Races!SeesDeath
<1>4. CASE Races!StopTimesOut(p)
    BY <1>4, RacesVerbMoves, RacesNames DEF Races!StopTimesOut
<1> QED BY <1>1, <1>2, <1>3, <1>4

LEMMA RacesSigtermFails ==
    ASSUME RacesInv, NEW p \in Pids, Races!At(p, "signal", "exited"), UNCHANGED x2 PROVE RacesInv'
BY RacesVerbMoves, RacesNames

LEMMA RacesSigtermSent ==
    ASSUME RacesInv, NEW p \in Pids, Races!pc(p) = "signal", UNCHANGED x2,
           x1' = [x1 EXCEPT ![p].pc = "wait",
                            ![Races!target(p)] = Races!Signalled(Races!target(p), "TERM")]
    PROVE  RacesInv'
<1> DEFINE q == Races!target(p)
           r == [x1[p] EXCEPT !.pc = "wait"]
           f == [x1 EXCEPT ![p] = r]
<1>1. x1' = [f EXCEPT ![q] = Races!Signalled(q, "TERM")] /\ UNCHANGED x2 /\ Races!pc(p) = "signal"
    OBVIOUS
<1>2. x1 \in [Pids -> RacesRecords] /\ x2 # p
    BY <1>1, RacesType, RacesNames DEF RacesInv
<1>3. f \in [Pids -> RacesRecords]
    <2>1. r \in RacesRecords
        BY <1>2, RacesNames DEF RacesRecords
    <2> QED BY <1>2, <2>1
<1>4. q \in Pids => Races!Signalled(q, "TERM") \in RacesRecords
    BY RacesSignalled
<1>5. Races!TypeOK'
    BY <1>1, <1>3, <1>4, RacesType, RacesTypeNext DEF RacesInv
<1>6. ASSUME x2 \in Pids PROVE x1'[x2].pc \in RacesOffice
    <2>1. Races!pc(x2) \in RacesOffice
        BY <1>6 DEF RacesInv
    <2>2. CASE x2 = q
        BY <1>1, <1>2, <1>6, <2>1, <2>2, RacesSignalled
    <2>3. CASE x2 # q
        BY <1>1, <1>2, <1>6, <2>1, <2>3 DEF Races!pc
    <2> QED BY <2>2, <2>3
<1> QED BY <1>1, <1>5, <1>6 DEF RacesInv, Races!pc

LEMMA RacesSigterm ==
    ASSUME RacesInv, NEW p \in Pids, Races!Sigterm(p) PROVE RacesInv'
BY RacesSigtermFails, RacesSigtermSent DEF Races!Sigterm

LEMMA RacesRemovalFails ==
    ASSUME RacesInv, NEW p \in Pids, UNCHANGED x2,
           Races!At(p, "remove", "exited") \/ Races!At(p, "cleanup", "leaving")
    PROVE  RacesInv'
BY RacesVerbMoves, RacesAt, RacesNames

LEMMA RacesRemoved ==
    ASSUME RacesInv, NEW p \in Pids, x2' = Races!NoPid,
           \/ Races!RunAfresh(p) \/ Races!At(p, "remove", "exited")
           \/ Races!At(p, "cleanup", "closing")
    PROVE  RacesInv'
<1>1. x1[p] \in RacesRecords
    BY RacesType DEF RacesInv
<1>2. PICK r \in RacesRecords : x1' = [x1 EXCEPT ![p] = r]
    <2>1. CASE Races!RunAfresh(p)
        BY <2>1, RacesProcess, RacesNames DEF Races!RunAfresh
    <2>2. ASSUME NEW to \in {"exited", "closing"}, NEW from, Races!At(p, from, to)
          PROVE  \E r \in RacesRecords : x1' = [x1 EXCEPT ![p] = r]
        <3>1. x1' = [x1 EXCEPT ![p] = Races!Moved(x1[p], to)]
            BY <2>2, RacesType DEF Races!At, RacesInv
        <3> QED BY <1>1, <3>1, RacesMoved, RacesNames
    <2> QED BY <2>1, <2>2
<1>3. x2' = Races!NoPid
    OBVIOUS
<1>4. Races!TypeOK'
    BY <1>2, <1>3, RacesType, RacesTypeNext DEF RacesInv
<1>5. x2' \notin Pids
    BY <1>3, PidAssumption
<1> QED BY <1>4, <1>5 DEF RacesInv

LEMMA RacesRemoves ==
    ASSUME RacesInv, NEW p \in Pids, Races!RemoveRecord(p) \/ Races!CleanUp(p) PROVE RacesInv'
BY RacesRemovalFails, RacesRemoved DEF Races!RemoveRecord, Races!CleanUp

LEMMA RacesForks ==
    ASSUME RacesInv, NEW p \in Pids, Races!ForkDaemon(p) PROVE RacesInv'
<1>1. CASE Races!At(p, "fork", "exited")
    BY <1>1, RacesVerbMoves, RacesNames DEF Races!ForkDaemon
<1>2. ASSUME Races!pc(p) = "fork", NEW q \in Pids, Races!pc(q) = "free",
             x1' = [x1 EXCEPT ![p] = Races!Moved(@, "exited"), ![q] = Races!Process("boot", "run -d")]
      PROVE  RacesInv'
    <2> DEFINE f == [x1 EXCEPT ![p] = Races!Moved(x1[p], "exited")]
    <2>1. x1 \in [Pids -> RacesRecords] /\ x2 # p /\ x2 # q
        BY <1>2, RacesType, RacesNames DEF RacesInv
    <2>2. f \in [Pids -> RacesRecords]
        BY <2>1, RacesMoved, RacesNames
    <2>3. x1' = [f EXCEPT ![q] = Races!Process("boot", "run -d")] /\ UNCHANGED x2
        BY <1>2, <2>1 DEF Races!ForkDaemon
    <2>4. Races!Process("boot", "run -d") \in RacesRecords
        BY RacesProcess, RacesNames
    <2>5. Races!TypeOK'
        BY <2>2, <2>3, <2>4, RacesType, RacesTypeNext DEF RacesInv
    <2>6. x2 \in Pids => x1'[x2] = x1[x2]
        BY <2>1, <2>2, <2>3
    <2> QED BY <2>3, <2>5, <2>6 DEF RacesInv, Races!pc
<1> QED BY <1>1, <1>2 DEF Races!ForkDaemon

LEMMA RacesBoots ==
    ASSUME RacesInv, NEW p \in Pids, Races!Boot(p) PROVE RacesInv'
<1>1. CASE Races!Arm(p)
    BY <1>1, RacesVerbMoves, RacesNames DEF Races!Arm
<1>2. CASE Races!WriteTemporary(p)
    BY <1>2, RacesVerbMoves, RacesNames DEF Races!WriteTemporary
<1>3. CASE Races!RenameRecord(p)
    <2>1. CASE Races!At(p, "writing", "exited") /\ UNCHANGED x2
        BY <2>1, RacesVerbMoves, RacesNames
    <2>2. CASE Races!At(p, "writing", "serving") /\ x2' = p
        <3>1. x1[p] \in RacesRecords /\ x1 \in [Pids -> RacesRecords]
            BY RacesType DEF RacesInv
        <3>2. x1' = [x1 EXCEPT ![p] = Races!Moved(x1[p], "serving")]
            BY <2>2, <3>1 DEF Races!At
        <3>3. /\ Races!Moved(x1[p], "serving") \in RacesRecords
              /\ Races!Moved(x1[p], "serving").pc = "serving"
            BY <3>1, RacesMoved, RacesNames
        <3>4. Races!TypeOK' /\ x1'[p].pc = "serving"
            BY <2>2, <3>1, <3>2, <3>3, RacesTypeNext
        <3> QED BY <2>2, <3>4, RacesNames DEF RacesInv, Races!pc
    <2> QED BY <1>3, <2>1, <2>2 DEF Races!RenameRecord
<1> QED BY <1>1, <1>2, <1>3 DEF Races!Boot

LEMMA RacesReceives ==
    ASSUME RacesInv, NEW p \in Pids, Races!Receive(p) PROVE RacesInv'
<1>1. PICK s \in x1[p].pending :
        IF x1[p].token THEN Races!At(p, Races!pc(p), "died")
        ELSE x1' = [x1 EXCEPT ![p].pending = @ \ {s}, ![p].token = TRUE]
    BY DEF Races!Receive
<1>2. UNCHANGED x2
    BY DEF Races!Receive
<1>3. CASE x1[p].token
    BY <1>1, <1>2, <1>3, RacesAt, RacesNames
<1>4. CASE ~x1[p].token
    <2> DEFINE r == [x1[p] EXCEPT !.pending = @ \ {s}, !.token = TRUE]
    <2>1. x1[p] \in RacesRecords /\ x1 \in [Pids -> RacesRecords]
        BY RacesType DEF RacesInv
    <2>2. x1' = [x1 EXCEPT ![p] = r]
        BY <1>1, <1>4, <2>1
    <2>3. r \in RacesRecords /\ r.pc = x1[p].pc
        BY <2>1 DEF RacesRecords
    <2>4. x2 = p => r.pc \in RacesOffice
        BY <2>3 DEF RacesInv, Races!pc
    <2> HIDE DEF r
    <2> QED BY <1>2, <2>2, <2>3, <2>4, RacesMove
<1> QED BY <1>3, <1>4

LEMMA RacesDrains ==
    ASSUME RacesInv, NEW p \in Pids, Races!Drain(p) \/ Races!EndProcess(p) PROVE RacesInv'
BY RacesVerbMoves, RacesAt, RacesNames DEF Races!Drain, Races!EndProcess

LEMMA RacesStep ==
    ASSUME RacesInv, Races!Next PROVE RacesInv'
<1>1. PICK p \in Pids :
        \/ \E v \in Races!Verbs : Races!Start(p, v)
        \/ Races!Recycle(p) \/ Races!Interrupt(p) \/ Races!Crash(p)
        \/ Races!VerbStep(p)
        \/ Races!Boot(p) \/ Races!Receive(p) \/ Races!Drain(p) \/ Races!CleanUp(p)
        \/ Races!EndProcess(p)
    BY DEF Races!Next
<1>2. CASE \E v \in Races!Verbs : Races!Start(p, v)
    BY <1>2, RacesStarts
<1>3. CASE Races!Recycle(p) \/ Races!Interrupt(p) \/ Races!Crash(p)
    BY <1>3, RacesRecycles, RacesInterrupt, RacesCrash
<1>4. CASE Races!VerbStep(p)
    BY <1>4, RacesReads, RacesProbes, RacesSigterm, RacesRemoves, RacesForks DEF Races!VerbStep
<1>5. CASE \/ Races!Boot(p) \/ Races!Receive(p) \/ Races!Drain(p) \/ Races!CleanUp(p)
           \/ Races!EndProcess(p)
    BY <1>5, RacesBoots, RacesReceives, RacesDrains, RacesRemoves
<1> QED BY <1>1, <1>2, <1>3, <1>4, <1>5

\* StaleIsExplained: whatever commands race, in whatever order they read, write
\* and remove the state file, a record is left behind only by a daemon that
\* crashed, was told twice to stop, or could not remove it (daemon/state.rs,
\* cli/run.rs).
THEOREM RecordsAreExplained == Spec => []StaleIsExplained
<1> DEFINE I == part = "races" => RacesInv
<1>1. Init => I
    BY RacesInit DEF Init
<1>2. I /\ [Next]_all => I'
    <2>1. ASSUME I, Next PROVE I'
        BY <2>1, RacesStep DEF Next, InOneByOne, InRaces, InSpelled, InEdited, InDetach,
           InPrompt, InRetention, InDocumented, InRewritten, InEvents
    <2>2. ASSUME I, UNCHANGED all PROVE I'
        BY <2>2 DEF all, RacesInv, Races!TypeOK, Races!pc
    <2> QED BY <2>1, <2>2
<1>3. I => StaleIsExplained
    BY RacesNames DEF StaleIsExplained, RacesInv, Races!StaleIsExplained, Races!Alive
<1> QED BY <1>1, <1>2, <1>3, PTL DEF Spec

-----------------------------------------------------------------------------
(* Part "disciplined": commands one by one.                                *)

OnesPlaces ==
    {"read", "probe", "signal", "wait", "remove", "running", "stale", "fork", "boot", "armed",
     "writing", "serving", "cleanup", "closing", "leaving", "exited", "died", "left", "free"}

OnesRecords ==
    [pc : OnesPlaces, verb : OneByOne!Verbs \cup {"none"},
     target : Operators \cup {OneByOne!NoPid}, pending : SUBSET {"INT", "TERM"}, token : BOOLEAN]

\* At most one command, and at most one daemon at work, which is on record once it
\* serves; while a command is under way nothing boots.  A command that has
\* read the record has read the daemon's, or there is none; and it goes on to
\* remove the record, or to fork, when there is none.
OnesInv ==
    /\ x1 \in [Operators -> OnesRecords]
    /\ \A p, q \in Operators : OneByOne!IsVerb(p) /\ OneByOne!IsVerb(q) => p = q
    /\ \A p, q \in Operators : OneByOne!Works(p) /\ OneByOne!Works(q) => p = q
    /\ \A p, q \in Operators : OneByOne!IsVerb(p) => OneByOne!pc(q) \notin OneByOne!Booting
    /\ \A q \in Operators : OneByOne!pc(q) \in OneByOne!Serving => x2 = q
    /\ \A p, q \in Operators : OneByOne!pc(p) \in {"remove", "fork"} => ~OneByOne!Works(q)
    /\ \A p, q \in Operators :
         OneByOne!pc(p) \in {"probe", "signal", "wait"} /\ OneByOne!Works(q)
            => OneByOne!target(p) = q

LEMMA OnesInit ==
    ASSUME OneByOne!Init PROVE OnesInv
BY DEF OneByOne!Init, OnesInv, OnesRecords, OnesPlaces, OneByOne!Process, OneByOne!NoPid, OneByOne!IsVerb,
   OneByOne!Works, OneByOne!IsDaemon, OneByOne!Closing, OneByOne!pc, OneByOne!Idle, OneByOne!Over,
   OneByOne!Booting, OneByOne!Serving

\* Where commands and daemons are.
LEMMA OnesNames ==
    ASSUME NEW p
    PROVE  /\ OneByOne!Works(p) <=>
                OneByOne!pc(p) \in {"boot", "armed", "writing", "serving", "cleanup"}
           /\ OneByOne!IsVerb(p) <=>
                OneByOne!pc(p) \notin {"boot", "armed", "writing", "serving", "cleanup",
                                       "closing", "leaving", "exited", "died", "left", "free"}
BY DEF OneByOne!IsVerb, OneByOne!IsDaemon, OneByOne!Works, OneByOne!Closing, OneByOne!Idle,
   OneByOne!Over, OneByOne!Booting, OneByOne!Serving

LEMMA OnesNamesNext ==
    ASSUME NEW p
    PROVE  /\ OneByOne!Works(p)' <=>
                OneByOne!pc(p)' \in {"boot", "armed", "writing", "serving", "cleanup"}
           /\ OneByOne!IsVerb(p)' <=>
                OneByOne!pc(p)' \notin {"boot", "armed", "writing", "serving", "cleanup",
                                       "closing", "leaving", "exited", "died", "left", "free"}
BY DEF OneByOne!IsVerb, OneByOne!IsDaemon, OneByOne!Works, OneByOne!Closing, OneByOne!Idle,
   OneByOne!Over, OneByOne!Booting, OneByOne!Serving

LEMMA OnesMoved ==
    ASSUME NEW r \in OnesRecords, NEW w \in OnesPlaces
    PROVE  /\ OneByOne!Moved(r, w) \in OnesRecords
           /\ OneByOne!Moved(r, w).pc = w
           /\ w \notin {"exited", "died", "left"} => OneByOne!Moved(r, w).target = r.target
BY DEF OneByOne!Process, OneByOne!Moved, OnesRecords, OneByOne!Over, OnesPlaces

LEMMA OnesProcess ==
    ASSUME NEW w \in OnesPlaces, NEW v \in OneByOne!Verbs \cup {"none"}
    PROVE  OneByOne!Process(w, v) \in OnesRecords /\ OneByOne!Process(w, v).pc = w
BY DEF OneByOne!Process, OnesRecords

LEMMA OnesSignalled ==
    ASSUME OnesInv, NEW q \in Operators, NEW s \in {"INT", "TERM"}
    PROVE  /\ OneByOne!Signalled(q, s) \in OnesRecords
           /\ \/ OneByOne!Signalled(q, s).pc = "exited"
              \/ /\ OneByOne!Signalled(q, s).pc = x1[q].pc
                 /\ OneByOne!Signalled(q, s).target = x1[q].target
<1>1. x1[q] \in OnesRecords
    BY DEF OnesInv
<1>2. CASE OneByOne!Handling(q)
    BY <1>1, <1>2 DEF OneByOne!Signalled, OnesRecords
<1>3. CASE ~OneByOne!Handling(q) /\ OneByOne!Alive(q)
    BY <1>1, <1>3, OnesMoved DEF OneByOne!Signalled, OnesPlaces
<1>4. CASE ~OneByOne!Handling(q) /\ ~OneByOne!Alive(q)
    BY <1>1, <1>4 DEF OneByOne!Signalled
<1> QED BY <1>2, <1>3, <1>4

\* Process p takes the place of record r, the others stay as they are.
OnesBecomes(p, r) == x1' = [x1 EXCEPT ![p] = r]

LEMMA OnesOthers ==
    ASSUME OnesInv, NEW p \in Operators, NEW r \in OnesRecords, OnesBecomes(p, r)
    PROVE  /\ x1' \in [Operators -> OnesRecords]
           /\ x1'[p] = r
           /\ \A q \in Operators \ {p} : x1'[q] = x1[q]
BY DEF OnesInv, OnesBecomes

LEMMA OnesAt ==
    ASSUME OnesInv, NEW p \in Operators, NEW from, NEW to \in OnesPlaces, OneByOne!At(p, from, to)
    PROVE  /\ x1[p].pc = from
           /\ x1' \in [Operators -> OnesRecords]
           /\ x1'[p].pc = to
           /\ to \notin {"exited", "died", "left"} => x1'[p].target = x1[p].target
           /\ \A q \in Operators \ {p} : x1'[q] = x1[q]
<1>1. x1[p] \in OnesRecords
    BY DEF OnesInv
<1>2. OnesBecomes(p, OneByOne!Moved(x1[p], to)) /\ x1[p].pc = from
    BY DEF OneByOne!At, OnesInv, OnesBecomes, OneByOne!pc
<1> QED BY <1>1, <1>2, OnesMoved, OnesOthers

\* Processes that end, that stay where they are, that wait for the daemon
\* they were about to signal, and commands that need nothing any more.
LEMMA OnesShrink ==
    ASSUME OnesInv, x1' \in [Operators -> OnesRecords], UNCHANGED x2,
           \A r \in Operators :
              \/ x1'[r].pc \in {"leaving", "exited", "died", "left", "free"}
              \/ x1'[r].pc = x1[r].pc /\ x1'[r].target = x1[r].target
              \/ x1[r].pc = "signal" /\ x1'[r].pc = "wait" /\ x1'[r].target = x1[r].target
              \/ OneByOne!IsVerb(r) /\ x1'[r].pc \in {"read", "running", "stale"}
    PROVE  OnesInv'
<1>1. \A r \in Operators : OneByOne!IsVerb(r)' => OneByOne!IsVerb(r)
    BY OnesNames, OnesNamesNext DEF OneByOne!pc
<1>2. \A r \in Operators : OneByOne!Works(r)' => OneByOne!Works(r) /\ x1'[r].pc = x1[r].pc
    BY OnesNames, OnesNamesNext DEF OneByOne!pc
<1>3. \A r \in Operators : x1'[r].pc \in {"remove", "fork"} => x1'[r].pc = x1[r].pc
    OBVIOUS
<1>4. \A r \in Operators : x1'[r].pc \in {"probe", "signal", "wait"} =>
        x1[r].pc \in {"probe", "signal", "wait"} /\ x1'[r].target = x1[r].target
    OBVIOUS
<1>5. \A r \in Operators : x1'[r].pc \in OneByOne!Booting \cup OneByOne!Serving => x1'[r].pc = x1[r].pc
    BY <1>2 DEF OneByOne!Works, OneByOne!pc
<1> QED BY <1>1, <1>2, <1>3, <1>4, <1>5 DEF OnesInv, OneByOne!pc, OneByOne!target

\* The steps of OnesShrink, by the actions.
LEMMA OnesEnds ==
    ASSUME OnesInv, UNCHANGED x2, NEW p \in Operators, NEW from,
           NEW to \in {"leaving", "exited", "died", "left", "free"}, OneByOne!At(p, from, to)
    PROVE  OnesInv'
<1>1. to \in OnesPlaces
    BY DEF OnesPlaces
<1> QED BY <1>1, OnesAt, OnesShrink

LEMMA OnesReadsAfresh ==
    ASSUME OnesInv, UNCHANGED x2, NEW p \in Operators, OneByOne!IsVerb(p), OneByOne!RunAfresh(p)
    PROVE  OnesInv'
<1>1. OnesBecomes(p, OneByOne!Process("read", "run -d"))
    BY DEF OneByOne!RunAfresh, OnesBecomes
<1>2. "read" \in OnesPlaces /\ "run -d" \in OneByOne!Verbs \cup {"none"}
    BY DEF OnesPlaces, OneByOne!Verbs
<1>3. /\ OneByOne!Process("read", "run -d") \in OnesRecords
      /\ OneByOne!Process("read", "run -d").pc = "read"
    BY <1>2, OnesProcess
<1>4. /\ x1' \in [Operators -> OnesRecords]
      /\ x1'[p].pc = "read"
      /\ \A q \in Operators \ {p} : x1'[q] = x1[q]
    BY <1>1, <1>3, OnesOthers
<1> QED BY <1>4, OnesShrink

LEMMA OnesInterrupt ==
    ASSUME OnesInv, NEW p \in Operators, OneByOne!Interrupt(p) PROVE OnesInv'
<1>1. OnesBecomes(p, OneByOne!Signalled(p, "INT")) /\ UNCHANGED x2
    BY DEF OneByOne!Interrupt, OnesBecomes
<1> QED BY <1>1, OnesSignalled, OnesOthers, OnesShrink

LEMMA OnesSigtermSent ==
    ASSUME OnesInv, NEW p \in Operators, OneByOne!pc(p) = "signal", UNCHANGED x2,
           x1' = [x1 EXCEPT ![p].pc = "wait",
                    ![OneByOne!target(p)] = OneByOne!Signalled(OneByOne!target(p), "TERM")]
    PROVE  OnesInv'
<1> DEFINE q == OneByOne!target(p)
           r == [x1[p] EXCEPT !.pc = "wait"]
           f == [x1 EXCEPT ![p] = r]
<1>1. /\ x1' = [f EXCEPT ![q] = OneByOne!Signalled(q, "TERM")]
      /\ UNCHANGED x2 /\ x1[p].pc = "signal"
    BY DEF OneByOne!pc
<1>2. x1 \in [Operators -> OnesRecords]
    BY DEF OnesInv
<1>3. r \in OnesRecords /\ r.pc = "wait" /\ r.target = x1[p].target
    BY <1>2 DEF OnesRecords, OnesPlaces
<1>4. f \in [Operators -> OnesRecords] /\ f[p] = r /\ \A s \in Operators \ {p} : f[s] = x1[s]
    BY <1>2, <1>3
<1> HIDE DEF q, r, f
<1>5. CASE q \notin Operators
    <2>1. x1' = f
        BY <1>1, <1>4, <1>5
    <2> QED BY <1>1, <1>3, <1>4, <2>1, OnesShrink
<1>6. CASE q \in Operators
    <2>1. /\ x1' \in [Operators -> OnesRecords]
          /\ x1'[q] = OneByOne!Signalled(q, "TERM")
          /\ \A s \in Operators \ {q} : x1'[s] = f[s]
        BY <1>1, <1>4, <1>6, OnesSignalled
    <2>2. \/ x1'[q].pc = "exited"
          \/ x1'[q].pc = x1[q].pc /\ x1'[q].target = x1[q].target
        BY <1>6, <2>1, OnesSignalled
    <2> QED BY <1>1, <1>3, <1>4, <2>1, <2>2, OnesShrink
<1> QED BY <1>5, <1>6

LEMMA OnesSigterm ==
    ASSUME OnesInv, NEW p \in Operators, OneByOne!Sigterm(p) PROVE OnesInv'
BY OnesEnds, OnesSigtermSent DEF OneByOne!Sigterm

LEMMA OnesReceives ==
    ASSUME OnesInv, NEW p \in Operators, OneByOne!Receive(p) PROVE OnesInv'
<1>1. PICK s \in x1[p].pending :
        IF x1[p].token THEN OneByOne!At(p, OneByOne!pc(p), "died")
        ELSE x1' = [x1 EXCEPT ![p].pending = @ \ {s}, ![p].token = TRUE]
    BY DEF OneByOne!Receive
<1>2. UNCHANGED x2
    BY DEF OneByOne!Receive
<1>3. CASE x1[p].token
    BY <1>1, <1>2, <1>3, OnesEnds
<1>4. CASE ~x1[p].token
    <2> DEFINE r == [x1[p] EXCEPT !.pending = @ \ {s}, !.token = TRUE]
    <2>1. x1[p] \in OnesRecords /\ x1 \in [Operators -> OnesRecords]
        BY DEF OnesInv
    <2>2. OnesBecomes(p, r)
        BY <1>1, <1>4, <2>1 DEF OnesBecomes
    <2>3. r \in OnesRecords /\ r.pc = x1[p].pc /\ r.target = x1[p].target
        BY <2>1 DEF OnesRecords
    <2> HIDE DEF r
    <2> QED BY <1>2, <2>2, <2>3, OnesOthers, OnesShrink
<1> QED BY <1>3, <1>4

\* A command starts when no other is under way and nothing boots; `vik run'
\* only when no daemon is on record, and so none at work.
LEMMA OnesStarts ==
    ASSUME OnesInv, NEW p \in Operators, NEW v \in OneByOne!Verbs, OneByOne!Start(p, v)
    PROVE  OnesInv'
<1> DEFINE w == IF v = "run" THEN "boot" ELSE "read"
<1>1. /\ OnesBecomes(p, OneByOne!Process(w, v)) /\ UNCHANGED x2
      /\ \A q \in Operators : ~OneByOne!IsVerb(q) /\ OneByOne!pc(q) \notin OneByOne!Booting
      /\ v = "run" => \A q \in Operators : ~OneByOne!Works(q)
    <2>1. /\ OnesBecomes(p, OneByOne!Process(w, v)) /\ UNCHANGED x2
          /\ \A q \in Operators : ~OneByOne!IsVerb(q) /\ OneByOne!pc(q) \notin OneByOne!Booting
          /\ v = "run" => ~(x2 \in Operators /\ OneByOne!Alive(x2))
        BY DEF OneByOne!Start, OneByOne!MayStart, OnesBecomes
    <2>2. \A q \in Operators : OneByOne!Works(q) => x2 = q
        BY <2>1 DEF OnesInv, OneByOne!Works
    <2>3. \A q \in Operators : OneByOne!Works(q) => OneByOne!Alive(q)
        BY OnesNames DEF OneByOne!Alive, OneByOne!Over
    <2> QED BY <2>1, <2>2, <2>3
<1>2. OneByOne!Process(w, v) \in OnesRecords /\ OneByOne!Process(w, v).pc = w
    BY OnesProcess DEF OnesPlaces
<1>3. /\ x1' \in [Operators -> OnesRecords]
      /\ x1'[p].pc = w
      /\ \A q \in Operators \ {p} : x1'[q] = x1[q]
    BY <1>1, <1>2, OnesOthers
<1>4. \A q \in Operators \ {p} :
        /\ OneByOne!IsVerb(q)' <=> OneByOne!IsVerb(q)
        /\ OneByOne!Works(q)' <=> OneByOne!Works(q)
        /\ OneByOne!pc(q)' = OneByOne!pc(q)
    BY <1>3, OnesNames, OnesNamesNext DEF OneByOne!pc
<1>5. CASE v = "run"
    <2>1. ~OneByOne!IsVerb(p)' /\ x1'[p].pc = "boot"
        BY <1>3, <1>5, OnesNamesNext DEF OneByOne!pc
    <2>2. \A q \in Operators : ~OneByOne!IsVerb(q)'
        BY <1>1, <1>4, <2>1
    <2>3. \A q \in Operators : x1'[q].pc \notin OneByOne!Serving \cup {"remove", "fork", "probe", "signal", "wait"}
        BY <1>1, <1>4, <1>5, <2>1, <2>2, OnesNamesNext DEF OneByOne!Serving, OneByOne!pc, OneByOne!Works
    <2> QED BY <1>1, <1>3, <1>4, <1>5, <2>2, <2>3 DEF OnesInv, OneByOne!pc
<1>6. CASE v # "run"
    <2>1. ~OneByOne!Works(p)' /\ x1'[p].pc = "read"
        BY <1>3, <1>6, OnesNamesNext DEF OneByOne!pc
    <2>2. \A q \in Operators : OneByOne!Works(q)' => OneByOne!Works(q) /\ x1'[q].pc = x1[q].pc
        BY <1>4, <2>1 DEF OneByOne!pc
    <2>3. \A q \in Operators : OneByOne!IsVerb(q)' => q = p
        BY <1>1, <1>4
    <2>4. \A q \in Operators : x1'[q].pc \notin OneByOne!Booting \cup {"remove", "fork", "probe", "signal", "wait"}
        BY <1>1, <1>4, <2>1, <2>3, OnesNamesNext DEF OneByOne!Booting, OneByOne!pc
    <2>5. \A q \in Operators : x1'[q].pc \in OneByOne!Serving => x1[q].pc \in OneByOne!Serving
        BY <2>2 DEF OneByOne!Works, OneByOne!pc
    <2> QED BY <1>1, <1>3, <2>2, <2>3, <2>4, <2>5 DEF OnesInv, OneByOne!pc
<1> QED BY <1>5, <1>6

\* What a command has read is the daemon: while it is there nothing boots, and
\* what serves is on record.
LEMMA OnesReads ==
    ASSUME OnesInv, NEW p \in Operators, OneByOne!ReadAbsent(p) \/ OneByOne!Read(p) PROVE OnesInv'
<1>1. UNCHANGED x2
    BY DEF OneByOne!ReadAbsent, OneByOne!Read
<1>2. CASE OneByOne!At(p, "read", "exited")
    BY <1>1, <1>2, OnesEnds
<1>3. CASE OneByOne!pc(p) = "read" /\ OneByOne!RunAfresh(p)
    BY <1>1, <1>3, OnesNames, OnesReadsAfresh
<1>4. ASSUME OneByOne!pc(p) = "read"
      PROVE  /\ OneByOne!IsVerb(p)
             /\ \A q \in Operators : OneByOne!IsVerb(q) => q = p
             /\ \A q \in Operators : OneByOne!pc(q) \notin OneByOne!Booting
             /\ \A q \in Operators : OneByOne!Works(q) => x2 = q
    <2>1. OneByOne!IsVerb(p)
        BY <1>4, OnesNames
    <2> QED BY <2>1 DEF OnesInv, OneByOne!Works
<1>5. CASE x2 = OneByOne!NoPid /\ OneByOne!At(p, "read", "fork")
    <2>1. /\ OneByOne!pc(p) = "read" /\ x1' \in [Operators -> OnesRecords] /\ x1'[p].pc = "fork"
          /\ \A q \in Operators \ {p} : x1'[q] = x1[q]
        BY <1>5, OnesAt DEF OnesPlaces, OneByOne!pc
    <2>2. \A q \in Operators : ~OneByOne!Works(q)
        BY <1>4, <1>5, <2>1, PidAssumption DEF OneByOne!NoPid, Races!NoPid
    <2>3. \A q \in Operators : ~OneByOne!Works(q)'
        BY <2>1, <2>2, OnesNames, OnesNamesNext DEF OneByOne!pc
    <2>4. \A q \in Operators : OneByOne!IsVerb(q)' => q = p
        BY <1>4, <2>1, OnesNames, OnesNamesNext DEF OneByOne!pc
    <2>5. \A q \in Operators : OneByOne!pc(q)' \notin OneByOne!Booting \cup OneByOne!Serving
        BY <2>3 DEF OneByOne!Works
    <2> QED BY <2>1, <2>3, <2>4, <2>5 DEF OnesInv
<1>6. CASE /\ OneByOne!pc(p) = "read" /\ x2 \in Operators
           /\ x1' = [x1 EXCEPT ![p].pc = "probe", ![p].target = x2]
    <2> DEFINE r == [x1[p] EXCEPT !.pc = "probe", !.target = x2]
    <2>1. x1 \in [Operators -> OnesRecords]
        BY DEF OnesInv
    <2>2. OnesBecomes(p, r)
        BY <1>6, <2>1 DEF OnesBecomes
    <2>3. r \in OnesRecords /\ r.pc = "probe" /\ r.target = x2
        <3>1. x1[p] \in OnesRecords /\ "probe" \in OnesPlaces
            BY <2>1 DEF OnesPlaces
        <3> QED BY <1>6, <3>1 DEF OnesRecords
    <2> HIDE DEF r
    <2>4. /\ x1' \in [Operators -> OnesRecords] /\ x1'[p].pc = "probe" /\ x1'[p].target = x2
          /\ \A q \in Operators \ {p} : x1'[q] = x1[q]
        BY <2>2, <2>3, OnesOthers
    <2>5. \A q \in Operators : OneByOne!Works(q)' => OneByOne!Works(q) /\ x1'[q].pc = x1[q].pc
        BY <2>4, OnesNames, OnesNamesNext DEF OneByOne!pc
    <2>6. \A q \in Operators : OneByOne!IsVerb(q)' => q = p
        BY <1>4, <1>6, <2>4, OnesNames, OnesNamesNext DEF OneByOne!pc
    <2>7. \A q \in Operators : x1'[q].pc \in {"remove", "fork", "probe", "signal", "wait"} => q = p
        BY <2>6, OnesNamesNext DEF OneByOne!pc
    <2>8. \A q \in Operators : x1'[q].pc \in OneByOne!Booting \cup OneByOne!Serving => x1'[q].pc = x1[q].pc
        BY <2>5 DEF OneByOne!Works, OneByOne!pc
    <2> QED BY <1>1, <1>4, <1>6, <2>4, <2>5, <2>6, <2>7, <2>8
            DEF OnesInv, OneByOne!pc, OneByOne!target
<1> QED BY <1>2, <1>3, <1>5, <1>6 DEF OneByOne!ReadAbsent, OneByOne!Read, OneByOne!At

\* A command that goes on to signal has its target still; one that goes on to
\* remove or to fork has seen that there is no daemon.
LEMMA OnesProceeds ==
    ASSUME OnesInv, UNCHANGED x2, NEW p \in Operators,
           NEW from \in {"probe", "wait"}, NEW to \in {"signal", "remove", "fork"},
           OneByOne!At(p, from, to),
           to # "signal" => ~OneByOne!Alive(OneByOne!target(p))
    PROVE  OnesInv'
<1>1. to \in OnesPlaces /\ to \notin {"exited", "died", "left"}
    BY DEF OnesPlaces
<1>2. /\ x1[p].pc = from
      /\ x1' \in [Operators -> OnesRecords] /\ x1'[p].pc = to /\ x1'[p].target = x1[p].target
      /\ \A q \in Operators \ {p} : x1'[q] = x1[q]
    BY <1>1, OnesAt
<1>3. OneByOne!IsVerb(p) /\ ~OneByOne!Works(p)
    BY <1>2, OnesNames DEF OneByOne!pc
<1>4. \A q \in Operators : OneByOne!Works(q)' => OneByOne!Works(q) /\ x1'[q].pc = x1[q].pc
    BY <1>2, OnesNames, OnesNamesNext DEF OneByOne!pc
<1>5. \A q \in Operators : OneByOne!IsVerb(q)' => q = p
    BY <1>2, <1>3, OnesNames, OnesNamesNext DEF OnesInv, OneByOne!pc
<1>6. \A q \in Operators : x1'[q].pc \in {"remove", "fork", "probe", "signal", "wait"} => q = p
    BY <1>5, OnesNamesNext DEF OneByOne!pc
<1>7. \A q \in Operators : x1'[q].pc \in OneByOne!Booting \cup OneByOne!Serving => x1'[q].pc = x1[q].pc
    BY <1>4 DEF OneByOne!Works, OneByOne!pc
<1>8. \A q \in Operators : OneByOne!Works(q) => OneByOne!target(p) = q
    BY <1>2 DEF OnesInv, OneByOne!pc
<1>9. to # "signal" => \A q \in Operators : ~OneByOne!Works(q)
    BY <1>8, OnesNames DEF OneByOne!Alive, OneByOne!Over
<1>10. \A q \in Operators : OneByOne!pc(q) \notin OneByOne!Booting
    BY <1>3 DEF OnesInv
<1> QED BY <1>2, <1>4, <1>5, <1>6, <1>7, <1>8, <1>9, <1>10
        DEF OnesInv, OneByOne!pc, OneByOne!target

LEMMA OnesProbes ==
    ASSUME OnesInv, NEW p \in Operators,
           \/ OneByOne!Probe(p) \/ OneByOne!Report(p) \/ OneByOne!SeesDeath(p)
           \/ OneByOne!StopTimesOut(p)
    PROVE  OnesInv'
<1>1. UNCHANGED x2
    BY DEF OneByOne!Probe, OneByOne!Report, OneByOne!SeesDeath, OneByOne!StopTimesOut
<1>2. ASSUME NEW from, NEW to \in {"exited", "died", "left", "free"}, OneByOne!At(p, from, to)
      PROVE  OnesInv'
    BY <1>1, <1>2, OnesEnds
<1>3. ASSUME NEW to \in {"running", "stale"}, OneByOne!At(p, "probe", to) PROVE OnesInv'
    <2>1. to \in OnesPlaces
        BY <1>3 DEF OnesPlaces
    <2>2. /\ x1[p].pc = "probe" /\ x1'[p].pc = to /\ x1' \in [Operators -> OnesRecords]
          /\ \A q \in Operators \ {p} : x1'[q] = x1[q]
        BY <1>3, <2>1, OnesAt
    <2>3. OneByOne!IsVerb(p)
        BY <2>2, OnesNames DEF OneByOne!pc
    <2> QED BY <1>1, <2>2, <2>3, OnesShrink
<1>4. ASSUME NEW from \in {"probe", "wait"}, NEW to \in {"signal", "remove", "fork"},
             OneByOne!At(p, from, to), to # "signal" => ~OneByOne!Alive(OneByOne!target(p))
      PROVE  OnesInv'
    BY <1>1, <1>4, OnesProceeds
<1>5. CASE OneByOne!Report(p)
    BY <1>2, <1>5 DEF OneByOne!Report
<1>6. CASE OneByOne!StopTimesOut(p)
    BY <1>2, <1>6 DEF OneByOne!StopTimesOut
<1>7. CASE OneByOne!SeesDeath(p)
    BY <1>4, <1>7 DEF OneByOne!SeesDeath
<1>8. CASE OneByOne!Probe(p)
    <2>1. CASE OneByOne!verb(p) = "status"
        BY <1>3, <1>8, <2>1 DEF OneByOne!Probe
    <2>2. CASE OneByOne!verb(p) = "run -d" /\ OneByOne!Alive(OneByOne!target(p))
        BY <1>2, <1>8, <2>2 DEF OneByOne!Probe
    <2>3. CASE OneByOne!verb(p) = "run -d" /\ ~OneByOne!Alive(OneByOne!target(p))
        <3>1. OneByOne!At(p, "probe", "fork")
            BY <1>8, <2>3 DEF OneByOne!Probe
        <3> QED BY <1>4, <2>3, <3>1
    <2>4. CASE OneByOne!verb(p) \notin {"status", "run -d"} /\ OneByOne!Alive(OneByOne!target(p))
        <3>1. OneByOne!At(p, "probe", "signal")
            BY <1>8, <2>4 DEF OneByOne!Probe
        <3> QED BY <1>4, <3>1
    <2>5. CASE OneByOne!verb(p) \notin {"status", "run -d"} /\ ~OneByOne!Alive(OneByOne!target(p))
        <3>1. OneByOne!At(p, "probe", "remove")
            BY <1>8, <2>5 DEF OneByOne!Probe
        <3> QED BY <1>4, <2>5, <3>1
    <2> QED BY <2>1, <2>2, <2>3, <2>4, <2>5
<1> QED BY <1>5, <1>6, <1>7, <1>8

\* Without a daemon the record may go.
LEMMA OnesRemoved ==
    ASSUME OnesInv, NEW p \in Operators, OneByOne!pc(p) = "remove",
           OneByOne!RunAfresh(p) \/ OneByOne!At(p, "remove", "exited")
    PROVE  OnesInv'
<1>1. OneByOne!pc(p) = "remove" /\ OneByOne!IsVerb(p)
    BY OnesNames
<1>2. /\ x1' \in [Operators -> OnesRecords]
      /\ x1'[p].pc \in {"read", "exited"}
      /\ \A q \in Operators \ {p} : x1'[q] = x1[q]
    <2>1. CASE OneByOne!RunAfresh(p)
        <3>1. OnesBecomes(p, OneByOne!Process("read", "run -d"))
            BY <2>1 DEF OneByOne!RunAfresh, OnesBecomes
        <3>2. "read" \in OnesPlaces /\ "run -d" \in OneByOne!Verbs \cup {"none"}
            BY DEF OnesPlaces, OneByOne!Verbs
        <3>3. /\ OneByOne!Process("read", "run -d") \in OnesRecords
              /\ OneByOne!Process("read", "run -d").pc = "read"
            BY <3>2, OnesProcess
        <3> QED BY <3>1, <3>3, OnesOthers
    <2>2. CASE OneByOne!At(p, "remove", "exited")
        <3>1. "exited" \in OnesPlaces
            BY DEF OnesPlaces
        <3> QED BY <2>2, <3>1, OnesAt
    <2> QED BY <2>1, <2>2
<1>3. \A q \in Operators : ~OneByOne!Works(q)
    BY <1>1 DEF OnesInv
<1>4. \A q \in Operators : ~OneByOne!Works(q)'
    BY <1>2, <1>3, OnesNames, OnesNamesNext DEF OneByOne!pc
<1>5. \A q \in Operators : OneByOne!IsVerb(q)' => q = p
    BY <1>1, <1>2, OnesNames, OnesNamesNext DEF OnesInv, OneByOne!pc
<1>6. \A q \in Operators : OneByOne!pc(q)' \notin OneByOne!Booting \cup OneByOne!Serving
    BY <1>4 DEF OneByOne!Works
<1> QED BY <1>2, <1>4, <1>5, <1>6 DEF OnesInv

LEMMA OnesRemoves ==
    ASSUME OnesInv, NEW p \in Operators, OneByOne!RemoveRecord(p) PROVE OnesInv'
BY OnesRemoved, OnesEnds DEF OneByOne!RemoveRecord

\* A fork: the command is over, and what it leaves is the one daemon.
LEMMA OnesForks ==
    ASSUME OnesInv, NEW p \in Operators, OneByOne!ForkDaemon(p) PROVE OnesInv'
<1>1. CASE OneByOne!At(p, "fork", "exited")
    BY <1>1, OnesEnds DEF OneByOne!ForkDaemon
<1>2. ASSUME OneByOne!pc(p) = "fork", NEW q \in Operators, OneByOne!pc(q) = "free",
             x1' = [x1 EXCEPT ![p] = OneByOne!Moved(@, "exited"),
                              ![q] = OneByOne!Process("boot", "run -d")]
      PROVE  OnesInv'
    <2> DEFINE f == [x1 EXCEPT ![p] = OneByOne!Moved(x1[p], "exited")]
    <2>1. x1 \in [Operators -> OnesRecords] /\ p # q
        BY <1>2 DEF OnesInv
    <2>2. /\ OneByOne!Moved(x1[p], "exited") \in OnesRecords
          /\ OneByOne!Moved(x1[p], "exited").pc = "exited"
        BY <2>1, OnesMoved DEF OnesPlaces
    <2>3. "boot" \in OnesPlaces /\ "run -d" \in OneByOne!Verbs \cup {"none"}
        BY DEF OnesPlaces, OneByOne!Verbs
    <2>4. /\ OneByOne!Process("boot", "run -d") \in OnesRecords
          /\ OneByOne!Process("boot", "run -d").pc = "boot"
        BY <2>3, OnesProcess
    <2>5. x1' = [f EXCEPT ![q] = OneByOne!Process("boot", "run -d")] /\ UNCHANGED x2
        BY <1>2, <2>1 DEF OneByOne!ForkDaemon
    <2>6. /\ x1' \in [Operators -> OnesRecords] /\ x1'[p].pc = "exited" /\ x1'[q].pc = "boot"
          /\ \A r \in Operators \ {p, q} : x1'[r] = x1[r]
        BY <2>1, <2>2, <2>4, <2>5
    <2>7. OneByOne!IsVerb(p)
        BY <1>2, OnesNames
    <2>8. \A r \in Operators : ~OneByOne!Works(r) /\ (OneByOne!IsVerb(r) => r = p)
        BY <1>2, <2>7 DEF OnesInv
    <2>9. \A r \in Operators : ~OneByOne!IsVerb(r)'
        BY <2>6, <2>8, OnesNames, OnesNamesNext DEF OneByOne!pc
    <2>10. \A r \in Operators : OneByOne!Works(r)' => r = q
        BY <2>6, <2>8, OnesNames, OnesNamesNext DEF OneByOne!pc
    <2>11. \A r \in Operators : x1'[r].pc \notin {"remove", "fork", "probe", "signal", "wait"}
        BY <2>9, OnesNamesNext DEF OneByOne!pc
    <2>12. \A r \in Operators : x1'[r].pc \notin OneByOne!Serving
        BY <2>6, <2>10 DEF OneByOne!pc, OneByOne!Works, OneByOne!Serving
    <2> QED BY <2>6, <2>9, <2>10, <2>11, <2>12 DEF OnesInv, OneByOne!pc
<1> QED BY <1>1, <1>2 DEF OneByOne!ForkDaemon

\* The one daemon moves on: it boots while no command is under way, and
\* serves once it is on record.
LEMMA OnesServes ==
    ASSUME OnesInv, NEW p \in Operators, NEW from, NEW to \in {"armed", "writing", "serving", "cleanup"},
           OneByOne!At(p, from, to),
           OneByOne!Works(p),
           to \in {"armed", "writing"} => from \in OneByOne!Booting,
           to \in {"serving", "cleanup"} => x2' = p
    PROVE  OnesInv'
<1>1. to \in OnesPlaces /\ to \notin {"exited", "died", "left"}
    BY DEF OnesPlaces
<1>2. /\ OneByOne!pc(p) = from
      /\ x1' \in [Operators -> OnesRecords] /\ x1'[p].pc = to
      /\ \A q \in Operators \ {p} : x1'[q] = x1[q]
    BY <1>1, OnesAt DEF OneByOne!pc
<1>3. \A q \in Operators : OneByOne!Works(q)' => q = p
    BY <1>2, OnesNames, OnesNamesNext DEF OnesInv, OneByOne!pc
<1>4. \A q \in Operators : OneByOne!IsVerb(q)' => OneByOne!IsVerb(q) /\ q # p /\ x1'[q] = x1[q]
    BY <1>2, OnesNames, OnesNamesNext DEF OneByOne!pc
<1>5. \A q \in Operators : x1'[q].pc \in OneByOne!Serving => q = p /\ to \in {"serving", "cleanup"}
    BY <1>2, <1>3 DEF OneByOne!Works, OneByOne!pc, OneByOne!Serving
<1>6. \A q \in Operators : x1'[q].pc \in OneByOne!Booting => q = p /\ from \in OneByOne!Booting
    BY <1>2, <1>3 DEF OneByOne!Works, OneByOne!pc, OneByOne!Booting
<1>7. \A q \in Operators : x1'[q].pc \in {"remove", "fork", "probe", "signal", "wait"}
        => q # p /\ x1'[q] = x1[q]
    BY <1>2
<1> QED BY <1>2, <1>3, <1>4, <1>5, <1>6, <1>7 DEF OnesInv, OneByOne!pc, OneByOne!target

LEMMA OnesDaemon ==
    ASSUME OnesInv, NEW p \in Operators, OneByOne!Boot(p) \/ OneByOne!Drain(p) PROVE OnesInv'
<1>1. ASSUME NEW from, OneByOne!At(p, from, "exited"), UNCHANGED x2 PROVE OnesInv'
    BY <1>1, OnesEnds
<1>2. CASE OneByOne!At(p, "boot", "armed")
    BY <1>2, OnesNames, OnesServes DEF OneByOne!At, OneByOne!Booting
<1>3. CASE OneByOne!At(p, "armed", "writing")
    BY <1>3, OnesNames, OnesServes DEF OneByOne!At, OneByOne!Booting
<1>4. CASE OneByOne!At(p, "writing", "serving") /\ x2' = p
    BY <1>4, OnesNames, OnesServes DEF OneByOne!At
<1>5. CASE OneByOne!Drain(p)
    <2>1. OneByOne!At(p, "serving", "cleanup") /\ UNCHANGED x2 /\ OneByOne!pc(p) = "serving"
        BY <1>5 DEF OneByOne!Drain, OneByOne!At
    <2>2. x2 = p
        BY <2>1 DEF OnesInv, OneByOne!Serving
    <2> QED BY <2>1, <2>2, OnesNames, OnesServes
<1> QED BY <1>1, <1>2, <1>3, <1>4, <1>5
        DEF OneByOne!Boot, OneByOne!Arm, OneByOne!WriteTemporary, OneByOne!RenameRecord

LEMMA OnesCleanUp ==
    ASSUME OnesInv, NEW p \in Operators, OneByOne!CleanUp(p) PROVE OnesInv'
<1> SUFFICES ASSUME OneByOne!At(p, "cleanup", "closing") PROVE OnesInv'
    BY OnesEnds DEF OneByOne!CleanUp
<1>1. OneByOne!At(p, "cleanup", "closing") /\ "closing" \in OnesPlaces
    BY DEF OnesPlaces
<1>2. /\ OneByOne!pc(p) = "cleanup"
      /\ x1' \in [Operators -> OnesRecords] /\ x1'[p].pc = "closing"
      /\ \A q \in Operators \ {p} : x1'[q] = x1[q]
    BY <1>1, OnesAt DEF OneByOne!pc
<1>3. \A q \in Operators : OneByOne!Works(q) => q = p
    BY <1>2, OnesNames DEF OnesInv
<1>4. \A q \in Operators : ~OneByOne!Works(q)'
    BY <1>2, <1>3, OnesNames, OnesNamesNext DEF OneByOne!pc
<1>5. \A q \in Operators : OneByOne!IsVerb(q)' => OneByOne!IsVerb(q)
    BY <1>2, OnesNames, OnesNamesNext DEF OneByOne!pc
<1>6. \A q \in Operators : OneByOne!pc(q)' \notin OneByOne!Booting \cup OneByOne!Serving
    BY <1>4 DEF OneByOne!Works
<1> QED BY <1>2, <1>4, <1>5, <1>6 DEF OnesInv

LEMMA OnesStep ==
    ASSUME OnesInv, OneByOne!Next PROVE OnesInv'
<1>1. PICK p \in Operators :
        \/ \E v \in OneByOne!Verbs : OneByOne!Start(p, v)
        \/ OneByOne!Recycle(p) \/ OneByOne!Interrupt(p)
        \/ OneByOne!Crash(p) \/ OneByOne!VerbStep(p)
        \/ OneByOne!Boot(p) \/ OneByOne!Receive(p) \/ OneByOne!Drain(p) \/ OneByOne!CleanUp(p)
        \/ OneByOne!EndProcess(p)
    BY DEF OneByOne!Next
<1>2. CASE \E v \in OneByOne!Verbs : OneByOne!Start(p, v)
    BY <1>2, OnesStarts
<1>3. CASE OneByOne!Recycle(p)
    BY <1>3, OnesEnds DEF OneByOne!Recycle
<1>4. CASE OneByOne!Crash(p)
    BY <1>4, OnesEnds DEF OneByOne!Crash
<1>5. CASE OneByOne!VerbStep(p)
    BY <1>5, OnesReads, OnesProbes, OnesSigterm, OnesRemoves, OnesForks DEF OneByOne!VerbStep
<1>6. CASE OneByOne!Interrupt(p) \/ OneByOne!Receive(p)
    BY <1>6, OnesInterrupt, OnesReceives
<1>7. CASE OneByOne!Boot(p) \/ OneByOne!Drain(p) \/ OneByOne!CleanUp(p)
    BY <1>7, OnesDaemon, OnesCleanUp
<1>8. CASE OneByOne!EndProcess(p)
    BY <1>8, OnesEnds DEF OneByOne!EndProcess
<1> QED BY <1>1, <1>2, <1>3, <1>4, <1>5, <1>6, <1>7, <1>8

\* OneDaemonOnRecord: commands given one after the other, with crashes,
\* aborts, timed-out stops, failed removals and stale records between them,
\* never lead to two daemons at work, and the one that serves is on record
\* (cli/run.rs, cli/lifecycle.rs).
THEOREM DaemonIsAlone == Spec => []OneDaemonOnRecord
<1> DEFINE I == part = "disciplined" => OnesInv
<1>1. Init => I
    BY OnesInit DEF Init
<1>2. I /\ [Next]_all => I'
    <2>1. ASSUME I, Next PROVE I'
        BY <2>1, OnesStep DEF Next, InOneByOne, InRaces, InSpelled, InEdited, InDetach,
           InPrompt, InRetention, InDocumented, InRewritten, InEvents
    <2>2. ASSUME I, UNCHANGED all PROVE I'
        BY <2>2 DEF all, OnesInv, OneByOne!pc, OneByOne!target, OneByOne!IsVerb, OneByOne!IsDaemon,
           OneByOne!Works
    <2> QED BY <2>1, <2>2
<1>3. I => OneDaemonOnRecord
    <2> SUFFICES ASSUME part = "disciplined", OnesInv
                 PROVE  OneByOne!OneDaemon /\ OneByOne!ServingIsRecorded
        BY DEF OneDaemonOnRecord
    <2> DEFINE D == {p \in Operators : OneByOne!Works(p)}
    <2>1. OneByOne!Cardinality(D) = Cardinality(D)
        BY DEF OneByOne!Cardinality, Cardinality
    <2>2. OneByOne!OneDaemon
        <3>1. CASE D = {}
            <4>1. Cardinality(D) = 0
                BY <3>1, FS_EmptySet
            <4> QED BY <2>1, <4>1 DEF OneByOne!OneDaemon
        <3>2. ASSUME NEW p \in D PROVE OneByOne!OneDaemon
            <4>1. D = {p}
                BY DEF OnesInv
            <4>2. Cardinality({p}) = 1
                BY FS_Singleton
            <4> QED BY <2>1, <4>1, <4>2 DEF OneByOne!OneDaemon
        <3> QED BY <3>1, <3>2
    <2>3. OneByOne!ServingIsRecorded
        BY DEF OnesInv, OneByOne!ServingIsRecorded
    <2> QED BY <2>2, <2>3
<1> QED BY <1>1, <1>2, <1>3, PTL DEF Spec

-----------------------------------------------------------------------------
(* Part "retention": daily files and the scan for old ones.                *)

\* While logging is set up the files in use are of today or yesterday, and
\* none is older than the cutoff; what the scan has passed is young, foreign
\* or cannot be removed.
PruneInv ==
    /\ Retention!TypeOK
    /\ x4 = "open" => \A p \in Retention!Prefix : x5[p] >= x1 - 1
    /\ x4 \in {"read", "scan"} =>
         x6 <= x1 - RetentionDays /\ \A p \in Retention!Prefix : x5[p] >= x6
    /\ x4 = "scan" => \A f \in x3 : f \in x7 \/ ~Retention!Expired(f) \/ f \in x8

LEMMA PruneInit ==
    ASSUME Retention!Init PROVE PruneInv
<1> USE DEF Retention!Init
<1>1. x3 \subseteq Retention!Other
    OBVIOUS
<1>2. x8 \subseteq Retention!LogFile
    BY RetentionAssumption DEF Retention!LogFile
<1> QED BY <1>1, <1>2, RetentionAssumption DEF PruneInv, Retention!TypeOK

\* Setting up, writing and time.
LEMMA PruneSetsUp ==
    ASSUME PruneInv, Retention!SetUp \/ Retention!SetUpFails PROVE PruneInv'
<1>1. CASE Retention!SetUp
    <2> USE DEF Retention!SetUp
    <2>1. Retention!Opened \subseteq Retention!LogFile
        BY DEF Retention!Opened, Retention!LogFile, PruneInv, Retention!TypeOK
    <2>2. Retention!TypeOK'
        BY <1>1, <2>1, RetentionAssumption DEF PruneInv, Retention!TypeOK
    <2>3. \A p \in Retention!Prefix : x5'[p] >= x1' - 1
        BY <1>1, RetentionAssumption DEF PruneInv, Retention!TypeOK
    <2> QED BY <1>1, <2>2, <2>3 DEF PruneInv
<1>2. CASE Retention!SetUpFails
    BY <1>2 DEF PruneInv, Retention!SetUpFails, Retention!vars, Retention!TypeOK, Retention!Expired
<1> QED BY <1>1, <1>2

LEMMA PruneTakesCutoff ==
    ASSUME PruneInv, Retention!TakeCutoff PROVE PruneInv'
BY RetentionAssumption DEF Retention!TakeCutoff, PruneInv, Retention!TypeOK

LEMMA PruneReads ==
    ASSUME PruneInv, Retention!ReadDir \/ Retention!ReadDirFails \/ Retention!ScanEnds PROVE PruneInv'
<1>1. CASE Retention!ReadDir
    BY <1>1 DEF Retention!ReadDir, PruneInv, Retention!TypeOK
<1>2. CASE Retention!ReadDirFails
    BY <1>2 DEF Retention!ReadDirFails, PruneInv, Retention!TypeOK
<1>3. CASE Retention!ScanEnds
    BY <1>3 DEF Retention!ScanEnds, PruneInv, Retention!TypeOK
<1> QED BY <1>1, <1>2, <1>3

LEMMA PrunePrunes ==
    ASSUME PruneInv, NEW f \in x7, Retention!Prune(f) PROVE PruneInv'
<1> USE DEF Retention!Prune
<1>1. Retention!TypeOK'
    BY DEF PruneInv, Retention!TypeOK
<1>2. x4' = "scan" /\ x6' <= x1' - RetentionDays /\ \A p \in Retention!Prefix : x5'[p] >= x6'
    BY DEF PruneInv
<1>3. ASSUME NEW g \in x3' PROVE g \in x7' \/ ~Retention!Expired(g)' \/ g \in x8'
    BY <1>3 DEF PruneInv, Retention!Expired
<1> QED BY <1>1, <1>2, <1>3 DEF PruneInv

LEMMA PruneWrites ==
    ASSUME PruneInv, NEW p \in Retention!Prefix, Retention!Write(p) PROVE PruneInv'
<1> USE DEF Retention!Write
<1>1. x1 \in 0 .. LastDay /\ x6 \in Int /\ x5 \in [Retention!Prefix -> 0 .. LastDay]
    BY RetentionAssumption DEF PruneInv, Retention!TypeOK
<1>2. [prefix |-> p, date |-> x1] \in Retention!LogFile
    BY <1>1 DEF Retention!LogFile
<1>3. Retention!TypeOK'
    BY <1>1, <1>2 DEF PruneInv, Retention!TypeOK
<1>4. \A q \in Retention!Prefix : x5'[q] = x5[q] \/ x5'[q] = x1
    BY <1>1
<1>5. x4 \in {"read", "scan"} => x6 <= x1
    BY <1>1, RetentionAssumption DEF PruneInv
<1>6. x4 = "open" => \A q \in Retention!Prefix : x5'[q] >= x1' - 1
    BY <1>1, <1>4, RetentionAssumption DEF PruneInv
<1>7. x4 \in {"read", "scan"} =>
        x6' <= x1' - RetentionDays /\ \A q \in Retention!Prefix : x5'[q] >= x6'
    BY <1>1, <1>4, <1>5, RetentionAssumption DEF PruneInv
<1>8. ASSUME x4 = "scan", NEW g \in x3' PROVE g \in x7' \/ ~Retention!Expired(g)' \/ g \in x8'
    <2>1. CASE g \in x3
        BY <1>8, <2>1 DEF PruneInv, Retention!Expired
    <2>2. CASE g = [prefix |-> p, date |-> x1]
        BY <1>1, <1>5, <1>8, <2>2 DEF Retention!Expired
    <2> QED BY <1>8, <2>1, <2>2
<1> QED BY <1>3, <1>6, <1>7, <1>8 DEF PruneInv

LEMMA PruneMidnight ==
    ASSUME PruneInv, Retention!Midnight PROVE PruneInv'
<1> USE DEF Retention!Midnight
<1>1. x1 \in 0 .. LastDay /\ x6 \in Int /\ x5 \in [Retention!Prefix -> 0 .. LastDay]
    BY RetentionAssumption DEF PruneInv, Retention!TypeOK
<1>2. Retention!TypeOK'
    BY <1>1, RetentionAssumption DEF PruneInv, Retention!TypeOK
<1>3. x4' = "open" => \A p \in Retention!Prefix : x5'[p] >= x1' - 1
    BY <1>1, RetentionAssumption
<1>4. x4' \in {"read", "scan"} =>
        x6' <= x1' - RetentionDays /\ \A p \in Retention!Prefix : x5'[p] >= x6'
    BY <1>1, RetentionAssumption DEF PruneInv
<1>5. x4' = "scan" => \A f \in x3' : f \in x7' \/ ~Retention!Expired(f)' \/ f \in x8'
    BY DEF PruneInv, Retention!Expired
<1> QED BY <1>2, <1>3, <1>4, <1>5 DEF PruneInv

LEMMA PruneDaemonEnds ==
    ASSUME PruneInv, Retention!DaemonEnds PROVE PruneInv'
BY DEF Retention!DaemonEnds, PruneInv, Retention!TypeOK

LEMMA PruneStep ==
    ASSUME PruneInv, Retention!Next PROVE PruneInv'
BY PruneSetsUp, PruneTakesCutoff, PruneReads, PrunePrunes, PruneWrites, PruneMidnight, PruneDaemonEnds
   DEF Retention!Next

\* Only the scan removes, and only what is older than its cutoff.
LEMMA OnlyScanRemoves ==
    ASSUME PruneInv, Retention!Next, NEW f \in x3 \ x3'
    PROVE  Retention!Prune(f) /\ Retention!Expired(f)
<1>1. PICK g \in x7 : Retention!Prune(g)
    BY DEF Retention!Next, Retention!SetUp, Retention!SetUpFails, Retention!vars,
       Retention!TakeCutoff, Retention!ReadDir, Retention!ReadDirFails, Retention!ScanEnds,
       Retention!Write, Retention!Midnight, Retention!DaemonEnds
<1>2. f = g /\ Retention!Expired(g)
    BY <1>1 DEF Retention!Prune
<1> QED BY <1>1, <1>2

LEMMA PruneLosesOnlyOld ==
    ASSUME PruneInv, Retention!Next PROVE Retention!LosesOnlyOld
<1> SUFFICES ASSUME NEW f \in x3 \ x3'
             PROVE  /\ f \in Retention!LogFile
                    /\ f.date < x1 - RetentionDays
                    /\ f.date # x5[f.prefix]
    BY DEF Retention!LosesOnlyOld
<1>1. x4 = "scan" /\ f.prefix \in Retention!Prefix /\ f.date < x6
    BY OnlyScanRemoves DEF Retention!Prune, Retention!Expired
<1>2. f \in Retention!LogFile \cup Retention!Other
    BY DEF PruneInv, Retention!TypeOK
<1>3. f \in Retention!LogFile /\ f.date \in Int
    BY <1>1, <1>2, RetentionAssumption DEF Retention!LogFile, Retention!Other
<1>4. x1 \in Int /\ x6 \in Int /\ x5[f.prefix] \in Int
    BY <1>1, RetentionAssumption DEF PruneInv, Retention!TypeOK
<1>5. x6 <= x1 - RetentionDays /\ x5[f.prefix] >= x6
    BY <1>1 DEF PruneInv
<1> QED BY <1>1, <1>3, <1>4, <1>5, RetentionAssumption

LEMMA PruneLeavesOnlyStuck ==
    ASSUME PruneInv PROVE Retention!LeavesOnlyStuck
BY DEF PruneInv, Retention!LeavesOnlyStuck, Retention!ScanEnds

\* PrunesExactly: for any number of days of retention, whatever midnight falls
\* between, the scan removes no young, foreign or open file, and a scan that
\* is over has left of the old days only what would not go
\* (logging/retention.rs, logging/mod.rs).
THEOREM RetentionIsExact == Spec => PrunesExactly
<1> DEFINE I == part = "retention" => PruneInv
<1>1. Init => I
    BY PruneInit DEF Init
<1>2. I /\ [Next]_all => I'
    <2>1. ASSUME I, Next PROVE I'
        BY <2>1, PruneStep DEF Next, InOneByOne, InRaces, InSpelled, InEdited, InDetach,
           InPrompt, InRetention, InDocumented, InRewritten, InEvents
    <2>2. ASSUME I, UNCHANGED all PROVE I'
        BY <2>2 DEF all, From3, From6, From7, From9, From10, PruneInv, Retention!TypeOK, Retention!Expired
    <2> QED BY <2>1, <2>2
<1>3. I /\ [Next]_all =>
        [part = "retention" => Retention!LosesOnlyOld /\ Retention!LeavesOnlyStuck]_all
    <2> SUFFICES ASSUME I, Next, part = "retention"
                 PROVE  Retention!LosesOnlyOld /\ Retention!LeavesOnlyStuck
        OBVIOUS
    <2>1. Retention!Next
        BY DEF Next, InOneByOne, InRaces, InSpelled, InEdited, InDetach, InPrompt,
           InRetention, InDocumented, InRewritten, InEvents
    <2> QED BY <2>1, PruneLosesOnlyOld, PruneLeavesOnlyStuck
<1> QED BY <1>1, <1>2, <1>3, PTL DEF Spec, PrunesExactly

-----------------------------------------------------------------------------
(* Part "detach": the double fork.                                         *)

DetachPlaces ==
    {"none", "pipe", "fork", "wait", "read", "rest", "setsid", "fork2", "hup", "stdin", "stdout",
     "report", "message", "handshake", "stderr", "ok", "err", "exit0", "exit1", "killed"}

AtLauncher     == x1["launcher"]
AtIntermediate == x1["intermediate"]
AtDaemon       == x1["daemon"]

\* What a daemon that gives up writes into the pipe, or what is left of it.
Refusals == Seq({"FAIL", "message"}) \ {<<>>}

LEMMA RefusalWords ==
    /\ <<"OK">> \notin Refusals /\ <<"OK">> # <<>> /\ <<>> \notin Refusals
    /\ Head(<<"OK">>) = "OK" /\ Tail(<<"OK">>) = <<>>
    /\ \A s \in Refusals : s # <<>> /\ Head(s) # "OK" /\ Tail(s) \in {<<>>} \cup Refusals
    /\ \A s \in {<<>>} \cup Refusals, word \in {"FAIL", "message"} : Append(s, word) \in Refusals
    /\ Append(<<>>, "OK") = <<"OK">>
<1> DEFINE S == {"FAIL", "message"}
<1>1. <<"OK">> \notin Seq(S)
    <2> SUFFICES ASSUME <<"OK">> \in Seq(S) PROVE FALSE
        OBVIOUS
    <2>1. Head(<<"OK">>) \in S
        OBVIOUS
    <2> QED BY <2>1
<1>2. ASSUME NEW s \in Refusals PROVE s # <<>> /\ Head(s) \in S /\ Tail(s) \in Seq(S)
    BY <1>2 DEF Refusals
<1>3. ASSUME NEW s \in Seq(S), NEW word \in S PROVE Append(s, word) \in Seq(S) /\ Append(s, word) # <<>>
    OBVIOUS
<1>4. {<<>>} \cup Refusals = Seq(S)
    <2>1. <<>> \in Seq(S)
        OBVIOUS
    <2> QED BY <2>1 DEF Refusals
<1>5. \A word \in S : word # "OK"
    OBVIOUS
<1> QED BY <1>1, <1>2, <1>3, <1>4, <1>5 DEF Refusals

\* The processes come one after the other; the daemon is as detached as it has
\* come far; OK in the pipe, or read from it, is the word of a daemon that is
\* detached, and nothing else says anything of one; and a detached daemon's
\* word is in the pipe as long as the launcher has not read it.
DetachInv ==
    /\ x1 \in [{"launcher", "intermediate", "daemon"} -> DetachPlaces]
    /\ AtLauncher \in {"pipe", "fork"} => AtIntermediate = "none"
    /\ AtDaemon # "none" => AtIntermediate = "exit0"
    /\ AtIntermediate \in {"fork2", "exit0"} => x4 = "intermediate"
    /\ AtDaemon \in {"stdin", "stdout", "handshake", "stderr", "ok"} => x5 = TRUE
    /\ AtDaemon = "stdout" => "stdin" \in x6
    /\ AtDaemon \in {"handshake", "stderr", "ok"} => "stdin" \in x6 /\ "stdout" \in x6
    /\ x3 \in {<<>>, <<"OK">>} \cup Refusals
    /\ AtDaemon \in {"none", "hup", "stdin", "stdout", "report", "handshake"} => x3 = <<>>
    /\ x3 = <<"OK">> \/ AtLauncher = "exit0" => AtDaemon \in {"stderr", "ok"}
    /\ x3 \in Refusals \/ AtLauncher = "rest" => AtDaemon \in {"message", "exit1", "killed"}
    /\ AtDaemon \in {"stderr", "ok"} /\ AtLauncher \notin {"ok", "err", "exit0", "exit1", "killed"}
       => x3 = <<"OK">>

LEMMA DetachNames ==
    /\ Detach!Launcher = "launcher"
    /\ Detach!Intermediate = "intermediate"
    /\ Detach!Daemon = "daemon"
    /\ Detach!Over = {"ok", "err", "exit0", "exit1", "killed"}
BY DEF Detach!Launcher, Detach!Intermediate, Detach!Daemon, Detach!Over

LEMMA DetachInit ==
    ASSUME Detach!Init PROVE DetachInv
BY DetachNames, RefusalWords DEF Detach!Init, Detach!Processes, DetachInv, DetachPlaces, AtLauncher,
   AtIntermediate, AtDaemon

\* One process moves, the other two stay.
LEMMA DetachMoves ==
    ASSUME DetachInv, NEW to \in DetachPlaces
    PROVE  /\ x1' = [x1 EXCEPT !["launcher"] = to] =>
                /\ x1' \in [{"launcher", "intermediate", "daemon"} -> DetachPlaces]
                /\ AtLauncher' = to /\ UNCHANGED <<AtIntermediate, AtDaemon>>
           /\ x1' = [x1 EXCEPT !["intermediate"] = to] =>
                /\ x1' \in [{"launcher", "intermediate", "daemon"} -> DetachPlaces]
                /\ AtIntermediate' = to /\ UNCHANGED <<AtLauncher, AtDaemon>>
           /\ x1' = [x1 EXCEPT !["daemon"] = to] =>
                /\ x1' \in [{"launcher", "intermediate", "daemon"} -> DetachPlaces]
                /\ AtDaemon' = to /\ UNCHANGED <<AtLauncher, AtIntermediate>>
BY DEF DetachInv, AtLauncher, AtIntermediate, AtDaemon

\* The launcher moves on: it believes in a daemon when it has read OK, and
\* looks for a message only when it has read something else.
LEMMA DetachLauncherMoves ==
    ASSUME DetachInv, NEW to \in DetachPlaces, x1' = [x1 EXCEPT !["launcher"] = to],
           UNCHANGED <<x4, x5, x6>>,
           x3' = <<>> \/ UNCHANGED x3 \/ (x3 \in Refusals /\ x3' \in Refusals),
           to \notin {"pipe"},
           to = "fork" => AtLauncher = "pipe",
           to = "exit0" => x3 = <<"OK">>,
           to = "rest" => x3 \in Refusals,
           AtLauncher \in {"ok", "err", "exit0", "exit1", "killed"} => to = AtLauncher,
           to \notin {"ok", "err", "exit0", "exit1", "killed", "rest"} => UNCHANGED x3
    PROVE  DetachInv'
<1>1. /\ x1' \in [{"launcher", "intermediate", "daemon"} -> DetachPlaces]
      /\ AtLauncher' = to /\ UNCHANGED <<AtIntermediate, AtDaemon>>
    BY DetachMoves
<1> QED BY <1>1, RefusalWords DEF DetachInv

LEMMA DetachLauncherStep ==
    ASSUME DetachInv,
           \/ Detach!OpenPipe \/ Detach!ReapIntermediate \/ Detach!ReadHandshake
           \/ Detach!ReadFails \/ Detach!ReadMessage \/ Detach!Interrupted
    PROVE  DetachInv'
<1> USE DetachNames DEF Detach!daemonVars
<1>1. CASE Detach!OpenPipe
    <2>1. PICK to \in {"fork", "err"} :
            x1["launcher"] = "pipe" /\ x1' = [x1 EXCEPT !["launcher"] = to]
        BY <1>1 DEF Detach!OpenPipe
    <2> QED BY <1>1, <2>1, DetachLauncherMoves DEF Detach!OpenPipe, AtLauncher, DetachPlaces
<1>2. CASE Detach!ReapIntermediate
    BY <1>2, DetachLauncherMoves DEF Detach!ReapIntermediate, Detach!Step, AtLauncher, DetachPlaces
<1>3. CASE Detach!ReadHandshake
    <2>0. AtLauncher = "read" /\ UNCHANGED <<x4, x5, x6>>
        BY <1>3 DEF Detach!ReadHandshake, AtLauncher
    <2>1. CASE x3 = <<>>
        <3>1. x1' = [x1 EXCEPT !["launcher"] = "err"] /\ UNCHANGED x3
            BY <1>3, <2>1 DEF Detach!ReadHandshake, Detach!Step
        <3> QED BY <2>0, <3>1, DetachLauncherMoves DEF DetachPlaces
    <2>2. CASE x3 = <<"OK">>
        <3>1. x1' = [x1 EXCEPT !["launcher"] = "exit0"] /\ x3' = <<>>
            BY <1>3, <2>2, RefusalWords DEF Detach!ReadHandshake, Detach!Step
        <3> QED BY <2>0, <2>2, <3>1, DetachLauncherMoves DEF DetachPlaces
    <2>3. CASE x3 \in Refusals
        <3>1. x1' = [x1 EXCEPT !["launcher"] = "rest"] /\ x3' = Tail(x3)
            BY <1>3, <2>3, RefusalWords DEF Detach!ReadHandshake, Detach!Step
        <3>2. x3' = <<>> \/ x3' \in Refusals
            BY <2>3, <3>1, RefusalWords
        <3>3. "rest" \in DetachPlaces
            BY DEF DetachPlaces
        <3> QED BY <2>0, <2>3, <3>1, <3>2, <3>3, DetachLauncherMoves
    <2> QED BY <2>1, <2>2, <2>3 DEF DetachInv
<1>4. CASE Detach!ReadFails
    BY <1>4, DetachLauncherMoves DEF Detach!ReadFails, Detach!Step, AtLauncher, DetachPlaces
<1>5. CASE Detach!ReadMessage
    BY <1>5, DetachLauncherMoves DEF Detach!ReadMessage, Detach!Step, AtLauncher, DetachPlaces
<1>6. CASE Detach!Interrupted
    BY <1>6, DetachLauncherMoves DEF Detach!Interrupted, Detach!Step, AtLauncher, DetachPlaces
<1> QED BY <1>1, <1>2, <1>3, <1>4, <1>5, <1>6

LEMMA DetachForks ==
    ASSUME DetachInv, Detach!FirstFork \/ Detach!SecondFork PROVE DetachInv'
<1> USE DetachNames DEF Detach!daemonVars
<1>1. CASE Detach!FirstFork
    <2>1. CASE x1["launcher"] = "fork" /\ x1' = [x1 EXCEPT !["launcher"] = "err"]
        BY <1>1, <2>1, DetachLauncherMoves DEF Detach!FirstFork, AtLauncher, DetachPlaces
    <2>2. CASE /\ x1["launcher"] = "fork"
               /\ x1' = [x1 EXCEPT !["launcher"] = "wait", !["intermediate"] = "setsid"]
        <3>1. /\ x1' \in [{"launcher", "intermediate", "daemon"} -> DetachPlaces]
              /\ AtLauncher = "fork" /\ AtLauncher' = "wait"
              /\ AtIntermediate' = "setsid" /\ UNCHANGED AtDaemon
            BY <2>2 DEF DetachInv, DetachPlaces, AtLauncher, AtIntermediate, AtDaemon
        <3>2. UNCHANGED <<x3, x4, x5, x6>>
            BY <1>1 DEF Detach!FirstFork
        <3> QED BY <3>1, <3>2 DEF DetachInv
    <2> QED BY <1>1, <2>1, <2>2 DEF Detach!FirstFork, Detach!Fork, Detach!Step
<1>2. CASE Detach!SecondFork
    <2>1. CASE x1["intermediate"] = "fork2" /\ x1' = [x1 EXCEPT !["intermediate"] = "err"]
        <3>1. /\ x1' \in [{"launcher", "intermediate", "daemon"} -> DetachPlaces]
              /\ AtIntermediate = "fork2" /\ AtIntermediate' = "err"
              /\ UNCHANGED <<AtLauncher, AtDaemon>>
            BY <2>1, DetachMoves DEF DetachPlaces, AtIntermediate
        <3>2. UNCHANGED <<x3, x4, x5, x6>>
            BY <1>2 DEF Detach!SecondFork
        <3> QED BY <3>1, <3>2 DEF DetachInv
    <2>2. CASE /\ x1["intermediate"] = "fork2"
               /\ x1' = [x1 EXCEPT !["intermediate"] = "exit0", !["daemon"] = "hup"]
        <3>1. /\ x1' \in [{"launcher", "intermediate", "daemon"} -> DetachPlaces]
              /\ AtIntermediate = "fork2" /\ AtIntermediate' = "exit0"
              /\ AtDaemon' = "hup" /\ UNCHANGED AtLauncher
            BY <2>2 DEF DetachInv, DetachPlaces, AtLauncher, AtIntermediate, AtDaemon
        <3>2. UNCHANGED <<x3, x4, x5, x6>>
            BY <1>2 DEF Detach!SecondFork
        <3>3. AtDaemon = "none"
            BY <3>1 DEF DetachInv
        <3> QED BY <3>1, <3>2, <3>3 DEF DetachInv
    <2> QED BY <1>2, <2>1, <2>2 DEF Detach!SecondFork, Detach!Fork, Detach!Step
<1> QED BY <1>1, <1>2

LEMMA DetachSetsid ==
    ASSUME DetachInv, Detach!Setsid PROVE DetachInv'
<1> USE DetachNames
<1>1. PICK to \in {"fork2", "err"} :
        /\ x1["intermediate"] = "setsid" /\ x1' = [x1 EXCEPT !["intermediate"] = to]
        /\ to = "fork2" => x4' = "intermediate"
    BY DEF Detach!Setsid, Detach!Step
<1>2. /\ x1' \in [{"launcher", "intermediate", "daemon"} -> DetachPlaces]
      /\ AtIntermediate = "setsid" /\ AtIntermediate' = to
      /\ UNCHANGED <<AtLauncher, AtDaemon>>
    BY <1>1, DetachMoves DEF DetachPlaces, AtIntermediate
<1>3. UNCHANGED <<x3, x5, x6>>
    BY DEF Detach!Setsid
<1> QED BY <1>1, <1>2, <1>3 DEF DetachInv

\* The daemon moves on without a word.
LEMMA DetachDaemonMoves ==
    ASSUME DetachInv, NEW from \in DetachPlaces, NEW to \in DetachPlaces,
           x1["daemon"] = from, from # "none",
           x1' = [x1 EXCEPT !["daemon"] = to],
           UNCHANGED <<x3, x4>>,
           to \in {"stdin", "stdout", "handshake", "report", "ok", "killed"},
           to = "ok" => from = "stderr",
           to \in {"stdin", "stdout", "handshake", "report"} => from \in {"hup", "stdin", "stdout"},
           to = "killed" => from \notin {"stderr", "ok"},
           x5 = TRUE => x5' = TRUE,
           x6 \subseteq x6',
           to \in {"stdin", "stdout", "handshake", "ok"} => x5' = TRUE,
           to = "stdout" => "stdin" \in x6',
           to = "handshake" => "stdin" \in x6' /\ "stdout" \in x6'
    PROVE  DetachInv'
<1>1. /\ x1' \in [{"launcher", "intermediate", "daemon"} -> DetachPlaces]
      /\ AtDaemon = from /\ AtDaemon' = to
      /\ UNCHANGED <<AtLauncher, AtIntermediate>>
    BY DetachMoves DEF AtDaemon
<1>2. AtIntermediate = "exit0" /\ x4 = "intermediate"
    BY <1>1 DEF DetachInv
<1>3. to = "ok" => "stdin" \in x6' /\ "stdout" \in x6'
    BY <1>1 DEF DetachInv
<1> QED BY <1>1, <1>2, <1>3 DEF DetachInv

LEMMA DetachSetUp ==
    ASSUME DetachInv,
           Detach!IgnoreHup \/ Detach!RedirectStdio \/ Detach!RedirectStderr \/ Detach!HungUp
    PROVE  DetachInv'
<1> USE DetachNames
<1>1. CASE Detach!IgnoreHup
    <2>1. PICK to \in {"stdin", "report"} :
            /\ x1["daemon"] = "hup" /\ x1' = [x1 EXCEPT !["daemon"] = to]
            /\ IF to = "stdin" THEN x5' = TRUE ELSE UNCHANGED x5
        BY <1>1 DEF Detach!IgnoreHup, Detach!Step
    <2>2. UNCHANGED <<x3, x4, x6>>
        BY <1>1 DEF Detach!IgnoreHup
    <2> QED BY <2>1, <2>2, DetachDaemonMoves DEF DetachPlaces
<1>2. CASE Detach!RedirectStdio
    <2>1. UNCHANGED <<x3, x4, x5>>
        BY <1>2 DEF Detach!RedirectStdio, Detach!Redirect
    <2>2. PICK from \in {"stdin", "stdout"} :
            /\ x1["daemon"] = from
            /\ \/ /\ x1' = [x1 EXCEPT !["daemon"] = IF from = "stdin" THEN "stdout" ELSE "handshake"]
                  /\ x6' = x6 \cup {from}
               \/ x1' = [x1 EXCEPT !["daemon"] = "report"] /\ UNCHANGED x6
        BY <1>2 DEF Detach!RedirectStdio, Detach!Redirect, Detach!Step
    <2>3. x5 = TRUE /\ (from = "stdout" => "stdin" \in x6)
        BY <2>2 DEF DetachInv, AtDaemon
    <2>4. CASE x1' = [x1 EXCEPT !["daemon"] = "report"] /\ UNCHANGED x6
        BY <2>1, <2>2, <2>3, <2>4, DetachDaemonMoves DEF DetachPlaces
    <2>5. CASE from = "stdin" /\ x1' = [x1 EXCEPT !["daemon"] = "stdout"] /\ x6' = x6 \cup {from}
        BY <2>1, <2>2, <2>3, <2>5, DetachDaemonMoves DEF DetachPlaces
    <2>6. CASE from = "stdout" /\ x1' = [x1 EXCEPT !["daemon"] = "handshake"] /\ x6' = x6 \cup {from}
        BY <2>1, <2>2, <2>3, <2>6, DetachDaemonMoves DEF DetachPlaces
    <2> QED BY <2>2, <2>4, <2>5, <2>6
<1>3. CASE Detach!RedirectStderr
    <2>1. /\ x1["daemon"] = "stderr" /\ x1' = [x1 EXCEPT !["daemon"] = "ok"]
          /\ UNCHANGED <<x3, x4, x5>> /\ x6 \subseteq x6'
        BY <1>3 DEF Detach!RedirectStderr, Detach!Step
    <2>2. x5 = TRUE
        BY <2>1 DEF DetachInv, AtDaemon
    <2> QED BY <2>1, <2>2, DetachDaemonMoves DEF DetachPlaces
<1>4. CASE Detach!HungUp
    <2>1. /\ x1["daemon"] # "none" /\ x1["daemon"] # "ok" /\ x5 # TRUE
          /\ x1' = [x1 EXCEPT !["daemon"] = "killed"]
          /\ UNCHANGED <<x3, x4, x5, x6>>
        BY <1>4 DEF Detach!HungUp, Detach!Step, Detach!daemonVars
    <2>2. x1["daemon"] # "stderr" /\ x1["daemon"] \in DetachPlaces
        BY <2>1 DEF DetachInv, AtDaemon
    <2> QED BY <2>1, <2>2, DetachDaemonMoves DEF DetachPlaces
<1> QED BY <1>1, <1>2, <1>3, <1>4

\* The daemon's word, one way or the other.
LEMMA DetachReports ==
    ASSUME DetachInv, Detach!Handshake \/ Detach!ReportFailure PROVE DetachInv'
<1> USE DetachNames
<1>0. UNCHANGED <<x4, x5, x6>>
    BY DEF Detach!Handshake, Detach!ReportFailure, Detach!daemonVars
<1>1. CASE Detach!Handshake
    <2>1. /\ x1["daemon"] = "handshake" /\ x1' = [x1 EXCEPT !["daemon"] = "stderr"]
          /\ x3' = IF x1["launcher"] \in Detach!Over THEN x3 ELSE Append(x3, "OK")
        BY <1>1 DEF Detach!Handshake
    <2>2. /\ x1' \in [{"launcher", "intermediate", "daemon"} -> DetachPlaces]
          /\ AtDaemon = "handshake" /\ AtDaemon' = "stderr"
          /\ UNCHANGED <<AtLauncher, AtIntermediate>>
        BY <2>1, DetachMoves DEF DetachPlaces, AtDaemon
    <2>3. x3 = <<>>
        BY <2>2 DEF DetachInv
    <2>4. x3' = IF AtLauncher \in Detach!Over THEN <<>> ELSE <<"OK">>
        BY <2>1, <2>3, RefusalWords DEF AtLauncher
    <2> QED BY <1>0, <2>2, <2>4, RefusalWords DEF DetachInv
<1>2. CASE /\ x1["daemon"] = "report" /\ x1' = [x1 EXCEPT !["daemon"] = "message"]
           /\ x3' = Append(x3, "FAIL")
    <2>1. /\ x1' \in [{"launcher", "intermediate", "daemon"} -> DetachPlaces]
          /\ AtDaemon = "report" /\ AtDaemon' = "message"
          /\ UNCHANGED <<AtLauncher, AtIntermediate>>
        BY <1>2, DetachMoves DEF DetachPlaces, AtDaemon
    <2>2. x3 = <<>>
        BY <2>1 DEF DetachInv
    <2>3. x3' \in Refusals
        BY <1>2, <2>2, RefusalWords
    <2> QED BY <1>0, <2>1, <2>3, RefusalWords DEF DetachInv
<1>3. CASE /\ x1["daemon"] = "message" /\ x1' = [x1 EXCEPT !["daemon"] = "exit1"]
           /\ x3' = Append(x3, "message")
    <2>1. /\ x1' \in [{"launcher", "intermediate", "daemon"} -> DetachPlaces]
          /\ AtDaemon = "message" /\ AtDaemon' = "exit1"
          /\ UNCHANGED <<AtLauncher, AtIntermediate>>
        BY <1>3, DetachMoves DEF DetachPlaces, AtDaemon
    <2>2. x3 \in {<<>>} \cup Refusals
        BY <2>1 DEF DetachInv
    <2>3. x3' \in Refusals
        BY <1>3, <2>2, RefusalWords
    <2> QED BY <1>0, <2>1, <2>3, RefusalWords DEF DetachInv
<1> QED BY <1>1, <1>2, <1>3 DEF Detach!ReportFailure, Detach!Step

LEMMA DetachStep ==
    ASSUME DetachInv, Detach!Next PROVE DetachInv'
<1>1. CASE Detach!LauncherStep \/ Detach!ReadFails \/ Detach!Interrupted
    BY <1>1, DetachLauncherStep, DetachForks DEF Detach!LauncherStep
<1>2. CASE Detach!IntermediateStep
    BY <1>2, DetachForks, DetachSetsid DEF Detach!IntermediateStep
<1>3. CASE Detach!DaemonStep \/ Detach!HungUp
    BY <1>3, DetachSetUp, DetachReports DEF Detach!DaemonStep
<1>4. CASE Detach!Done
    BY <1>4 DEF Detach!Done, Detach!vars, DetachInv, AtLauncher, AtIntermediate, AtDaemon
<1> QED BY <1>1, <1>2, <1>3, <1>4 DEF Detach!Next

\* A launcher that is over stays so.
LEMMA DetachErrors ==
    ASSUME DetachInv, Detach!Next, x1["launcher"] # "err", x1'["launcher"] = "err"
    PROVE  x1["launcher"] \in {"pipe", "fork", "read", "rest"}
<1> USE DetachNames DEF DetachInv, Detach!Step
<1>1. CASE Detach!OpenPipe \/ Detach!FirstFork
    BY <1>1 DEF Detach!OpenPipe, Detach!FirstFork, Detach!Fork
<1>2. CASE Detach!ReapIntermediate \/ Detach!Interrupted
    BY <1>2 DEF Detach!ReapIntermediate, Detach!Interrupted
<1>3. CASE Detach!ReadHandshake \/ Detach!ReadFails \/ Detach!ReadMessage
    BY <1>3 DEF Detach!ReadHandshake, Detach!ReadFails, Detach!ReadMessage
<1>4. CASE Detach!Setsid \/ Detach!SecondFork
    BY <1>4 DEF Detach!Setsid, Detach!SecondFork, Detach!Fork
<1>5. CASE Detach!IgnoreHup \/ Detach!RedirectStdio \/ Detach!RedirectStderr
    BY <1>5 DEF Detach!IgnoreHup, Detach!RedirectStdio, Detach!Redirect, Detach!RedirectStderr
<1>6. CASE Detach!Handshake \/ Detach!ReportFailure \/ Detach!HungUp
    BY <1>6 DEF Detach!Handshake, Detach!ReportFailure, Detach!HungUp
<1>7. CASE Detach!Done
    BY <1>7 DEF Detach!Done, Detach!vars
<1> QED BY <1>1, <1>2, <1>3, <1>4, <1>5, <1>6, <1>7
        DEF Detach!Next, Detach!LauncherStep, Detach!IntermediateStep, Detach!DaemonStep

\* LauncherTellsTruth: `run -d' exits cleanly only when a daemon is on its own,
\* and a failure that the daemon's side is the cause of leaves none, whichever
\* system call fails and whoever is interrupted (daemon/detach/unix.rs).
THEOREM ExitStatusIsTrue == Spec => LauncherTellsTruth
<1> USE DetachNames
<1> DEFINE I == part = "detach" => DetachInv
<1>1. Init => I
    BY DetachInit DEF Init
<1>2. I /\ [Next]_all => I'
    <2>1. ASSUME I, Next PROVE I'
        BY <2>1, DetachStep DEF Next, InOneByOne, InRaces, InSpelled, InEdited, InDetach,
           InPrompt, InRetention, InDocumented, InRewritten, InEvents
    <2>2. ASSUME I, UNCHANGED all PROVE I'
        BY <2>2 DEF all, From3, From6, DetachInv, AtLauncher, AtIntermediate, AtDaemon
    <2> QED BY <2>1, <2>2
<1>3. I /\ I' /\ [Next]_all =>
        [part = "detach" => Detach!SuccessMeansDetached' /\ Detach!FailureIsTheDaemons]_all
    <2> SUFFICES ASSUME I, I', Next, part = "detach"
                 PROVE  Detach!SuccessMeansDetached' /\ Detach!FailureIsTheDaemons
        OBVIOUS
    <2>1. part' = "detach"
        BY DEF Next, InOneByOne, InRaces, InSpelled, InEdited, InDetach, InPrompt,
           InRetention, InDocumented, InRewritten, InEvents
    <2>2. DetachInv'
        BY <2>1
    <2>3. Detach!SuccessMeansDetached'
        BY <2>2 DEF DetachInv, Detach!SuccessMeansDetached, AtLauncher, AtDaemon
    <2>4. DetachInv /\ Detach!Next
        BY DEF Next, InOneByOne, InRaces, InSpelled, InEdited, InDetach, InPrompt,
           InRetention, InDocumented, InRewritten, InEvents
    <2>5. Detach!FailureIsTheDaemons
        <3> SUFFICES ASSUME x1["launcher"] # "err", x1'["launcher"] = "err",
                            x3 = <<>> \/ x1["launcher"] = "rest"
                     PROVE  x1["daemon"] \notin {"stderr", "ok"}
            BY DEF Detach!FailureIsTheDaemons
        <3>1. AtLauncher \notin {"ok", "exit0", "exit1", "killed"}
            BY <2>4, DetachErrors DEF AtLauncher
        <3> QED BY <2>4, <3>1, RefusalWords DEF DetachInv, AtLauncher, AtDaemon
    <2> QED BY <2>3, <2>5
<1> QED BY <1>1, <1>2, <1>3, PTL DEF Spec, LauncherTellsTruth

-----------------------------------------------------------------------------
(* Parts "documents" and "rewritten": what the diagnosis means.            *)

\* An error that some section reports is one of the document, wherever the
\* section is.
Errs(findings) == \E pointer, code : Documented!Error(pointer, code) \in findings

LEMMA ErrorsCount ==
    ASSUME NEW findings, Errs(findings) PROVE Documented!HasErrors(findings)
BY DEF Errs, Documented!Error, Documented!HasErrors

LEMMA ErrorsRise ==
    ASSUME NEW findings, Errs(findings), NEW pointer PROVE Errs(Documented!Under(pointer, findings))
<1>1. PICK p, c : Documented!Error(p, c) \in findings
    BY DEF Errs
<1>2. [Documented!Error(p, c) EXCEPT !.pointer = pointer \o @] = Documented!Error(pointer \o p, c)
    <2>1. Documented!Error(p, c).pointer = p
        BY DEF Documented!Error
    <2>2. \A q : [Documented!Error(p, c) EXCEPT !.pointer = q] = Documented!Error(q, c)
        BY DEF Documented!Error
    <2> QED BY <2>1, <2>2
<1>3. Documented!Error(pointer \o p, c) \in Documented!Under(pointer, findings)
    BY <1>1, <1>2 DEF Documented!Under
<1> QED BY <1>3 DEF Errs

LEMMA ErrorsRaised ==
    ASSUME NEW field, NEW pointer, NEW code
    PROVE  /\ Errs({Documented!Error(pointer, code)})
           /\ Errs(Documented!ErrorIfNonPositive(field, 0))
           /\ Errs(Documented!ErrorIfEmptyPath(field, ""))
           /\ \A value \in Documented!Blank : Errs(Documented!ErrorIfEmptyStr(field, value))
BY DEF Errs, Documented!ErrorIf, Documented!ErrorIfNonPositive, Documented!ErrorIfEmptyPath,
   Documented!ErrorIfEmptyStr

LEMMA ErrorsSpread ==
    ASSUME NEW some, NEW every, Errs(some), some \subseteq every PROVE Errs(every)
BY DEF Errs

LEMMA LoopErrors ==
    ASSUME NEW loop,
           loop.max_issue_concurrency = 0 \/ loop.max_iterations = << 0 >>
    PROVE  Errs(Documented!DiagnoseLoop(loop))
<1>1. CASE loop.max_issue_concurrency = 0
    <2>1. Errs(Documented!ErrorIfNonPositive("max_issue_concurrency", loop.max_issue_concurrency))
        BY <1>1, ErrorsRaised
    <2> QED BY <2>1, ErrorsSpread DEF Documented!DiagnoseLoop
<1>2. CASE loop.max_iterations = << 0 >>
    <2>1. Errs(Documented!ErrorIfNonPositive("max_iterations", loop.max_iterations[1]))
        <3>1. loop.max_iterations[1] = 0
            BY <1>2
        <3> QED BY <3>1, ErrorsRaised
    <2>2. loop.max_iterations # <<>>
        BY <1>2
    <2> QED BY <2>1, <2>2, ErrorsSpread DEF Documented!DiagnoseLoop
<1> QED BY <1>1, <1>2

LEMMA IssuesErrors ==
    ASSUME NEW issues, issues.pull.idle_sec = 0
    PROVE  Errs(Documented!DiagnoseIssues(issues))
<1> DEFINE pull == Documented!ErrorIfEmptyStr("command", issues.pull.command)
                      \cup Documented!ErrorIfNonPositive("idle_sec", issues.pull.idle_sec)
                      \cup Documented!WarnUnknownFields(issues.pull.unknown)
<1>1. Errs(Documented!ErrorIfNonPositive("idle_sec", issues.pull.idle_sec))
    BY ErrorsRaised
<1>2. Errs(pull)
    BY <1>1, ErrorsSpread
<1>3. Errs(Documented!Under(<<"pull">>, pull))
    BY <1>2, ErrorsRise
<1> QED BY <1>3, ErrorsSpread DEF Documented!DiagnoseIssues

LEMMA StageErrors ==
    ASSUME NEW stage, NEW agents, stage.agent \notin DOMAIN agents \/ stage.prompt = ""
    PROVE  Errs(Documented!DiagnoseStage(stage, agents))
<1>1. CASE stage.agent \in Documented!Blank
    <2>1. Errs(Documented!ErrorIfEmptyStr("agent", stage.agent))
        BY <1>1, ErrorsRaised
    <2> QED BY <2>1, ErrorsSpread DEF Documented!DiagnoseStage
<1>2. CASE stage.agent \notin Documented!Blank /\ stage.agent \notin DOMAIN agents
    <2>1. Errs(Documented!UnknownAgent(stage, agents))
        BY <1>2, ErrorsRaised DEF Documented!UnknownAgent, Documented!ErrorIf
    <2> QED BY <2>1, ErrorsSpread DEF Documented!DiagnoseStage
<1>3. CASE stage.prompt = ""
    <2>1. "" \in Documented!Blank
        BY DEF Documented!Blank
    <2>2. Errs(Documented!ErrorIfEmptyStr("prompt", stage.prompt))
        BY <1>3, <2>1, ErrorsRaised
    <2>3. Errs(Documented!ErrorIfEmptyPath("prompt_file", stage.prompt))
        BY <1>3, ErrorsRaised
    <2>4. Errs(Documented!DiagnosePrompt(stage))
        BY <2>2, <2>3 DEF Documented!DiagnosePrompt
    <2> QED BY <2>4, ErrorsSpread DEF Documented!DiagnoseStage
<1> QED BY <1>1, <1>2, <1>3

LEMMA IssueErrors ==
    ASSUME NEW issue, NEW agents,
           \/ DOMAIN issue.stages = {}
           \/ \E s \in DOMAIN issue.stages :
                 issue.stages[s].agent \notin DOMAIN agents \/ issue.stages[s].prompt = ""
    PROVE  Errs(Documented!DiagnoseIssue(issue, agents))
<1>1. CASE DOMAIN issue.stages = {}
    <2>1. Errs(Documented!ErrorIf(DOMAIN issue.stages = {}, <<"stages">>, "empty_map"))
        BY <1>1, ErrorsRaised DEF Documented!ErrorIf
    <2> QED BY <2>1, ErrorsSpread DEF Documented!DiagnoseIssue
<1>2. ASSUME NEW s \in DOMAIN issue.stages,
             issue.stages[s].agent \notin DOMAIN agents \/ issue.stages[s].prompt = ""
      PROVE  Errs(Documented!DiagnoseIssue(issue, agents))
    <2> DEFINE Of(t) == Documented!ErrorIfEmptyStr("stages", t)
                          \cup Documented!Under(Documented!StagePointer(t),
                                                Documented!DiagnoseStage(issue.stages[t], agents))
    <2>1. Errs(Documented!DiagnoseStage(issue.stages[s], agents))
        BY <1>2, StageErrors
    <2>2. Errs(Documented!Under(Documented!StagePointer(s),
                                Documented!DiagnoseStage(issue.stages[s], agents)))
        BY <2>1, ErrorsRise
    <2>3. Errs(Of(s))
        BY <2>2, ErrorsSpread
    <2>4. Of(s) \subseteq UNION {Of(t) : t \in DOMAIN issue.stages}
        OBVIOUS
    <2>5. UNION {Of(t) : t \in DOMAIN issue.stages} \subseteq Documented!DiagnoseIssue(issue, agents)
        BY DEF Documented!DiagnoseIssue
    <2> HIDE DEF Of
    <2>6. Of(s) \subseteq Documented!DiagnoseIssue(issue, agents)
        BY <2>4, <2>5
    <2> QED BY <2>3, <2>6, ErrorsSpread
<1> QED BY <1>1, <1>2

\* A schema without an error is one the orchestrator can work with.
Workable(schema) ==
    /\ schema.loop.max_issue_concurrency # 0
    /\ schema.loop.max_iterations # << 0 >>
    /\ schema.issues.pull.idle_sec # 0
    /\ DOMAIN schema.issue.stages # {}
    /\ \A s \in DOMAIN schema.issue.stages :
        schema.issue.stages[s].agent \in DOMAIN schema.agents
        /\ schema.issue.stages[s].prompt # ""

LEMMA CleanIsWorkable ==
    ASSUME NEW schema, ~Documented!HasErrors(Documented!Diagnose(schema))
    PROVE  Workable(schema)
<1>1. ~Errs(Documented!Diagnose(schema))
    BY ErrorsCount
<1>2. ASSUME NEW section, NEW pointer, Errs(section),
             Documented!Under(pointer, section) \subseteq Documented!Diagnose(schema)
      PROVE  FALSE
    BY <1>1, <1>2, ErrorsRise, ErrorsSpread
<1>3. ~Errs(Documented!DiagnoseLoop(schema.loop))
    BY <1>2 DEF Documented!Diagnose
<1>4. ~Errs(Documented!DiagnoseIssues(schema.issues))
    BY <1>2 DEF Documented!Diagnose
<1>5. ~Errs(Documented!DiagnoseIssue(schema.issue, schema.agents))
    BY <1>2 DEF Documented!Diagnose
<1> QED BY <1>3, <1>4, <1>5, LoopErrors, IssuesErrors, IssueErrors DEF Workable

\* The same for warnings: keys that are warned of somewhere are warned of.
Warns(findings) == \E pointer, code : Documented!Warning(pointer, code) \in findings

LEMMA WarningsCount ==
    ASSUME NEW findings, Warns(findings) PROVE Documented!HasWarnings(findings)
BY DEF Warns, Documented!Warning, Documented!HasWarnings

LEMMA WarningsRise ==
    ASSUME NEW findings, Warns(findings), NEW pointer PROVE Warns(Documented!Under(pointer, findings))
<1>1. PICK p, c : Documented!Warning(p, c) \in findings
    BY DEF Warns
<1>2. [Documented!Warning(p, c) EXCEPT !.pointer = pointer \o @] = Documented!Warning(pointer \o p, c)
    <2>1. Documented!Warning(p, c).pointer = p
        BY DEF Documented!Warning
    <2>2. \A q : [Documented!Warning(p, c) EXCEPT !.pointer = q] = Documented!Warning(q, c)
        BY DEF Documented!Warning
    <2> QED BY <2>1, <2>2
<1>3. Documented!Warning(pointer \o p, c) \in Documented!Under(pointer, findings)
    BY <1>1, <1>2 DEF Documented!Under
<1> QED BY <1>3 DEF Warns

LEMMA WarningsSpread ==
    ASSUME NEW some, NEW every, Warns(some), some \subseteq every PROVE Warns(every)
BY DEF Warns

LEMMA UnknownKeys ==
    ASSUME NEW keys, NEW findings, ~Warns(findings),
           Documented!WarnUnknownFields(keys) \subseteq findings
    PROVE  keys \subseteq Documented!NumberKey
<1> SUFFICES ASSUME NEW k \in keys, k \notin Documented!NumberKey PROVE FALSE
    OBVIOUS
<1>1. Documented!Warning(<<k>>, "unknown_field") \in Documented!WarnUnknownFields(keys)
    BY DEF Documented!WarnUnknownFields
<1> QED BY <1>1 DEF Warns

\* A section of a document nobody warns of is one nobody warns of.
LEMMA QuietSection ==
    ASSUME NEW findings, ~Warns(findings), NEW section, NEW pointer,
           Documented!Under(pointer, section) \subseteq findings
    PROVE  ~Warns(section)
BY WarningsRise, WarningsSpread

LEMMA QuietStage ==
    ASSUME NEW stage, NEW agents, ~Warns(Documented!DiagnoseStage(stage, agents))
    PROVE  stage.unknown \cup stage.when.unknown \cup stage.hooks.unknown \subseteq Documented!NumberKey
<1> DEFINE all0 == Documented!DiagnoseStage(stage, agents)
           when == Documented!ErrorIfEmptyStr("state", stage.when.state)
                      \cup Documented!WarnUnknownFields(stage.when.unknown)
<1>1. /\ Documented!Under(<<"when">>, when) \subseteq all0
      /\ Documented!Under(<<"hooks">>, Documented!WarnUnknownFields(stage.hooks.unknown)) \subseteq all0
      /\ Documented!WarnUnknownFields(stage.unknown) \subseteq all0
    BY DEF Documented!DiagnoseStage
<1>2. ~Warns(all0) /\ Documented!WarnUnknownFields(stage.when.unknown) \subseteq when
    OBVIOUS
<1> HIDE DEF all0, when
<1>3. ~Warns(when) /\ ~Warns(Documented!WarnUnknownFields(stage.hooks.unknown))
    BY <1>1, <1>2, QuietSection
<1>4. stage.when.unknown \subseteq Documented!NumberKey
    BY <1>2, <1>3, UnknownKeys
<1>5. stage.hooks.unknown \subseteq Documented!NumberKey
    BY <1>3, UnknownKeys
<1>6. stage.unknown \subseteq Documented!NumberKey
    BY <1>1, <1>2, UnknownKeys
<1> QED BY <1>4, <1>5, <1>6

LEMMA QuietIssue ==
    ASSUME NEW issue, NEW agents, ~Warns(Documented!DiagnoseIssue(issue, agents))
    PROVE  /\ issue.unknown \cup issue.hooks.unknown \subseteq Documented!NumberKey
           /\ \A s \in DOMAIN issue.stages :
                issue.stages[s].unknown \cup issue.stages[s].when.unknown
                    \cup issue.stages[s].hooks.unknown \subseteq Documented!NumberKey
<1> DEFINE all0 == Documented!DiagnoseIssue(issue, agents)
<1>1. /\ Documented!Under(<<"hooks">>, Documented!WarnUnknownFields(issue.hooks.unknown)) \subseteq all0
      /\ Documented!WarnUnknownFields(issue.unknown) \subseteq all0
    <2>1. \A f \in Documented!WarnUnknownFields(issue.unknown) : f \in all0
        BY DEF Documented!DiagnoseIssue
    <2>2. \A f \in Documented!Under(<<"hooks">>, Documented!WarnUnknownFields(issue.hooks.unknown)) :
            f \in all0
        BY DEF Documented!DiagnoseIssue
    <2> HIDE DEF all0
    <2> QED BY <2>1, <2>2
<1>2. ASSUME NEW s \in DOMAIN issue.stages
      PROVE  Documented!Under(Documented!StagePointer(s),
                              Documented!DiagnoseStage(issue.stages[s], agents)) \subseteq all0
    <2> DEFINE Of(t) == Documented!ErrorIfEmptyStr("stages", t)
                          \cup Documented!Under(Documented!StagePointer(t),
                                                Documented!DiagnoseStage(issue.stages[t], agents))
    <2>1. Of(s) \subseteq UNION {Of(t) : t \in DOMAIN issue.stages}
        OBVIOUS
    <2>2. UNION {Of(t) : t \in DOMAIN issue.stages} \subseteq all0
        BY DEF Documented!DiagnoseIssue
    <2>3. Documented!Under(Documented!StagePointer(s),
                           Documented!DiagnoseStage(issue.stages[s], agents)) \subseteq Of(s)
        OBVIOUS
    <2> HIDE DEF Of, all0
    <2> QED BY <2>1, <2>2, <2>3
<1>3. ~Warns(all0)
    OBVIOUS
<1> HIDE DEF all0
<1>4. issue.unknown \subseteq Documented!NumberKey
    BY <1>1, <1>3, UnknownKeys
<1>5. issue.hooks.unknown \subseteq Documented!NumberKey
    BY <1>1, <1>3, QuietSection, UnknownKeys
<1>6. \A s \in DOMAIN issue.stages : ~Warns(Documented!DiagnoseStage(issue.stages[s], agents))
    BY <1>2, <1>3, QuietSection
<1> QED BY <1>4, <1>5, <1>6, QuietStage

LEMMA QuietSchema ==
    ASSUME NEW schema, ~Warns(Documented!Diagnose(schema))
    PROVE  /\ schema.unknown \subseteq Documented!NumberKey
           /\ schema.loop.unknown \subseteq Documented!NumberKey
           /\ schema.workspace.unknown \subseteq Documented!NumberKey
           /\ \A p \in DOMAIN schema.agents : schema.agents[p].unknown \subseteq Documented!NumberKey
           /\ schema.issues.unknown \cup schema.issues.pull.unknown \subseteq Documented!NumberKey
           /\ ~Warns(Documented!DiagnoseIssue(schema.issue, schema.agents))
<1>1. /\ ~Warns(Documented!DiagnoseLoop(schema.loop))
      /\ ~Warns(Documented!DiagnoseWorkspace(schema.workspace))
    BY QuietSection DEF Documented!Diagnose
<1>2. /\ ~Warns(Documented!DiagnoseAgents(schema.agents))
      /\ ~Warns(Documented!DiagnoseIssues(schema.issues))
    BY QuietSection DEF Documented!Diagnose
<1>3. ~Warns(Documented!DiagnoseIssue(schema.issue, schema.agents))
    BY QuietSection DEF Documented!Diagnose
<1>4. schema.unknown \subseteq Documented!NumberKey
    BY UnknownKeys DEF Documented!Diagnose
<1>5. schema.loop.unknown \subseteq Documented!NumberKey
    BY <1>1, UnknownKeys DEF Documented!DiagnoseLoop
<1>6. schema.workspace.unknown \subseteq Documented!NumberKey
    BY <1>1, UnknownKeys DEF Documented!DiagnoseWorkspace
<1>7. ASSUME NEW p \in DOMAIN schema.agents
      PROVE  schema.agents[p].unknown \subseteq Documented!NumberKey
    <2> DEFINE agent == Documented!DiagnoseAgent(schema.agents[p])
    <2>1. Documented!Under(Documented!Segment(p), agent) \subseteq Documented!DiagnoseAgents(schema.agents)
        BY DEF Documented!DiagnoseAgents
    <2>2. ~Warns(agent)
        BY <1>2, <2>1, QuietSection
    <2>3. Documented!WarnUnknownFields(schema.agents[p].unknown) \subseteq agent
        BY DEF Documented!DiagnoseAgent
    <2> QED BY <2>2, <2>3, UnknownKeys
<1>8. schema.issues.unknown \subseteq Documented!NumberKey
    BY <1>2, UnknownKeys DEF Documented!DiagnoseIssues
<1>9. schema.issues.pull.unknown \subseteq Documented!NumberKey
    <2> DEFINE pull == Documented!ErrorIfEmptyStr("command", schema.issues.pull.command)
                          \cup Documented!ErrorIfNonPositive("idle_sec", schema.issues.pull.idle_sec)
                          \cup Documented!WarnUnknownFields(schema.issues.pull.unknown)
    <2>1. Documented!Under(<<"pull">>, pull) \subseteq Documented!DiagnoseIssues(schema.issues)
        BY DEF Documented!DiagnoseIssues
    <2>2. Documented!WarnUnknownFields(schema.issues.pull.unknown) \subseteq pull
        OBVIOUS
    <2> HIDE DEF pull
    <2>3. ~Warns(pull)
        BY <1>2, <2>1, QuietSection
    <2> QED BY <2>2, <2>3, UnknownKeys
<1> QED BY <1>3, <1>4, <1>5, <1>6, <1>7, <1>8, <1>9

\* What a document says and what the parser makes of it have the same keys.
LEMMA OptionKeys ==
    ASSUME NEW option, IsOption(option)
    PROVE  UNION {option[i].unknown : i \in DOMAIN option} \subseteq
             IF option = <<>> THEN {} ELSE option[1].unknown
<1>1. CASE option = <<>>
    <2>1. DOMAIN option = {}
        BY <1>1
    <2> QED BY <1>1, <2>1
<1>2. CASE option # <<>>
    BY <1>2 DEF IsOption
<1> QED BY <1>1, <1>2

LEMMA StrictIsUnderstood ==
    ASSUME NEW doc, IsDocument(doc),
           ~Documented!HasWarnings(Documented!Diagnose(Documented!Parse(doc)))
    PROVE  Documented!IgnoredKeys(doc) \subseteq Documented!NumberKey
<1> DEFINE schema == Documented!Parse(doc)
           Of(option) == UNION {option[i].unknown : i \in DOMAIN option}
<1>1. ~Warns(Documented!Diagnose(schema))
    BY WarningsCount
<1>2. /\ schema.unknown = doc.unknown /\ schema.agents = doc.agents
      /\ schema.issues.unknown = doc.issues.unknown
      /\ schema.issues.pull.unknown = doc.issues.pull.unknown
      /\ schema.issue.unknown = doc.issue.unknown
    BY DEF Documented!Parse, Documented!ParsePull
<1>3. /\ DOMAIN schema.issue.stages = DOMAIN doc.issue.stages
      /\ \A s \in DOMAIN doc.issue.stages :
            schema.issue.stages[s] = Documented!ParseStage(s, doc.issue.stages[s])
    BY DEF Documented!Parse
<1>4. doc.loop # <<>> => schema.loop.unknown = doc.loop[1].unknown
    BY DEF Documented!Parse, Documented!ParseLoop
<1>5. doc.workspace # <<>> => schema.workspace.unknown = doc.workspace[1].unknown
    BY DEF Documented!Parse, Documented!OrElse
<1>6. doc.issue.hooks # <<>> => schema.issue.hooks.unknown = doc.issue.hooks[1].unknown
    BY DEF Documented!Parse, Documented!OrElse
<1> HIDE DEF schema
<1>7. Of(doc.loop) \subseteq Documented!NumberKey
    BY <1>1, <1>4, OptionKeys, QuietSchema DEF IsDocument
<1>8. Of(doc.workspace) \subseteq Documented!NumberKey
    BY <1>1, <1>5, OptionKeys, QuietSchema DEF IsDocument
<1>9. ~Warns(Documented!DiagnoseIssue(schema.issue, schema.agents))
    BY <1>1, QuietSchema
<1>10. Of(doc.issue.hooks) \cup doc.issue.unknown \subseteq Documented!NumberKey
    <2>1. schema.issue.hooks.unknown \subseteq Documented!NumberKey /\ schema.issue.unknown \subseteq Documented!NumberKey
        BY <1>9, QuietIssue
    <2> QED BY <1>2, <1>6, <2>1, OptionKeys DEF IsDocument
<1>11. ASSUME NEW s \in DOMAIN doc.issue.stages
       PROVE  doc.issue.stages[s].unknown \cup doc.issue.stages[s].when.unknown
                \cup Of(doc.issue.stages[s].hooks) \subseteq Documented!NumberKey
    <2> DEFINE d == doc.issue.stages[s]
    <2>1. schema.issue.stages[s].unknown \cup schema.issue.stages[s].when.unknown
            \cup schema.issue.stages[s].hooks.unknown \subseteq Documented!NumberKey
        BY <1>3, <1>9, QuietIssue
    <2>2. schema.issue.stages[s] = Documented!ParseStage(s, d)
        BY <1>3
    <2>3. /\ Documented!ParseStage(s, d).unknown = d.unknown
          /\ Documented!ParseStage(s, d).when = d.when
          /\ d.hooks # <<>> => Documented!ParseStage(s, d).hooks = d.hooks[1]
        BY DEF Documented!ParseStage, Documented!OrElse
    <2>4. IsOption(d.hooks)
        BY DEF IsDocument
    <2>5. Of(d.hooks) \subseteq Documented!NumberKey
        BY <2>1, <2>2, <2>3, <2>4, OptionKeys
    <2> HIDE DEF d, Of
    <2>6. d.unknown \cup d.when.unknown \subseteq Documented!NumberKey
        BY <2>1, <2>2, <2>3
    <2> QED BY <2>5, <2>6 DEF d
<1>12. \A a \in DOMAIN doc.agents : doc.agents[a].unknown \subseteq Documented!NumberKey
    BY <1>1, <1>2, QuietSchema
<1>13. doc.unknown \cup doc.issues.unknown \cup doc.issues.pull.unknown \subseteq Documented!NumberKey
    BY <1>1, <1>2, QuietSchema
<1> HIDE DEF Of
<1>14. \A keys \in {doc.unknown, doc.issues.unknown, doc.issues.pull.unknown, doc.issue.unknown,
                    Of(doc.loop), Of(doc.workspace), Of(doc.issue.hooks)} :
         keys \subseteq Documented!NumberKey
    BY <1>7, <1>8, <1>10, <1>13
<1>15. \A stage \in {doc.issue.stages[s] : s \in DOMAIN doc.issue.stages} :
         stage.unknown \cup stage.when.unknown \cup Of(stage.hooks) \subseteq Documented!NumberKey
    BY <1>11
<1> SUFFICES ASSUME NEW k \in Documented!IgnoredKeys(doc) PROVE k \in Documented!NumberKey
    OBVIOUS
<1>16. \/ \E keys \in {doc.unknown, doc.issues.unknown, doc.issues.pull.unknown, doc.issue.unknown,
                       Of(doc.loop), Of(doc.workspace), Of(doc.issue.hooks)} : k \in keys
       \/ \E a \in DOMAIN doc.agents : k \in doc.agents[a].unknown
       \/ \E stage \in {doc.issue.stages[s] : s \in DOMAIN doc.issue.stages} :
            k \in stage.unknown \cup stage.when.unknown \cup Of(stage.hooks)
    BY DEF Documented!IgnoredKeys, Of
<1> QED BY <1>12, <1>14, <1>15, <1>16

LEMMA CountsAreNumbers ==
    ASSUME NEW doc, IsDocument(doc)
    PROVE  /\ Documented!Parse(doc).loop.max_issue_concurrency \in Nat
           /\ Documented!Parse(doc).issues.pull.idle_sec \in Nat
<1>1. /\ Documented!Parse(doc).loop =
            IF doc.loop = <<>> THEN Documented!LoopDefault ELSE Documented!ParseLoop(doc.loop[1])
      /\ Documented!Parse(doc).issues.pull = Documented!ParsePull(doc.issues.pull)
    BY DEF Documented!Parse
<1>2. Documented!LoopDefault.max_issue_concurrency \in Nat
    BY DEF Documented!LoopDefault
<1>3. doc.loop # <<>> => Documented!ParseLoop(doc.loop[1]).max_issue_concurrency \in Nat
    BY <1>2 DEF Documented!ParseLoop, Documented!OrElse, IsDocument, IsCount
<1>4. Documented!ParsePull(doc.issues.pull).idle_sec \in Nat
    BY DEF Documented!ParsePull, Documented!OrElse, IsDocument, IsCount
<1> QED BY <1>1, <1>2, <1>3, <1>4

-----------------------------------------------------------------------------
(* Part "documents": what an invocation has read, and its answers.         *)

\* A run of the text gets as far as its stages.
Sound(doc) ==
    Documented!Parses(doc) /\ ~Documented!HasErrors(Documented!Diagnose(Documented!Parse(doc)))

Doubted(doc) == Documented!HasWarnings(Documented!Diagnose(Documented!Parse(doc)))

\* An answer is to a text of the file: errors forbid, warnings only a strict
\* doctor's pass, and a run needs a root.
TrueAnswer(a) ==
    /\ a.cmd \in Documented!Command /\ a.doc \in Workflows /\ a.ok \in BOOLEAN
    /\ a.ok <=> /\ Sound(a.doc) /\ ~(a.cmd.strict /\ Doubted(a.doc))
                /\ a.cmd.name = "run" => Documented!RootResolves(a.cmd, Documented!Parse(a.doc))

DocsInv ==
    /\ x1.kind = "text" => x1.doc \in Workflows
    /\ x4 # "shell" => x3 \in Documented!Command
    /\ x4 \in {"parse", "doctor", "promote", "running"} => x5 \in Workflows
    /\ x4 \in {"doctor", "promote", "running"} => Documented!Parses(x5)
    /\ x4 \in {"promote", "running"} => x3.name = "run"
    /\ x4 = "doctor" => x3.name = "doctor"
    /\ x4 = "running" => Sound(x5)
    /\ "profile_not_found" \notin x9
    /\ \A a \in x8 : TrueAnswer(a)

\* A run's doctor is never strict.
LEMMA RunIsLax == \A c \in Documented!Command : c.name = "run" => c.strict = FALSE
BY DEF Documented!Command

LEMMA DocsAnswers ==
    ASSUME DocsInv, x4 # "shell", x5 \in Workflows, NEW ok \in BOOLEAN,
           ok <=> /\ Sound(x5) /\ ~(x3.strict /\ Doubted(x5))
                  /\ x3.name = "run" => Documented!RootResolves(x3, Documented!Parse(x5)),
           Documented!Answer(ok)
    PROVE  \A a \in x8' : TrueAnswer(a)
<1> DEFINE new == [cmd |-> x3, doc |-> x5, ok |-> ok]
<1>1. new.cmd = x3 /\ new.doc = x5 /\ new.ok = ok
    OBVIOUS
<1>2. x8' = x8 \cup {new}
    BY DEF Documented!Answer
<1> HIDE DEF new
<1>3. TrueAnswer(new)
    BY <1>1 DEF TrueAnswer, DocsInv
<1> QED BY <1>2, <1>3 DEF DocsInv

LEMMA DocsInit ==
    ASSUME Documented!Init PROVE DocsInv
BY DEF Documented!Init, Documented!Text, DocsInv

LEMMA DocsAsked ==
    ASSUME DocsInv,
           \/ Documented!Usage \/ Documented!Invoke \/ Documented!StatFails
           \/ Documented!StatSucceeds \/ Documented!ReadFails \/ Documented!ReadSucceeds
           \/ Documented!Done
    PROVE  DocsInv'
<1> USE DEF DocsInv, TrueAnswer, Sound, Doubted, Documented!fileVars
<1>1. CASE Documented!Usage
    BY <1>1 DEF Documented!Usage
<1>2. CASE Documented!Invoke
    BY <1>2 DEF Documented!Invoke
<1>3. CASE Documented!StatFails \/ Documented!ReadFails
    BY <1>3 DEF Documented!StatFails, Documented!ReadFails, Documented!Exit
<1>4. CASE Documented!StatSucceeds
    BY <1>4 DEF Documented!StatSucceeds
<1>5. CASE Documented!ReadSucceeds
    BY <1>5 DEF Documented!ReadSucceeds
<1>6. CASE Documented!Done
    BY <1>6 DEF Documented!Done, Documented!vars
<1> QED BY <1>1, <1>2, <1>3, <1>4, <1>5, <1>6

\* An invocation that ends leaves the file, and its answers if they are true.
LEMMA DocsExits ==
    ASSUME DocsInv, NEW status, Documented!Exit(status), \A a \in x8' : TrueAnswer(a)
    PROVE  DocsInv'
BY DEF DocsInv, TrueAnswer, Sound, Doubted, Documented!Exit, Documented!fileVars

LEMMA DocsParses ==
    ASSUME DocsInv, Documented!ParseFails \/ Documented!ParseSucceeds PROVE DocsInv'
<1>1. CASE Documented!ParseFails
    <2>1. x4 = "parse" /\ ~Sound(x5) /\ Documented!Exit(1) /\ Documented!Answer(FALSE)
        BY <1>1 DEF Documented!ParseFails, Sound
    <2>2. \A a \in x8' : TrueAnswer(a)
        BY <2>1, DocsAnswers DEF DocsInv
    <2> QED BY <2>1, <2>2, DocsExits
<1>2. CASE Documented!ParseSucceeds
    <2>1. x3 \in Documented!Command /\ x3.name # "doctor" => x3.name = "run"
        BY DEF Documented!Command
    <2> QED BY <1>2, <2>1 DEF Documented!ParseSucceeds, DocsInv, TrueAnswer, Sound, Doubted,
            Documented!fileVars
<1> QED BY <1>1, <1>2

LEMMA DocsDoctor ==
    ASSUME DocsInv, Documented!Doctor PROVE DocsInv'
<1> DEFINE fails == \/ Documented!HasErrors(Documented!Findings)
                    \/ Documented!HasWarnings(Documented!Findings) /\ x3.strict
<1>1. /\ x4 = "doctor" /\ Documented!Exit(IF fails THEN 1 ELSE 0) /\ Documented!Answer(~fails)
    BY DEF Documented!Doctor
<1>2. (~fails) <=> Sound(x5) /\ ~(x3.strict /\ Doubted(x5))
    BY <1>1 DEF DocsInv, Sound, Doubted, Documented!Findings, Documented!Schema
<1>4. x3.name # "run"
    BY <1>1 DEF DocsInv
<1> HIDE DEF fails
<1>3. \A a \in x8' : TrueAnswer(a)
    <2>1. CASE fails
        <3>1. Documented!Answer(FALSE)
            BY <1>1, <2>1 DEF Documented!Answer
        <3> QED BY <1>1, <1>2, <1>4, <2>1, <3>1, DocsAnswers DEF DocsInv
    <2>2. CASE ~fails
        <3>1. Documented!Answer(TRUE)
            BY <1>1, <2>2 DEF Documented!Answer
        <3> QED BY <1>1, <1>2, <1>4, <2>2, <3>1, DocsAnswers DEF DocsInv
    <2> QED BY <2>1, <2>2
<1> QED BY <1>1, <1>3, DocsExits

LEMMA DocsPromotes ==
    ASSUME DocsInv,
           Documented!PromotionRefused \/ Documented!RootRefused \/ Documented!Promoted
    PROVE  DocsInv'
<1>1. x4 = "promote" /\ x3.strict = FALSE
    BY RunIsLax DEF Documented!PromotionRefused, Documented!RootRefused, Documented!Promoted, DocsInv
<1>2. Sound(x5) <=> ~Documented!HasErrors(Documented!Findings)
    BY <1>1 DEF DocsInv, Sound, Documented!Findings, Documented!Schema
<1>3. CASE Documented!PromotionRefused
    <2>1. ~Sound(x5) /\ Documented!Exit(1) /\ Documented!Answer(FALSE)
        BY <1>2, <1>3 DEF Documented!PromotionRefused
    <2>2. \A a \in x8' : TrueAnswer(a)
        BY <1>1, <2>1, DocsAnswers DEF DocsInv
    <2> QED BY <2>1, <2>2, DocsExits
<1>4. CASE Documented!RootRefused
    <2>1. /\ ~Documented!RootResolves(x3, Documented!Parse(x5)) /\ x3.name = "run"
          /\ Documented!Exit(1) /\ Documented!Answer(FALSE)
        BY <1>1, <1>4 DEF Documented!RootRefused, Documented!Schema, DocsInv
    <2>2. \A a \in x8' : TrueAnswer(a)
        BY <1>1, <2>1, DocsAnswers DEF DocsInv
    <2> QED BY <2>1, <2>2, DocsExits
<1>5. CASE Documented!Promoted
    <2>1. /\ Sound(x5) /\ Documented!Answer(TRUE) /\ x4' = "running"
          /\ Documented!RootResolves(x3, Documented!Parse(x5))
          /\ UNCHANGED <<x1, x2, x3, x5, x9>>
        BY <1>2, <1>5 DEF Documented!Promoted, Documented!fileVars, Documented!Schema
    <2>2. \A a \in x8' : TrueAnswer(a)
        BY <1>1, <2>1, DocsAnswers DEF DocsInv
    <2> QED BY <1>1, <2>1, <2>2 DEF DocsInv, TrueAnswer, Sound, Doubted
<1> QED BY <1>3, <1>4, <1>5

LEMMA DocsRuns ==
    ASSUME DocsInv, Documented!SpawnStage \/ Documented!Return \/ Documented!Edit PROVE DocsInv'
<1>1. CASE Documented!SpawnStage
    <2>1. x4 = "running" /\ UNCHANGED <<x1, x2, x3, x4, x5, x6, x7, x8>>
        BY <1>1 DEF Documented!SpawnStage, Documented!fileVars
    <2>2. Workable(Documented!Parse(x5))
        BY <2>1, CleanIsWorkable DEF DocsInv, Sound
    <2>3. "profile_not_found" \notin x9'
        BY <1>1, <2>1, <2>2 DEF Documented!SpawnStage, Documented!Schema, Workable, DocsInv
    <2> QED BY <2>1, <2>3 DEF DocsInv, TrueAnswer, Sound, Doubted
<1>2. CASE Documented!Return
    <2>1. Documented!Exit(0) /\ \A a \in x8' : TrueAnswer(a)
        BY <1>2 DEF Documented!Return, DocsInv, TrueAnswer, Sound, Doubted
    <2> QED BY <2>1, DocsExits
<1>3. CASE Documented!Edit
    <2>1. x1'.kind = "text" => x1'.doc \in Workflows
        BY <1>3 DEF Documented!Edit, Documented!Text, Documented!NoText
    <2> QED BY <1>3, <2>1 DEF Documented!Edit, DocsInv, TrueAnswer, Sound, Doubted
<1> QED BY <1>1, <1>2, <1>3

LEMMA DocsStep ==
    ASSUME DocsInv, Documented!Next PROVE DocsInv'
BY DocsAsked, DocsParses, DocsDoctor, DocsPromotes, DocsRuns DEF Documented!Next

LEMMA DocsInvariant == Spec => [](part = "documents" => DocsInv)
<1> DEFINE I == part = "documents" => DocsInv
<1>1. Init => I
    BY DocsInit DEF Init
<1>2. I /\ [Next]_all => I'
    <2>1. ASSUME I, Next PROVE I'
        BY <2>1, DocsStep DEF Next, InOneByOne, InRaces, InSpelled, InEdited, InDetach,
           InPrompt, InRetention, InDocumented, InRewritten, InEvents
    <2>2. ASSUME I, UNCHANGED all PROVE I'
        BY <2>2 DEF all, From3, From6, From7, From9, From10, DocsInv, TrueAnswer, Sound, Doubted
    <2> QED BY <2>1, <2>2
<1> QED BY <1>1, <1>2, PTL DEF Spec

\* DoctorIsRight: whatever a file says of those the author may write, run
\* accepts it when doctor does, unless its root needs a home that the caller
\* has not, and never otherwise (cli/doctor.rs, workflow/loader.rs); and a
\* strict doctor that is content has understood every key by name.
THEOREM DoctorForetells == Spec => []DoctorIsRight
<1>1. ASSUME DocsInv PROVE Documented!DoctorForetellsRun
    <2> SUFFICES ASSUME NEW d \in x8, NEW r \in x8,
                        d.cmd.name = "doctor", ~d.cmd.strict, r.cmd.name = "run",
                        d.doc = r.doc
                 PROVE  r.ok <=> d.ok /\ Documented!RootResolves(r.cmd, Documented!Parse(d.doc))
        BY DEF Documented!DoctorForetellsRun, Documented!RootResolves
    <2>1. TrueAnswer(d) /\ TrueAnswer(r)
        BY <1>1 DEF DocsInv
    <2>2. d.cmd.strict = FALSE /\ r.cmd.strict = FALSE
        BY <2>1, RunIsLax DEF TrueAnswer
    <2>3. /\ d.ok <=> Sound(d.doc)
          /\ r.ok <=> Sound(d.doc) /\ Documented!RootResolves(r.cmd, Documented!Parse(d.doc))
        BY <2>1, <2>2 DEF TrueAnswer
    <2> QED BY <2>1, <2>3 DEF TrueAnswer
<1>2. ASSUME DocsInv PROVE Documented!StrictMeansUnderstood
    <2> SUFFICES ASSUME NEW a \in x8, a.cmd.strict, a.ok
                 PROVE  Documented!IgnoredKeys(a.doc) \subseteq Documented!NumberKey
        BY DEF Documented!StrictMeansUnderstood
    <2>1. a.doc \in Workflows /\ ~Doubted(a.doc)
        BY <1>2 DEF DocsInv, TrueAnswer
    <2> QED BY <2>1, DocumentAssumption, StrictIsUnderstood DEF Doubted
<1>3. (part = "documents" => DocsInv) => DoctorIsRight
    BY <1>1, <1>2 DEF DoctorIsRight
<1> QED BY <1>3, DocsInvariant, PTL

-----------------------------------------------------------------------------
(* Part "rewritten": the same schema, under a file that changes.           *)

\* The two parts have one schema and one diagnosis.
LEMMA SameParse ==
    ASSUME NEW doc
    PROVE  /\ Rewritten!Parses(doc) <=> Documented!Parses(doc)
           /\ Rewritten!Parse(doc) = Documented!Parse(doc)
BY DEF Rewritten!Parses, Documented!Parses, Rewritten!PromptSource, Documented!PromptSource,
   Rewritten!Parse, Documented!Parse, Rewritten!ParseLoop, Documented!ParseLoop,
   Rewritten!LoopDefault, Documented!LoopDefault, Rewritten!ParsePull, Documented!ParsePull,
   Rewritten!ParseStage, Documented!ParseStage, Rewritten!OrElse, Documented!OrElse,
   Rewritten!WorkspaceDefault, Documented!WorkspaceDefault

LEMMA SameDiagnosis ==
    ASSUME NEW schema
    PROVE  /\ Rewritten!Diagnose(schema) = Documented!Diagnose(schema)
           /\ Rewritten!HasErrors(Rewritten!Diagnose(schema))
                <=> Documented!HasErrors(Documented!Diagnose(schema))
BY DEF Rewritten!HasErrors, Documented!HasErrors,
   Rewritten!Diagnose, Documented!Diagnose,
   Rewritten!DiagnoseLoop, Documented!DiagnoseLoop,
   Rewritten!DiagnoseWorkspace, Documented!DiagnoseWorkspace,
   Rewritten!DiagnoseAgents, Documented!DiagnoseAgents,
   Rewritten!DiagnoseAgent, Documented!DiagnoseAgent,
   Rewritten!DiagnoseIssues, Documented!DiagnoseIssues,
   Rewritten!DiagnoseIssue, Documented!DiagnoseIssue,
   Rewritten!DiagnoseStage, Documented!DiagnoseStage,
   Rewritten!DiagnosePrompt, Documented!DiagnosePrompt,
   Rewritten!UnknownAgent, Documented!UnknownAgent,
   Rewritten!Blank, Documented!Blank, Rewritten!NumberKey, Documented!NumberKey,
   Rewritten!Error, Documented!Error, Rewritten!Warning, Documented!Warning,
   Rewritten!Segment, Documented!Segment,
   Rewritten!StagePointer, Documented!StagePointer, Rewritten!Under, Documented!Under,
   Rewritten!WarnUnknownFields, Documented!WarnUnknownFields,
   Rewritten!ErrorIf, Documented!ErrorIf, Rewritten!ErrorIfEmptyStr, Documented!ErrorIfEmptyStr,
   Rewritten!ErrorIfEmptyPath, Documented!ErrorIfEmptyPath,
   Rewritten!ErrorIfNonPositive, Documented!ErrorIfNonPositive

\* What an invocation has read is a text the file had, and it runs no other.
RewrittenInv ==
    /\ x1.kind = "text" => x1.doc \in Revisions
    /\ x4 \in {"parse", "doctor", "promote", "running"} => x5 \in Revisions
    /\ x4 \in {"doctor", "promote", "running"} => Rewritten!Parses(x5)
    /\ x4 = "running" => Sound(x5)
    /\ "profile_not_found" \notin x9

LEMMA RewrittenInit ==
    ASSUME Rewritten!Init PROVE RewrittenInv
BY DEF Rewritten!Init, Rewritten!Text, RewrittenInv

LEMMA RewrittenReads ==
    ASSUME RewrittenInv,
           \/ Rewritten!Usage \/ Rewritten!Invoke \/ Rewritten!StatFails
           \/ Rewritten!StatSucceeds \/ Rewritten!ReadFails \/ Rewritten!ReadSucceeds
           \/ Rewritten!Done \/ Rewritten!Edit
    PROVE  RewrittenInv'
<1> USE DEF RewrittenInv, Sound, Rewritten!fileVars
<1>1. CASE Rewritten!Usage
    BY <1>1 DEF Rewritten!Usage
<1>2. CASE Rewritten!Invoke
    BY <1>2 DEF Rewritten!Invoke
<1>3. CASE Rewritten!StatFails \/ Rewritten!ReadFails
    BY <1>3 DEF Rewritten!StatFails, Rewritten!ReadFails, Rewritten!Exit
<1>4. CASE Rewritten!StatSucceeds
    BY <1>4 DEF Rewritten!StatSucceeds
<1>5. CASE Rewritten!ReadSucceeds
    BY <1>5 DEF Rewritten!ReadSucceeds
<1>6. CASE Rewritten!Done
    BY <1>6 DEF Rewritten!Done, Rewritten!vars
<1>7. CASE Rewritten!Edit
    <2>1. x1'.kind = "text" => x1'.doc \in Revisions
        BY <1>7 DEF Rewritten!Edit, Rewritten!Text, Rewritten!NoText
    <2> QED BY <1>7, <2>1 DEF Rewritten!Edit
<1> QED BY <1>1, <1>2, <1>3, <1>4, <1>5, <1>6, <1>7

LEMMA RewrittenProceeds ==
    ASSUME RewrittenInv,
           \/ Rewritten!ParseFails \/ Rewritten!ParseSucceeds \/ Rewritten!Doctor
           \/ Rewritten!PromotionRefused \/ Rewritten!RootRefused \/ Rewritten!Promoted
           \/ Rewritten!SpawnStage \/ Rewritten!Return
    PROVE  RewrittenInv'
<1> USE DEF RewrittenInv, Rewritten!fileVars
<1>1. CASE Rewritten!ParseFails \/ Rewritten!Doctor \/ Rewritten!PromotionRefused
             \/ Rewritten!RootRefused \/ Rewritten!Return
    BY <1>1 DEF Rewritten!ParseFails, Rewritten!Doctor, Rewritten!PromotionRefused,
       Rewritten!RootRefused, Rewritten!Return, Rewritten!Exit
<1>2. CASE Rewritten!ParseSucceeds
    BY <1>2 DEF Rewritten!ParseSucceeds
<1>3. CASE Rewritten!Promoted
    <2>1. x4 = "promote" /\ ~Rewritten!HasErrors(Rewritten!Diagnose(Rewritten!Parse(x5)))
        BY <1>3 DEF Rewritten!Promoted, Rewritten!Findings, Rewritten!Schema
    <2>2. Sound(x5)
        BY <2>1, SameParse, SameDiagnosis DEF Sound
    <2> QED BY <1>3, <2>1, <2>2 DEF Rewritten!Promoted, Sound
<1>4. CASE Rewritten!SpawnStage
    <2>1. x4 = "running" /\ UNCHANGED <<x1, x2, x3, x4, x5, x6, x7, x8>>
        BY <1>4 DEF Rewritten!SpawnStage
    <2>2. Workable(Rewritten!Parse(x5))
        BY <2>1, SameParse, CleanIsWorkable DEF Sound
    <2>3. "profile_not_found" \notin x9'
        BY <1>4, <2>2 DEF Rewritten!SpawnStage, Rewritten!Schema, Workable
    <2> QED BY <2>1, <2>3 DEF Sound
<1> QED BY <1>1, <1>2, <1>3, <1>4

LEMMA RewrittenStep ==
    ASSUME RewrittenInv, Rewritten!Next PROVE RewrittenInv'
BY RewrittenReads, RewrittenProceeds DEF Rewritten!Next

LEMMA RewrittenInvariant == Spec => [](part = "rewritten" => RewrittenInv)
<1> DEFINE I == part = "rewritten" => RewrittenInv
<1>1. Init => I
    BY RewrittenInit DEF Init
<1>2. I /\ [Next]_all => I'
    <2>1. ASSUME I, Next PROVE I'
        BY <2>1, RewrittenStep DEF Next, InOneByOne, InRaces, InSpelled, InEdited,
           InDetach, InPrompt, InRetention, InDocumented, InRewritten, InEvents
    <2>2. ASSUME I, UNCHANGED all PROVE I'
        BY <2>2 DEF all, From3, From6, From7, From9, RewrittenInv, Sound
    <2> QED BY <2>1, <2>2
<1> QED BY <1>1, <1>2, PTL DEF Spec

\* RunsOnlyWorkable: the errors of the diagnosis are all that a workflow needs
\* to be free of: what runs has room for an issue, an intake that waits, a loop
\* that begins and stages with a profile and a prompt, also when the file is
\* saved or replaced while the command looks at it (config/, workflow/loader.rs).
THEOREM WhatRunsIsWorkable == Spec => []RunsOnlyWorkable
<1>1. ASSUME NEW doc \in Workflows \cup Revisions, Sound(doc)
      PROVE  /\ Workable(Documented!Parse(doc))
             /\ Documented!Parse(doc).loop.max_issue_concurrency > 0
             /\ Documented!Parse(doc).issues.pull.idle_sec > 0
    <2>1. Workable(Documented!Parse(doc))
        BY <1>1, CleanIsWorkable DEF Sound
    <2>2. /\ Documented!Parse(doc).loop.max_issue_concurrency \in Nat
          /\ Documented!Parse(doc).issues.pull.idle_sec \in Nat
        <3>1. IsDocument(doc)
            BY DocumentAssumption
        <3> QED BY <3>1, CountsAreNumbers, Zenon
    <2> DEFINE room == Documented!Parse(doc).loop.max_issue_concurrency
               idle == Documented!Parse(doc).issues.pull.idle_sec
    <2>3. room # 0 /\ idle # 0
        BY <2>1 DEF Workable
    <2> HIDE DEF room, idle
    <2>4. room > 0 /\ idle > 0
        <3>1. room \in Nat /\ idle \in Nat
            BY <2>2 DEF room, idle
        <3> QED BY <2>3, <3>1
    <2> QED BY <2>1, <2>4 DEF room, idle
<1>2. ASSUME DocsInv PROVE Documented!RunsOnlyWorkable
    BY <1>1, <1>2 DEF DocsInv, Documented!RunsOnlyWorkable, Documented!Schema, Workable
<1>3. ASSUME RewrittenInv PROVE Rewritten!RunsOnlyWorkable
    BY <1>1, <1>3, SameParse
       DEF RewrittenInv, Rewritten!RunsOnlyWorkable, Rewritten!Schema, Workable
<1>4. (part = "documents" => DocsInv) /\ (part = "rewritten" => RewrittenInv) => RunsOnlyWorkable
    BY <1>2, <1>3 DEF RunsOnlyWorkable
<1> QED BY <1>4, DocsInvariant, RewrittenInvariant, PTL

-----------------------------------------------------------------------------
(* Part "spelled": one file, however it is named.                          *)

\* The workspace of a file for the one caller of this part.
Home(f) == Spelled!WorkspaceRoot(f, x1[f].root, Login)

\* No file is edited, so the daemon of a file is on record in the workspace
\* that the file leads to now.
SpelledInv ==
    /\ x1 \in [Files -> [root : AllRoots, valid : {TRUE}]]
    /\ x3 \subseteq x4
    /\ \A r \in x4 : Home(r.file).ok /\ Home(r.file).path = r.root
    /\ Spelled!StopReachesDaemon

\* Whatever the spelling, a command works in the workspace of the file.
LEMMA SpelledAlike ==
    ASSUME SpelledInv, NEW a \in Spellings, NEW env \in OneLogin
    PROVE  Spelled!Promoted(a, env) = Home(Spelled!Located(Spelled!Canonicalize(a)))
<1> DEFINE path == Spelled!Canonicalize(a)
<1>1. path \in Files /\ Spelled!Located(path) = path
    <2>1. /\ IsSequence(a.path) /\ IsDirect(IF a.abs THEN a.path ELSE a.cwd)
          /\ path \in Files
        BY PlaceAssumption
    <2>2. IsDirect(path)
        BY <2>1, DirectFrom DEF Spelled!Canonicalize
    <2> QED BY <2>1, <2>2, DirectStays
<1>2. x1[path].valid = TRUE
    BY <1>1 DEF SpelledInv
<1>3. env = Login
    BY DEF OneLogin
<1> QED BY <1>1, <1>2, <1>3 DEF Spelled!Promoted, Home, path

LEMMA SpelledInit ==
    ASSUME Spelled!Init PROVE SpelledInv
BY DEF Spelled!Init, SpelledInv, Spelled!StopReachesDaemon

LEMMA SpelledCommands ==
    ASSUME SpelledInv, NEW a \in Spellings, NEW env \in OneLogin,
           \/ Spelled!Refused(a, env) \/ Spelled!EnsureRootFails(a, env)
           \/ Spelled!RunDetached(a, env) \/ Spelled!AlreadyRunning(a, env)
           \/ Spelled!Stop(a, env)
    PROVE  SpelledInv'
<1> DEFINE f == Spelled!Located(Spelled!Canonicalize(a))
           root == Home(f).path
<1> USE DEF SpelledInv, Spelled!StopReachesDaemon, Home
<1>1. Spelled!Promoted(a, env) = Home(f)
    BY SpelledAlike DEF f
<1> HIDE DEF f
<1>2. CASE Spelled!Refused(a, env)
    <2>1. UNCHANGED <<x1, x3, x4>> /\ ~Home(f).ok /\ x5'.file = f
        BY <1>1, <1>2 DEF Spelled!Refused, Spelled!Report, f
    <2> QED BY <2>1
<1>3. CASE Spelled!EnsureRootFails(a, env)
    <2>1. UNCHANGED <<x1, x3, x4>> /\ x5'.cmd = "run"
        BY <1>3 DEF Spelled!EnsureRootFails, Spelled!Report
    <2> QED BY <2>1
<1>4. CASE Spelled!RunDetached(a, env)
    <2>1. /\ x1' = x1 /\ x5'.cmd = "run" /\ Home(f).ok
          /\ Spelled!Recorded(root) \cap x3 = {}
          /\ x3' = x3 \cup {[file |-> f, root |-> root]}
          /\ x4' = (x4 \ Spelled!Recorded(root)) \cup {[file |-> f, root |-> root]}
        BY <1>1, <1>4 DEF Spelled!RunDetached, Spelled!Report, f
    <2>2. x3' \subseteq x4'
        BY <2>1
    <2> DEFINE new == [file |-> f, root |-> root]
    <2>3. new.file = f /\ new.root = root /\ \A r \in x4' : r \in x4 \/ r = new
        BY <2>1
    <2> HIDE DEF new, root
    <2>4. \A r \in x4' : Home(r.file).ok /\ Home(r.file).path = r.root
        BY <2>1, <2>3 DEF root
    <2> QED BY <2>1, <2>2, <2>4
<1>5. CASE Spelled!AlreadyRunning(a, env)
    <2>1. UNCHANGED <<x1, x3, x4>> /\ x5'.cmd = "run"
        BY <1>5 DEF Spelled!AlreadyRunning, Spelled!Report
    <2> QED BY <2>1
<1>6. CASE Spelled!Stop(a, env)
    <2>1. /\ x1' = x1 /\ x5'.file = f
          /\ x3' = x3 \ Spelled!Recorded(root) /\ x4' = x4 \ Spelled!Recorded(root)
        BY <1>1, <1>6 DEF Spelled!Stop, Spelled!Report, f
    <2>2. \A d \in x3' : d.file # f
        BY <2>1 DEF Spelled!Recorded
    <2> QED BY <2>1, <2>2
<1> QED BY <1>2, <1>3, <1>4, <1>5, <1>6

LEMMA SpelledStep ==
    ASSUME SpelledInv, Spelled!Next PROVE SpelledInv'
<1>1. ASSUME NEW f \in Files, Spelled!Edit(f) PROVE SpelledInv'
    BY <1>1 DEF Spelled!Edit
<1>2. ASSUME NEW d \in x3, Spelled!DaemonDies(d) PROVE SpelledInv'
    BY <1>2 DEF Spelled!DaemonDies, SpelledInv, Spelled!StopReachesDaemon, Home
<1> QED BY <1>1, <1>2, SpelledCommands DEF Spelled!Next

-----------------------------------------------------------------------------
(* Part "edited": one home for many files, and texts that change.          *)

\* A daemon or a record is of the file that some caller, in some environment
\* and with some text of it, found this workspace by.
FoundBy(r, a, root, env) ==
    LET home == Edited!WorkspaceRoot(Edited!Canonicalize(a), root, env) IN
    /\ r.file = Edited!Located(Edited!Canonicalize(a))
    /\ home.ok /\ home.path = r.root

EditedInv ==
    /\ x1 \in [Files -> [root : OnlyNull, valid : BOOLEAN]]
    /\ \A r \in x3 \cup x4 :
        \E a \in Mentions, root \in OnlyNull, env \in AllEnvs : FoundBy(r, a, root, env)
    /\ Edited!StopsOwnDaemon /\ Edited!RefusedByOwnDaemon

\* The last component of two equal paths.
LEMMA SameEnd ==
    ASSUME NEW p, NEW q, IsSequence(p), IsSequence(q), NEW x, NEW y, NEW z,
           p \o <<x, y>> = q \o <<x, z>>
    PROVE  y = z
<1>1. Len(p) \in Nat /\ Len(q) \in Nat
    BY DEF IsSequence
<1>2. /\ Len(p \o <<x, y>>) = Len(p) + 2 /\ (p \o <<x, y>>)[Len(p) + 2] = y
      /\ Len(q \o <<x, z>>) = Len(q) + 2 /\ (q \o <<x, z>>)[Len(q) + 2] = z
    BY DEF IsSequence
<1>3. Len(p) + 2 = Len(q) + 2
    BY <1>2
<1> QED BY <1>2, <1>3

\* The home that a file with this root, by this path, has for this caller.
HomeOf(path, root, env) ==
    Edited!ResolveFrom(Edited!Front(path), Edited!HomeSetting(root, env), env)

LEMMA HomeIsPath ==
    ASSUME NEW path, NEW root \in OnlyNull, NEW env \in AllEnvs
    PROVE  IsSequence(Edited!Located(HomeOf(path, root, env).path))
<1> DEFINE home == HomeOf(path, root, env).path
<1>1. Edited!HomeSetting(root, env) = Edited!DefaultHome(env)
    BY DEF OnlyNull, Null, Edited!HomeSetting
<1>2. home \in {<<>>, HomeDir \o <<NameA>>, Append(HomeDir, Edited!DotVik)}
    <2>1. home = Edited!ResolveFrom(Edited!Front(path), Edited!DefaultHome(env), env).path
        BY <1>1 DEF HomeOf
    <2>2. CASE env = Login
        <3>1. env.vikHome = <<>> /\ env.home = HomeDir /\ HomeDir # <<>>
            BY <2>2 DEF Login, HomeDir
        <3>2. Edited!DefaultHome(env) = [abs |-> TRUE, path |-> Append(HomeDir, Edited!DotVik)]
            BY <3>1 DEF Edited!DefaultHome
        <3> QED BY <2>1, <3>2 DEF Edited!ResolveFrom, Edited!Absolute
    <2>3. CASE env = WithHome
        <3> DEFINE raw == [abs |-> FALSE, path |-> <<Edited!Tilde, NameA>>]
        <3>1. env.vikHome = <<raw>> /\ env.home = HomeDir /\ HomeDir # <<>>
            BY <2>3 DEF WithHome, HomeDir, Tilde, Edited!Tilde
        <3>2. env.vikHome # <<>> /\ env.vikHome[1] = raw
            BY <3>1
        <3>3. Edited!DefaultHome(env) = raw
            BY <3>2 DEF Edited!DefaultHome
        <3>4. /\ raw.abs = FALSE /\ raw.path # <<>> /\ Head(raw.path) = Edited!Tilde
              /\ Tail(raw.path) = <<NameA>>
            OBVIOUS
        <3> HIDE DEF raw
        <3>5. Edited!ResolveFrom(Edited!Front(path), raw, env).path = HomeDir \o <<NameA>>
            BY <3>1, <3>4 DEF Edited!ResolveFrom, Edited!Absolute
        <3> QED BY <2>1, <3>3, <3>5
    <2>4. CASE env = NoHome
        <3>1. env.vikHome = <<>> /\ env.home = <<>>
            BY <2>4 DEF NoHome
        <3> DEFINE raw == [abs |-> FALSE, path |-> <<Edited!Tilde, Edited!DotVik>>]
        <3>2. Edited!DefaultHome(env) = raw
            BY <3>1 DEF Edited!DefaultHome
        <3>3. raw.abs = FALSE /\ raw.path # <<>> /\ Head(raw.path) = Edited!Tilde
            OBVIOUS
        <3> HIDE DEF raw
        <3>4. Edited!ResolveFrom(Edited!Front(path), raw, env) = Edited!NoPath
            BY <3>1, <3>3 DEF Edited!ResolveFrom
        <3> QED BY <2>1, <3>2, <3>4 DEF Edited!NoPath
    <2> QED BY <2>2, <2>3, <2>4 DEF AllEnvs
<1>3. <<>> \in Seq({}) /\ HomeDir \o <<NameA>> \in Seq({Name("h"), NameA})
      /\ Append(HomeDir, Edited!DotVik) \in Seq({Name("h"), Edited!DotVik})
    BY DEF HomeDir
<1>4. IsSequence(home)
    BY <1>2, <1>3, IsSequenceOf
<1> QED BY <1>4, LocatedIsPath, SameLocated

\* One workspace, one key: it tells files apart in whichever home.
LEMMA WorkspaceOfFile ==
    ASSUME NEW a \in Mentions, NEW root \in OnlyNull, NEW env \in AllEnvs,
           NEW b \in Mentions, NEW other \in OnlyNull, NEW env2 \in AllEnvs,
           NEW r, NEW s, FoundBy(r, a, root, env), FoundBy(s, b, other, env2), r.root = s.root
    PROVE  Edited!OneKey(r.file, s.file)
<1> DEFINE p == Edited!Canonicalize(a)
           q == Edited!Canonicalize(b)
           above == Edited!Located(HomeOf(p, root, env).path)
           above2 == Edited!Located(HomeOf(q, other, env2).path)
<1>1. /\ Edited!WorkspaceRoot(p, root, env).path = above \o << <<"workflows">>, Edited!PathKey(p) >>
      /\ Edited!WorkspaceRoot(q, other, env2).path = above2 \o << <<"workflows">>, Edited!PathKey(q) >>
    BY DEF FoundBy, Edited!WorkspaceRoot, Edited!Absolute, Edited!NoPath, HomeOf
<1>2. IsSequence(above) /\ IsSequence(above2)
    BY HomeIsPath
<1> HIDE DEF above, above2
<1>3. above \o << <<"workflows">>, Edited!PathKey(p) >> = above2 \o << <<"workflows">>, Edited!PathKey(q) >>
    BY <1>1 DEF FoundBy
<1>4. Edited!PathKey(p) = Edited!PathKey(q)
    BY <1>2, <1>3, SameEnd
<1> QED BY <1>4 DEF FoundBy, Edited!OneKey

LEMMA EditedInit ==
    ASSUME Edited!Init PROVE EditedInv
BY DEF Edited!Init, EditedInv, Edited!StopsOwnDaemon, Edited!RefusedByOwnDaemon

LEMMA EditedCommands ==
    ASSUME EditedInv, NEW a \in Mentions, NEW env \in AllEnvs,
           \/ Edited!Refused(a, env) \/ Edited!EnsureRootFails(a, env)
           \/ Edited!RunDetached(a, env) \/ Edited!AlreadyRunning(a, env)
           \/ Edited!Stop(a, env)
    PROVE  EditedInv'
<1> DEFINE f == Edited!Located(Edited!Canonicalize(a))
           raw == x1[f].root
           root == Edited!Promoted(a, env).path
           own == [file |-> f, root |-> root]
<1> USE DEF EditedInv, Edited!StopsOwnDaemon, Edited!RefusedByOwnDaemon
<1>1. f \in Files /\ raw \in OnlyNull
    BY PlaceAssumption
<1>2. Edited!Promoted(a, env).ok => FoundBy(own, a, raw, env)
    BY DEF Edited!Promoted, Edited!NoPath, FoundBy
<1>3. ASSUME Edited!Promoted(a, env).ok, NEW r \in x3 \cup x4, r.root = root
      PROVE  Edited!OneKey(r.file, f)
    <2>1. PICK b \in Mentions, other \in OnlyNull, env2 \in AllEnvs : FoundBy(r, b, other, env2)
        OBVIOUS
    <2>2. own.root = root /\ own.file = f
        OBVIOUS
    <2> HIDE DEF own, f, raw, root
    <2> QED BY <1>1, <1>2, <1>3, <2>1, <2>2, WorkspaceOfFile
<1> HIDE DEF f, raw, root
<1>4. CASE Edited!Refused(a, env)
    <2>1. UNCHANGED <<x1, x3, x4>> /\ x5'.result = "refused" /\ x5'.stopped = {}
        BY <1>4 DEF Edited!Refused, Edited!Report
    <2> QED BY <2>1 DEF FoundBy
<1>5. CASE Edited!EnsureRootFails(a, env)
    <2>1. UNCHANGED <<x1, x3, x4>> /\ x5'.cmd = "run" /\ x5'.result = "no_root"
        BY <1>5 DEF Edited!EnsureRootFails, Edited!Report
    <2> QED BY <2>1 DEF FoundBy
<1>6. CASE Edited!RunDetached(a, env)
    <2>1. /\ x1' = x1 /\ x5'.cmd = "run" /\ x5'.result = "started"
          /\ Edited!Promoted(a, env).ok
          /\ x3' \cup x4' \subseteq x3 \cup x4 \cup {own}
        BY <1>6 DEF Edited!RunDetached, Edited!Report, f, root
    <2> HIDE DEF own
    <2> QED BY <1>1, <1>2, <2>1 DEF FoundBy
<1>7. CASE Edited!AlreadyRunning(a, env)
    <2>1. /\ UNCHANGED <<x1, x3, x4>> /\ x5'.cmd = "run" /\ x5'.file = f
          /\ Edited!Promoted(a, env).ok
          /\ Edited!Recorded(root) \cap x3 # {}
        BY <1>7 DEF Edited!AlreadyRunning, Edited!Report, f, root
    <2>2. PICK d \in x3 : d.root = root
        BY <2>1 DEF Edited!Recorded
    <2>3. Edited!OneKey(d.file, f)
        BY <1>3, <2>1, <2>2
    <2> QED BY <2>1, <2>3 DEF FoundBy
<1>8. CASE Edited!Stop(a, env)
    <2>1. /\ x1' = x1 /\ x5'.cmd = "stop" /\ x5'.file = f
          /\ Edited!Promoted(a, env).ok
          /\ x3' \subseteq x3 /\ x4' \subseteq x4
          /\ x5'.stopped = {d.file : d \in Edited!Recorded(root) \cap x3}
        BY <1>8 DEF Edited!Stop, Edited!Report, f, root
    <2>2. \A d \in Edited!Recorded(root) : Edited!OneKey(d.file, f)
        BY <1>3, <2>1 DEF Edited!Recorded
    <2> QED BY <2>1, <2>2 DEF FoundBy
<1> QED BY <1>4, <1>5, <1>6, <1>7, <1>8

LEMMA EditedStep ==
    ASSUME EditedInv, Edited!Next PROVE EditedInv'
<1> USE DEF EditedInv, Edited!StopsOwnDaemon, Edited!RefusedByOwnDaemon
<1>1. ASSUME NEW f \in Files, Edited!Edit(f) PROVE EditedInv'
    BY <1>1 DEF Edited!Edit, FoundBy
<1>2. ASSUME NEW d \in x3, Edited!DaemonDies(d) PROVE EditedInv'
    BY <1>2 DEF Edited!DaemonDies, FoundBy
<1> QED BY <1>1, <1>2, EditedCommands DEF Edited!Next

\* DaemonOfTheFile: however an unedited file is spelled, stop reaches its
\* daemon; however files share a home, change and are asked for from other
\* environments, no stop ends and no start meets the daemon of another one
\* that no spelling gives the same key (workflow/loader.rs, utils/paths.rs,
\* workspace/mod.rs, daemon/lifecycle.rs).
THEOREM StopFindsItsDaemon == Spec => []DaemonOfTheFile
<1> DEFINE I == (part = "spelled" => SpelledInv) /\ (part = "edited" => EditedInv)
<1>1. Init => I
    BY SpelledInit, EditedInit DEF Init
<1>2. I /\ [Next]_all => I'
    <2>1. ASSUME I, Next PROVE I'
        BY <2>1, SpelledStep, EditedStep DEF Next, InOneByOne, InRaces, InSpelled,
           InEdited, InDetach, InPrompt, InRetention, InDocumented, InRewritten, InEvents
    <2>2. ASSUME I, UNCHANGED all PROVE I'
        BY <2>2 DEF all, From3, From6, From7, From9, SpelledInv, Home, EditedInv, FoundBy,
           Spelled!StopReachesDaemon, Edited!StopsOwnDaemon, Edited!RefusedByOwnDaemon
    <2> QED BY <2>1, <2>2
<1>3. I => DaemonOfTheFile
    BY DEF SpelledInv, EditedInv, DaemonOfTheFile
<1> QED BY <1>1, <1>2, <1>3, PTL DEF Spec

=============================================================================
