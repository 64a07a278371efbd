------------------------ MODULE ProjectAdmissionProofs ------------------------
(***************************************************************************)
(* Proofs about ProjectAdmission: whatever is read before it is acted upon, *)
(* fails, dies or is stopped meanwhile, who executes holds a reservation,   *)
(* and reservations are within the limit and one to a plan.                *)
(***************************************************************************)
EXTENDS ProjectAdmission, FiniteSetTheorems, TLAPS

-----------------------------------------------------------------------------
(* The inductive invariant *)

\* Steps at which the run has its manifest.
Begun ==
  {"bind", "record", "readmit", "own", "prepare", "answer", "ask", "relaunch", "dispatch",
   "request", "phase", "unit", "started", "drop", "hold", "execute"}

\* Who may be where, and what the artifacts of the run are there.
OnJob(p) ==
  LET r == job[p].run
      at == job[p].at
  IN
  /\ r = NoRun <=> at \in {"idle", "look"}
  /\ r # NoRun => p \in up
  /\ p \in Direct =>
       r \in {p, NoRun} /\ at \in {"idle", "admit", "publish", "bind", "giveback", "execute"}
  /\ p \in Daemons => at # "execute" /\ (r \in Direct => at = "stopping" /\ Unscoped)
  /\ at \in Begun => r \in manifest
  /\ at \in {"admit", "publish", "bind", "record"} => record[r] = "none"
  /\ at \in {"readmit", "own", "prepare"} => record[r] = "preparing"
  /\ at \in {"answer", "ask"} => record[r] = "awaiting"
  /\ at \in {"relaunch", "dispatch", "request"} => record[r] \in {"prepared", "launch_requested"}
  /\ at \in {"phase", "unit", "started"} => record[r] = "launch_requested"
  /\ at \in {"unit", "started"} => phase[r] # "manifest_only"
  /\ at = "execute" => outcome[r] = "running"

\* One operation has a run, beside owner stops.
Exclusive ==
  \A p, q \in Process : p # q /\ job[p].run = job[q].run /\ job[p].run # NoRun =>
    job[p].at = "stopping" \/ job[q].at = "stopping"

\* What one artifact of a run says of the others.
OnRun(r) ==
  /\ record[r] # "none" => r \in manifest
  /\ unit[r] # "none" =>
       /\ record[r] \in {"launch_requested", "unit_started", "failed_launch"}
       /\ phase[r] # "manifest_only"
  /\ receipt[r] => unit[r] = "gone"
  /\ preparer[r] # NoProcess => record[r] = "preparing"
  /\ r \in Direct => record[r] = "none" /\ (phase[r] = "manifest_only" \/ Unscoped)

Artifacts ==
  /\ \A p \in Process : OnJob(p)
  /\ Exclusive
  /\ \A r \in Runs : OnRun(r)

\* It is being prepared, or about to be ...
Underway(r) ==
  /\ record[r] = "preparing" /\ ~Over(r)
  /\ Preparing(r) \/ \E p \in up : job[p].run = r /\ job[p].at \in {"own", "prepare"}

\* ... or it executes, and is not a direct run that an owner may have stopped.
Outright(r) == r \in Direct /\ At(r, {"execute"}) /\ ~Unscoped

Busy(r) == Underway(r) \/ unit[r] = "executing" \/ Outright(r)

Claimed ==
  \A r \in Runs :
    /\ Busy(r) => Live(reservations[r])
    /\ unit[r] = "executing" => reservations[r].nonce = workerNonce[r]
    /\ Outright(r) => reservations[r].nonce = job[r].nonce

\* However old the view, it is right about whoever is busy or waits by now.
Seen ==
  lock # Unlocked => \A r \in Runs :
    /\ Busy(r) => lock.view[r].state \notin {"absent", "inactive"}
    /\ Waiting(r) => Unresolved(lock.view[r])

\* Slots are within the limit, and one to a plan and to a predecessor.
Slots == {r \in Runs : Live(reservations[r])}

Bounded == Cardinality(Slots) <= Limit

Apart ==
  \A r \in Slots : \A s \in Runs \ {r} :
    /\ PlanOf[r] = PlanOf[s] => s \notin Slots /\ ~Waiting(s)
    /\ SourceOf[r] = SourceOf[s] /\ SourceOf[r] # NoRun => s \notin Slots

Inv == TypeOK /\ Artifacts /\ Claimed /\ Seen /\ Bounded /\ Apart

(* Generations, when owner stops keep off direct runs *)

\* No unit is there before it is started.
Unstarted ==
  \A p \in Process :
    job[p].at \in {"relaunch", "dispatch", "request", "phase", "unit"} => unit[job[p].run] = "none"

\* A launch is requested of a prepared run, and ends what has begun.
Ended ==
  \A r \in Runs :
    /\ phase[r] \in {"launch_requested", "unit_started"} =>
         record[r] \in {"launch_requested", "unit_started", "failed_launch"}
    /\ outcome[r] = "terminal" => unit[r] # "none" \/ (r \in Direct /\ r \notin up)

\* No launch of the run starts any more; one under way may go on.
Halted(s) ==
  \/ phase[s] # "manifest_only" \/ record[s] = "failed_preparation"
  \/ s \in Direct /\ s \notin up

\* A run that has begun restarts one that is halted ...
Known(r) == r \in manifest \/ r \in Slots \/ \E p \in Process : job[p].run = r

Restarts == \A r \in Runs : Known(r) /\ SourceOf[r] # NoRun => Halted(SourceOf[r])

\* ... and is admitted on a view of it that has no open question.
Viewed ==
  lock # Unlocked =>
    /\ job[lock.by].at \in Admits \cup Gives \cup {"look"}
    /\ \A r \in Runs : job[lock.by].run = r /\ SourceOf[r] # NoRun => ~lock.view[SourceOf[r]].held

\* What is under way of it has lost its reservation, for good.
Lost(s, nonce) == ~(Live(reservations[s]) /\ reservations[s].nonce = nonce)

Spent(s) ==
  /\ unit[s] # "executing"
  /\ unit[s] = "booting" => Lost(s, workerNonce[s])
  /\ \A p \in Process :
       job[p].run = s /\ job[p].at \in {"request", "phase", "unit"} => Lost(s, job[p].nonce)

\* A run that has been admitted once stays so when it has its manifest.
Admitted(r) ==
  r \in Slots \/ r \in manifest \/ \E p \in Process : job[p].run = r /\ job[p].at = "publish"

Succeeded == \A r \in Runs : Admitted(r) /\ SourceOf[r] # NoRun => Spent(SourceOf[r])

Generations == Unstarted /\ Ended /\ Restarts /\ Viewed /\ Succeeded

-----------------------------------------------------------------------------
(* Types *)

Stage ==
  {"idle", "publish", "bind", "record", "own", "prepare", "ask", "dispatch", "consume",
   "request", "phase", "unit", "started", "stopping", "look", "execute",
   "admit", "readmit", "answer", "relaunch", "giveback", "drop", "hold"}

LEMMA JobType == Job = [run : Runs \cup {NoRun}, nonce : Nat, at : Stage]
<1> DEFINE Places ==
      {"idle", "publish", "bind", "record", "own", "prepare", "ask", "dispatch", "consume",
       "request", "phase", "unit", "started", "stopping", "look", "execute"} \cup Admits \cup Gives
<1>1. \A x : x \in Places => x \in Stage
  BY DEF Stage, Admits, Gives
<1>2. \A x : x \in Stage => x \in Places
  BY DEF Stage, Admits, Gives
<1>3. Job = [run : Runs \cup {NoRun}, nonce : Nat, at : Places]
  BY DEF Job
<1> HIDE DEF Places
<1>4. Places = Stage
  BY <1>1, <1>2
<1> QED
  BY <1>3, <1>4

LEMMA JobParts ==
  ASSUME TypeOK, NEW p \in Process
  PROVE  job[p].run \in Runs \cup {NoRun} /\ job[p].nonce \in Nat /\ job[p].at \in Stage
<1>1. job[p] \in Job
  BY DEF TypeOK
<1> QED
  BY <1>1, JobType

LEMMA Constants ==
  /\ Direct \subseteq Runs /\ Daemons \subseteq Process /\ Direct \subseteq Process
  /\ NoRun \notin Runs /\ NoReservation \notin Reservation
  /\ \A p \in Daemons : p \notin Direct /\ p # NoProcess
  /\ IsFiniteSet(Runs)
BY RunAssumption, NullAssumption DEF Process

LEMMA IdleType == Idle \in Job
BY JobType DEF Idle, Stage

LEMMA AssignType ==
  ASSUME TypeOK, NEW p \in Process, NEW r \in Runs \cup {NoRun}, NEW n \in Nat, NEW at \in Stage,
         job' = [job EXCEPT ![p] = [run |-> r, nonce |-> n, at |-> at]]
  PROVE  job' \in [Process -> Job]
<1>1. [run |-> r, nonce |-> n, at |-> at] \in Job
  BY JobType
<1> QED
  BY <1>1 DEF TypeOK

LEMMA GotoType ==
  ASSUME TypeOK, NEW p \in Process, NEW from, NEW to \in Stage, Goto(p, from, to)
  PROVE  job' \in [Process -> Job]
<1>1. job' = [job EXCEPT ![p] = [run |-> job[p].run, nonce |-> job[p].nonce, at |-> to]]
  BY DEF Goto
<1> QED
  BY <1>1, JobParts, AssignType

LEMMA LeaveType ==
  ASSUME TypeOK, NEW p \in Process, Leave(p)
  PROVE  job' \in [Process -> Job] /\ up' \subseteq Process
BY IdleType DEF Leave, TypeOK

LEMMA EvidenceType ==
  ASSUME NEW r
  PROVE  EvidenceOf(r) \in Evidence
<1> DEFINE state == EvidenceOf(r).state
<1>1. EvidenceOf(r).state \in {"absent", "inactive", "starting", "active", "uncertain"}
  BY DEF EvidenceOf
<1>2. EvidenceOf(r).held \in BOOLEAN
  BY DEF EvidenceOf
<1>3. EvidenceOf(r) = [state |-> EvidenceOf(r).state, held |-> EvidenceOf(r).held]
  BY DEF EvidenceOf
<1> QED
  BY <1>1, <1>2, <1>3 DEF Evidence

LEMMA RestateType ==
  ASSUME NEW k \in Reservation, NEW state \in LiveState \cup {"released"},
         NEW retained \in BOOLEAN, NEW bound \in BOOLEAN
  PROVE  Restate(k, state, retained, bound) \in Reservation
BY DEF Restate, Reservation

LEMMA ReconcileType ==
  ASSUME NEW k \in Reservation \cup {NoReservation}, NEW e \in Evidence
  PROVE  Reconcile(k, e) \in Reservation \cup {NoReservation}
<1>1. CASE ~Live(k)
  BY <1>1 DEF Reconcile
<1>2. CASE Live(k)
  <2>1. k \in Reservation /\ k.retained \in BOOLEAN /\ k.bound \in BOOLEAN
    BY <1>2 DEF Live, Reservation
  <2>2. e.state \in {"absent", "inactive", "starting", "active", "uncertain"} /\ e.held \in BOOLEAN
    BY DEF Evidence
  <2>3. Restate(k, "released", k.retained \/ e.held, k.bound) \in Reservation
    BY <2>1, <2>2, RestateType
  <2>4. Restate(k, "released", k.retained, k.bound) \in Reservation
    BY <2>1, RestateType
  <2>5. \A s \in LiveState : Restate(k, s, k.retained, k.bound) \in Reservation
    BY <2>1, RestateType
  <2>6. "reserved" \in LiveState /\ "uncertain" \in LiveState
        /\ (e.state \notin {"absent", "inactive"} => e.state \in LiveState)
    BY <2>2 DEF LiveState
  <2> HIDE DEF Restate
  <2> QED
    BY <1>2, <2>1, <2>3, <2>4, <2>5, <2>6 DEF Reconcile
<1> QED
  BY <1>1, <1>2

\* Whoever holds the lock has a view of every run.
LEMMA HolderView ==
  ASSUME TypeOK, NEW p \in Process, Holds(p)
  PROVE  /\ lock # Unlocked /\ lock.view \in [Runs -> Evidence]
         /\ \A r \in Runs : lock.view[r] \in Evidence
BY DEF Holds, TypeOK

LEMMA ReconciledType ==
  ASSUME TypeOK, NEW p \in Process, Holds(p)
  PROVE  Reconciled \in [Runs -> Reservation \cup {NoReservation}]
BY HolderView, ReconcileType DEF Reconciled, TypeOK

LEMMA RetiredType ==
  ASSUME TypeOK, NEW r \in Runs, Live(reservations[r])
  PROVE  /\ reservations[r] \in Reservation /\ reservations[r].nonce \in Nat
         /\ reservations[r].state \in LiveState /\ reservations[r].retained \in BOOLEAN
         /\ reservations[r].bound \in BOOLEAN
BY DEF TypeOK, Live, Reservation

LEMMA TransitionType ==
  ASSUME TypeOK, NEW r \in Runs, NEW n, NEW state \in LiveState, Transition(r, n, state)
  PROVE  reservations' \in [Runs -> Reservation \cup {NoReservation}]
<1>1. Live(reservations[r])
  BY DEF Transition, Fenced
<1>2. Restate(reservations[r], state, reservations[r].retained, TRUE) \in Reservation
  BY <1>1, RetiredType, RestateType
<1> HIDE DEF Restate
<1> QED
  BY <1>2 DEF Transition, TypeOK


LEMMA InitType == Init => TypeOK
BY IdleType, Constants DEF Init, TypeOK

\* Every operation but a pass has a run.
LEMMA HasRun ==
  ASSUME TypeOK, Artifacts, NEW p \in Process, NEW places, At(p, places),
         "idle" \notin places, "look" \notin places
  PROVE  job[p].run \in Runs /\ p \in up
BY JobParts DEF Artifacts, OnJob, At

\* What is granted, beside what is kept.
LEMMA GrantNew ==
  ASSUME TypeOK, Artifacts, NEW p \in Process, Grant(p)
  PROVE  \E new \in Reservation :
           /\ Live(new) /\ new.nonce = minted + 1
           /\ reservations' = [s \in Runs |->
                IF s = job[p].run THEN new
                ELSE IF s \in Compacted(job[p].run) THEN Reconciled[s]
                ELSE NoReservation]
<1>1. job[p].run \in Runs /\ Holds(p) /\ minted + 1 \in Nat
  BY HasRun DEF Grant, Admits, TypeOK
<1>2. Reconciled \in [Runs -> Reservation \cup {NoReservation}]
  BY <1>1, ReconciledType
<1> DEFINE r == job[p].run
           retained == IF Reconciled[r] # NoReservation
                       THEN Reconciled[r].retained ELSE lock.view[r].held
           new == [nonce |-> minted + 1, state |-> "reserved", retained |-> retained,
                   bound |-> lock.view[r].state # "absent", owner |-> p]
<1>3. retained \in BOOLEAN
  BY <1>1, <1>2, HolderView DEF Reservation, Evidence
<1>4. reservations' = [s \in Runs |->
        IF s = r THEN new ELSE IF s \in Compacted(r) THEN Reconciled[s] ELSE NoReservation]
  BY DEF Grant
<1>5. new \in Reservation /\ new.nonce = minted + 1 /\ new.state = "reserved"
  <2> HIDE DEF retained
  <2> QED
    BY <1>1, <1>3 DEF Reservation, LiveState
<1> HIDE DEF new
<1>6. Live(new)
  BY <1>5, NullAssumption DEF Live
<1> QED
  BY <1>4, <1>5, <1>6

LEMMA AdmissionType ==
  ASSUME TypeOK, Artifacts, NEW p \in Process, Admission(p)
  PROVE  TypeOK'
<1> USE DEF artifacts, units, counts
<1>1. CASE Enter(p)
  <2>1. [by |-> p, view |-> [r \in Runs |-> EvidenceOf(r)]] \in [by : Process, view : [Runs -> Evidence]]
    BY EvidenceType
  <2> QED
    BY <1>1, <2>1 DEF Enter, TypeOK
<1>2. CASE Replay(p)
  <2>1. job[p].run \in Runs /\ Holds(p)
    BY <1>2, HasRun DEF Replay, Admits
  <2>2. Reconciled \in [Runs -> Reservation \cup {NoReservation}]
    BY <2>1, ReconciledType
  <2>3. Reconciled[job[p].run].nonce \in Nat
    BY <1>2, <2>1, <2>2 DEF Replay, Live, Reservation
  <2>4. job' \in [Process -> Job]
    <3>1. CASE job[p].at \in Admits
      <4> DEFINE to == CASE job[p].at = "admit" -> "publish"
                         [] job[p].at = "readmit" -> "own"
                         [] job[p].at = "answer" -> "ask"
                         [] job[p].at = "relaunch" -> "dispatch"
      <4>1. to \in Stage
        BY <3>1 DEF Admits, Stage
      <4>2. job' = [job EXCEPT ![p] = [run |-> job[p].run, nonce |-> Reconciled[job[p].run].nonce, at |-> to]]
        BY <1>2 DEF Replay, Proceed
      <4> HIDE DEF to
      <4> QED
        BY <2>1, <2>3, <4>1, <4>2, AssignType
    <3> QED
      BY <1>2, <3>1 DEF Replay, At
  <2> QED
    BY <1>2, <2>2, <2>4 DEF Replay, TypeOK
<1>3. CASE Grant(p)
  <2>1. job[p].run \in Runs /\ Holds(p) /\ minted + 1 \in Nat
    BY <1>3, HasRun DEF Grant, Admits, TypeOK
  <2>2. Reconciled \in [Runs -> Reservation \cup {NoReservation}]
    BY <2>1, ReconciledType
  <2>3. job' \in [Process -> Job]
    <3> DEFINE to == CASE job[p].at = "admit" -> "publish"
                       [] job[p].at = "readmit" -> "own"
                       [] job[p].at = "answer" -> "ask"
                       [] job[p].at = "relaunch" -> "dispatch"
    <3>1. job[p].at \in Admits
      BY <1>3 DEF Grant, At
    <3>2. to \in Stage
      BY <3>1 DEF Admits, Stage
    <3>3. job' = [job EXCEPT ![p] = [run |-> job[p].run, nonce |-> minted + 1, at |-> to]]
      BY <1>3 DEF Grant, Proceed
    <3> HIDE DEF to
    <3> QED
      BY <2>1, <3>2, <3>3, AssignType
  <2>4. PICK new \in Reservation :
          reservations' = [s \in Runs |->
            IF s = job[p].run THEN new
            ELSE IF s \in Compacted(job[p].run) THEN Reconciled[s]
            ELSE NoReservation]
    BY <1>3, GrantNew
  <2>5. reservations' \in [Runs -> Reservation \cup {NoReservation}]
    BY <2>2, <2>4
  <2> QED
    BY <1>3, <2>1, <2>3, <2>5 DEF Grant, TypeOK
<1>4. CASE Refuse(p) \/ Look(p)
  <2>1. Reconciled \in [Runs -> Reservation \cup {NoReservation}]
    BY <1>4, ReconciledType DEF Refuse, Look
  <2>2. job' \in [Process -> Job] /\ up' \subseteq Process
    BY <1>4, LeaveType DEF Refuse, Look
  <2> QED
    BY <1>4, <2>1, <2>2 DEF Refuse, Look, TypeOK
<1>5. CASE Release(p)
  <2>1. job' \in [Process -> Job] /\ up' \subseteq Process
    BY <1>5, LeaveType DEF Release
  <2>2. job[p].run \in Runs
    BY <1>5, HasRun DEF Release, Gives
  <2>3. reservations' \in [Runs -> Reservation \cup {NoReservation}]
    <3>1. CASE UNCHANGED reservations
      BY <3>1 DEF TypeOK
    <3>2. CASE ~UNCHANGED reservations
      <4> DEFINE k == reservations[job[p].run]
                 new == Restate(k, "released", k.retained \/ job[p].at = "hold", k.bound)
      <4>1. Live(k) /\ reservations' = [reservations EXCEPT ![job[p].run] = new]
        BY <1>5, <3>2 DEF Release
      <4>2. new \in Reservation
        BY <2>2, <4>1, RetiredType, RestateType
      <4> HIDE DEF new
      <4> QED
        BY <4>1, <4>2 DEF TypeOK
    <3> QED
      BY <3>1, <3>2
  <2> QED
    BY <1>5, <2>1, <2>3 DEF Release, TypeOK
<1> QED
  BY <1>1, <1>2, <1>3, <1>4, <1>5 DEF Admission

LEMMA StartingType ==
  ASSUME TypeOK, Artifacts, NEW p \in Process, Starting(p)
  PROVE  TypeOK'
<1> USE DEF artifacts, units, counts
<1>1. job[p].run \in Runs
  BY HasRun DEF Starting, Publish, PublishFails, Bind, CreateRecord, Own, Prepare, Prepared, Goto
<1>2. CASE Publish(p)
  BY <1>1, <1>2, GotoType DEF Publish, Stage, TypeOK
<1>3. CASE PublishFails(p)
  BY <1>1, <1>3, GotoType DEF PublishFails, Stage, TypeOK
<1>4. CASE Bind(p)
  <2>1. job' \in [Process -> Job]
    BY <1>4, GotoType DEF Bind, Stage
  <2>2. /\ Live(reservations[job[p].run])
        /\ Transition(job[p].run, job[p].nonce, reservations[job[p].run].state)
    BY <1>4 DEF Bind, Transition, Fenced
  <2>3. reservations' \in [Runs -> Reservation \cup {NoReservation}] /\ lock' = lock
    BY <1>1, <2>2, RetiredType, TransitionType DEF Transition
  <2> QED
    BY <1>1, <1>4, <2>1, <2>3 DEF Bind, TypeOK
<1>5. CASE CreateRecord(p)
  BY <1>1, <1>5, GotoType DEF CreateRecord, Stage, TypeOK
<1>6. CASE Own(p)
  <2>1. p \in Daemons
    BY <1>6 DEF Own, Goto, At, Artifacts, OnJob, Process
  <2> QED
    BY <1>1, <1>6, <2>1, GotoType DEF Own, Stage, TypeOK
<1>7. ASSUME NEW state \in {"failed_preparation", "awaiting", "prepared"},
             NEW to \in {"drop", "hold", "relaunch"}, Prepared(p, state, to)
      PROVE  TypeOK'
  BY <1>1, <1>7, GotoType DEF Prepared, Stage, TypeOK
<1> QED
  BY <1>2, <1>3, <1>4, <1>5, <1>6, <1>7 DEF Starting, Prepare

LEMMA LaunchingType ==
  ASSUME TypeOK, Artifacts, NEW p \in Process, Launching(p)
  PROVE  TypeOK'
<1> USE DEF artifacts, units, counts
<1>1. job[p].run \in Runs /\ job[p].nonce \in Nat
  BY HasRun, JobParts DEF Launching, MarkStarting, PriorWork, Overtaken, RequestLaunch, WritePhase,
    StartUnit, StartUnitFails, Started, Goto
<1>2. CASE MarkStarting(p)
  <2>1. job' \in [Process -> Job]
    BY <1>2, GotoType DEF MarkStarting, Stage
  <2>2. reservations' \in [Runs -> Reservation \cup {NoReservation}] /\ lock' = lock
    BY <1>1, <1>2, TransitionType DEF MarkStarting, Transition, LiveState
  <2> QED
    BY <1>2, <2>1, <2>2 DEF MarkStarting, TypeOK
<1>3. CASE PriorWork(p)
  BY <1>1, <1>3, GotoType DEF PriorWork, Stage, TypeOK
<1>4. CASE RequestLaunch(p)
  BY <1>1, <1>4, GotoType DEF RequestLaunch, Stage, TypeOK
<1>5. CASE WritePhase(p)
  BY <1>1, <1>5, GotoType DEF WritePhase, Stage, TypeOK
<1>6. CASE StartUnit(p)
  BY <1>1, <1>6, GotoType DEF StartUnit, UnitStarts, Stage, TypeOK
<1>7. CASE StartUnitFails(p)
  BY <1>1, <1>7, LeaveType DEF StartUnitFails, UnitStarts, TypeOK
<1>8. CASE Started(p)
  BY <1>1, <1>8, LeaveType DEF Started, TypeOK
<1>9. CASE Overtaken(p)
  BY <1>1, <1>9, LeaveType DEF Overtaken, TypeOK
<1> QED
  BY <1>2, <1>3, <1>4, <1>5, <1>6, <1>7, <1>8, <1>9 DEF Launching

\* Whatever changes only the operation in progress, locks, processes or counts.
LEMMA OthersType ==
  ASSUME TypeOK, NEW p \in Process,
         \/ Stopped(p) \/ LookAround(p) \/ Fail(p) \/ Crash(p)
         \/ \E r \in Runs : StartRun(p, r) \/ Retry(p, r) \/ Answer(p, r) \/ Stop(p, r)
  PROVE  TypeOK'
<1> USE DEF artifacts, units, counts
<1>1. CASE Stopped(p)
  BY <1>1, LeaveType, JobParts DEF Stopped, TypeOK
<1>2. CASE LookAround(p)
  <2>1. [by |-> p, view |-> [r \in Runs |-> EvidenceOf(r)]] \in [by : Process, view : [Runs -> Evidence]]
    BY EvidenceType
  <2>2. job' \in [Process -> Job]
    BY <1>2, AssignType DEF LookAround, Stage
  <2> QED
    BY <1>2, <2>1, <2>2 DEF LookAround, TypeOK
<1>3. CASE Fail(p)
  BY <1>3, LeaveType DEF Fail, TypeOK
<1>4. CASE Crash(p)
  BY <1>4, IdleType DEF Crash, TypeOK
<1>5. ASSUME NEW r \in Runs, StartRun(p, r) \/ Retry(p, r) \/ Answer(p, r) \/ Stop(p, r)
      PROVE  TypeOK'
  <2>1. PICK at \in Stage : job' = [job EXCEPT ![p] = [run |-> r, nonce |-> 0, at |-> at]]
    BY <1>5 DEF StartRun, Retry, Answer, Stop, Stage
  <2>2. job' \in [Process -> Job]
    BY <2>1, AssignType
  <2> QED
    BY <1>5, <2>2 DEF StartRun, Retry, Answer, Stop, TypeOK
<1> QED
  BY <1>1, <1>2, <1>3, <1>4, <1>5

LEMMA RunType ==
  ASSUME TypeOK, NEW r \in Runs,
         StartDirect(r) \/ Boot(r) \/ Terminate(r) \/ UnitExit(r) \/ TerminateDirect(r)
  PROVE  TypeOK'
<1> USE DEF artifacts, units, counts
<1>1. CASE StartDirect(r)
  <2>1. r \in Process
    BY <1>1, Constants DEF StartDirect
  <2>2. job' \in [Process -> Job]
    BY <1>1, <2>1, AssignType DEF StartDirect, Stage
  <2> QED
    BY <1>1, <2>2 DEF StartDirect, TypeOK
<1>2. CASE Boot(r)
  <2>1. reservations' \in [Runs -> Reservation \cup {NoReservation}] /\ lock' = lock
    BY <1>2, TransitionType DEF Boot, Transition, LiveState
  <2> QED
    BY <1>2, <2>1 DEF Boot, TypeOK
<1>3. CASE Terminate(r)
  BY <1>3 DEF Terminate, TypeOK
<1>4. CASE UnitExit(r)
  BY <1>4 DEF UnitExit, TypeOK
<1>5. CASE TerminateDirect(r)
  <2>1. r \in Process
    BY <1>5 DEF TerminateDirect, At, TypeOK
  <2> QED
    BY <1>5, <2>1, LeaveType DEF TerminateDirect, TypeOK
<1> QED
  BY <1>1, <1>2, <1>3, <1>4, <1>5

LEMMA NextType ==
  ASSUME TypeOK, Artifacts, [Next]_vars
  PROVE  TypeOK'
<1>1. CASE UNCHANGED vars
  BY <1>1 DEF vars, artifacts, units, counts, TypeOK
<1> QED
  BY <1>1, AdmissionType, StartingType, LaunchingType, OthersType, RunType DEF Next

-----------------------------------------------------------------------------
(* Artifacts *)

\* An operation with a run shares it with owner stops only.
LEMMA Alone ==
  ASSUME TypeOK, Artifacts, NEW p \in Process, job[p].run # NoRun, job[p].at # "stopping",
         NEW q \in Process \ {p}, job[q].run = job[p].run
  PROVE  job[q].at = "stopping"
BY DEF Artifacts, Exclusive

\* An operation is where it was as long as its run's artifacts are.
LEMMA StayOnJob ==
  ASSUME NEW q \in Process, OnJob(q), job'[q] = job[q], q \in up => q \in up',
         manifest \subseteq manifest',
         job[q].at \notin {"stopping", "idle", "look"} =>
           /\ record'[job[q].run] = record[job[q].run]
           /\ phase[job[q].run] # "manifest_only" => phase'[job[q].run] # "manifest_only"
           /\ job[q].at = "execute" => outcome'[job[q].run] = outcome[job[q].run]
  PROVE  OnJob(q)'
BY DEF OnJob, Begun

\* A step of one process, which changes no artifacts but those of its run.
LEMMA Carry ==
  ASSUME TypeOK, Artifacts, NEW p \in Process, NEW J,
         job' = [job EXCEPT ![p] = J], up \ {p} \subseteq up', manifest \subseteq manifest',
         \A r \in Runs :
           /\ phase[r] # "manifest_only" => phase'[r] # "manifest_only"
           /\ \/ record'[r] = record[r] /\ outcome'[r] = outcome[r]
              \/ r = job[p].run /\ job[p].at # "stopping",
         J.run # NoRun /\ J.at # "stopping" =>
           \A q \in Process \ {p} : job[q].run = J.run => job[q].at = "stopping",
         OnJob(p)', \A r \in Runs : OnRun(r)'
  PROVE  Artifacts'
<1>1. \A q \in Process \ {p} : job'[q] = job[q]
  BY DEF TypeOK
<1>2. job'[p] = J
  BY DEF TypeOK
<1>3. ASSUME NEW q \in Process \ {p}
      PROVE  OnJob(q)'
  <2>1. OnJob(q)
    BY DEF Artifacts
  <2>2. CASE job[q].at \in {"stopping", "idle", "look"}
    BY <1>1, <2>1, <2>2, StayOnJob
  <2>3. CASE job[q].at \notin {"stopping", "idle", "look"}
    <3>1. job[q].run \in Runs
      BY <2>1, <2>3, JobParts DEF OnJob
    <3>2. job[q].run = job[p].run => job[p].at = "stopping"
      BY <2>3, <3>1, Constants DEF Artifacts, Exclusive
    <3> QED
      BY <1>1, <2>1, <3>1, <3>2, StayOnJob
  <2> QED
    BY <2>2, <2>3
<1>4. Exclusive'
  BY <1>1, <1>2 DEF Artifacts, Exclusive
<1> QED
  BY <1>3, <1>4 DEF Artifacts

\* It goes on with its run ...
LEMMA CarryGoto ==
  ASSUME TypeOK, Artifacts, NEW p \in Process, NEW n, NEW at,
         job' = [job EXCEPT ![p] = [run |-> job[p].run, nonce |-> n, at |-> at]],
         job[p].run \in Runs, job[p].at # "stopping", up \ {p} \subseteq up',
         manifest \subseteq manifest',
         \A r \in Runs :
           /\ phase[r] # "manifest_only" => phase'[r] # "manifest_only"
           /\ \/ record'[r] = record[r] /\ outcome'[r] = outcome[r]
              \/ r = job[p].run,
         OnJob(p)', \A r \in Runs : OnRun(r)'
  PROVE  Artifacts'
<1>1. \A q \in Process \ {p} : job[q].run = job[p].run => job[q].at = "stopping"
  BY Alone, Constants
<1> QED
  BY <1>1, Carry

\* ... or is done with it.
LEMMA CarryLeave ==
  ASSUME TypeOK, Artifacts, NEW p \in Process,
         job' = [job EXCEPT ![p] = Idle], up \ {p} \subseteq up', manifest \subseteq manifest',
         \A r \in Runs :
           /\ phase[r] # "manifest_only" => phase'[r] # "manifest_only"
           /\ \/ record'[r] = record[r] /\ outcome'[r] = outcome[r]
              \/ r = job[p].run /\ job[p].at # "stopping",
         \A r \in Runs : OnRun(r)'
  PROVE  Artifacts'
<1>1. job'[p] = Idle
  BY DEF TypeOK
<1>2. OnJob(p)'
  BY <1>1, Constants DEF OnJob, Idle, Begun
<1>3. Idle.run = NoRun
  BY DEF Idle
<1> QED
  BY <1>2, <1>3, Carry

LEMMA SameRuns ==
  ASSUME Artifacts, manifest' = manifest, record' = record, preparer' = preparer, phase' = phase,
         unit' = unit, receipt' = receipt
  PROVE  \A r \in Runs : OnRun(r)'
BY DEF Artifacts, OnRun

LEMMA AdmissionArtifacts ==
  ASSUME TypeOK, Artifacts, NEW p \in Process, Admission(p)
  PROVE  Artifacts'
<1> USE DEF artifacts, units, counts
<1>1. \A r \in Runs : OnRun(r)'
  BY SameRuns DEF Admission, Enter, Replay, Grant, Refuse, Look, Release
<1>2. CASE Enter(p)
  <2>1. \A q \in Process : OnJob(q)'
    BY <1>2 DEF Enter, Artifacts, OnJob
  <2> QED
    BY <1>1, <1>2, <2>1 DEF Enter, Artifacts, Exclusive
<1>3. CASE Replay(p) \/ Grant(p)
  <2>1. job[p].run \in Runs /\ At(p, Admits)
    BY <1>3, HasRun DEF Replay, Grant, Admits
  <2>2. PICK n, to :
          /\ job' = [job EXCEPT ![p] = [run |-> job[p].run, nonce |-> n, at |-> to]]
          /\ to = CASE job[p].at = "admit" -> "publish"
                    [] job[p].at = "readmit" -> "own"
                    [] job[p].at = "answer" -> "ask"
                    [] job[p].at = "relaunch" -> "dispatch"
    BY <1>3 DEF Replay, Grant, Proceed
  <2>3. job'[p] = [run |-> job[p].run, nonce |-> n, at |-> to]
    BY <2>2 DEF TypeOK
  <2>4. OnJob(p)
    BY DEF Artifacts
  <2>5. OnJob(p)'
    BY <1>3, <2>1, <2>2, <2>3, <2>4, Constants DEF Replay, Grant, OnJob, At, Admits, Begun
  <2>6. job[p].at # "stopping"
    BY <2>1 DEF At, Admits
  <2> QED
    BY <1>1, <1>3, <2>1, <2>2, <2>5, <2>6, CarryGoto DEF Replay, Grant
<1>4. CASE Refuse(p) \/ Look(p) \/ Release(p)
  BY <1>1, <1>4, CarryLeave DEF Refuse, Look, Release, Leave
<1> QED
  BY <1>2, <1>3, <1>4 DEF Admission

LEMMA StartingArtifacts ==
  ASSUME TypeOK, Artifacts, NEW p \in Process, Starting(p)
  PROVE  Artifacts'
<1> USE DEF artifacts, units, counts
<1>1. /\ job[p].run \in Runs /\ p \in up
      /\ job[p].at \in {"publish", "bind", "record", "own", "prepare", "ask"}
  BY HasRun DEF Starting, Publish, PublishFails, Bind, CreateRecord, Own, Prepare, Prepared, Goto,
    At
<1>2. OnJob(p) /\ OnRun(job[p].run)
  BY <1>1 DEF Artifacts
<1>3. PICK to : job' = [job EXCEPT ![p] = [run |-> job[p].run, nonce |-> job[p].nonce, at |-> to]]
  BY DEF Starting, Publish, PublishFails, Bind, CreateRecord, Own, Prepare, Prepared, Goto
<1>4. job'[p] = [run |-> job[p].run, nonce |-> job[p].nonce, at |-> to]
  BY <1>3 DEF TypeOK
<1>5. /\ up' = up /\ manifest \subseteq manifest' /\ phase' = phase
      /\ \A r \in Runs : (record'[r] = record[r] /\ outcome'[r] = outcome[r]) \/ r = job[p].run
  BY <1>1 DEF Starting, Publish, PublishFails, Bind, CreateRecord, Own, Prepare, Prepared, TypeOK
<1>6. ASSUME OnJob(p)', \A r \in Runs : OnRun(r)'
      PROVE  Artifacts'
  BY <1>1, <1>3, <1>5, <1>6, CarryGoto
<1>7. CASE Publish(p) \/ PublishFails(p)
  <2>1. OnJob(p)'
    BY <1>1, <1>2, <1>4, <1>7, Constants DEF Publish, PublishFails, Goto, At, OnJob, Begun, TypeOK
  <2>2. \A r \in Runs : OnRun(r)'
    BY <1>7 DEF Publish, PublishFails, Artifacts, OnRun
  <2> QED
    BY <1>6, <2>1, <2>2
<1>8. CASE Bind(p)
  <2>1. OnJob(p)'
    BY <1>1, <1>2, <1>4, <1>8, Constants DEF Bind, Goto, At, OnJob, Begun, TypeOK, Process
  <2>2. \A r \in Runs : OnRun(r)'
    BY <1>8, SameRuns DEF Bind
  <2> QED
    BY <1>6, <2>1, <2>2
<1>9. CASE CreateRecord(p)
  <2>1. OnJob(p)'
    BY <1>1, <1>2, <1>4, <1>9, Constants DEF CreateRecord, Goto, At, OnJob, Begun, TypeOK
  <2>2. ASSUME NEW r \in Runs
        PROVE  OnRun(r)'
    <3>1. OnRun(r)
      BY DEF Artifacts
    <3>2. r = job[p].run => r \in manifest /\ r \notin Direct /\ unit[r] = "none" /\ preparer[r] = NoProcess
      BY <1>1, <1>2, <1>9, Constants DEF CreateRecord, Goto, At, OnJob, OnRun, Begun, Process
    <3> QED
      BY <1>9, <3>1, <3>2 DEF CreateRecord, OnRun, TypeOK
  <2> QED
    BY <1>6, <2>1, <2>2
<1>10. CASE Own(p)
  <2>1. OnJob(p)'
    BY <1>1, <1>2, <1>4, <1>10, Constants DEF Own, Goto, At, OnJob, Begun
  <2>2. \A r \in Runs : OnRun(r)'
    BY <1>1, <1>2, <1>10 DEF Own, Goto, At, OnJob, Artifacts, OnRun, TypeOK
  <2> QED
    BY <1>6, <2>1, <2>2
<1>11. ASSUME NEW state, Prepared(p, state, to),
              <<state, to>> \in {<<"failed_preparation", "drop">>, <<"awaiting", "hold">>,
                                 <<"prepared", "relaunch">>}
       PROVE  Artifacts'
  <2>1. record'[job[p].run] = state /\ preparer'[job[p].run] = NoProcess
    BY <1>1, <1>11 DEF Prepared, TypeOK
  <2>2. job[p].at \in {"prepare", "ask"}
    BY <1>11 DEF Prepared, Goto, At
  <2>3. OnJob(p)'
    BY <1>1, <1>2, <1>4, <1>11, <2>1, <2>2, Constants DEF Prepared, OnJob, Begun
  <2>4. ASSUME NEW r \in Runs
        PROVE  OnRun(r)'
    <3>1. OnRun(r)
      BY DEF Artifacts
    <3>2. r = job[p].run => r \in manifest /\ r \notin Direct /\ unit[r] = "none"
      BY <1>1, <1>2, <2>2, Constants DEF OnJob, OnRun, Begun, Process
    <3>3. r # job[p].run => record'[r] = record[r] /\ preparer'[r] = preparer[r]
      BY <1>11 DEF Prepared, TypeOK
    <3> QED
      BY <1>11, <2>1, <3>1, <3>2, <3>3 DEF Prepared, OnRun
  <2> QED
    BY <1>6, <2>3, <2>4
<1>12. CASE Prepare(p)
  <2>1. PICK s, t : /\ Prepared(p, s, t)
                    /\ <<s, t>> \in {<<"failed_preparation", "drop">>, <<"awaiting", "hold">>,
                                     <<"prepared", "relaunch">>}
    BY <1>12 DEF Prepare
  <2>2. t = to
    <3>1. job'[p].at = t
      BY <2>1 DEF Prepared, Goto, TypeOK
    <3> QED
      BY <1>4, <3>1
  <2> QED
    BY <1>11, <2>1, <2>2
<1> QED
  BY <1>7, <1>8, <1>9, <1>10, <1>12 DEF Starting

LEMMA LaunchingArtifacts ==
  ASSUME TypeOK, Artifacts, NEW p \in Process, Launching(p)
  PROVE  Artifacts'
<1> USE DEF artifacts, units, counts
<1>1. /\ job[p].run \in Runs /\ p \in up
      /\ job[p].at \in {"dispatch", "request", "phase", "unit", "started"}
  BY HasRun DEF Launching, MarkStarting, PriorWork, Overtaken, RequestLaunch, WritePhase, StartUnit,
    StartUnitFails, Started, Goto, At
<1>2. OnJob(p) /\ OnRun(job[p].run)
  BY <1>1 DEF Artifacts
<1>3. /\ job[p].run \in manifest /\ job[p].run \notin Direct
      /\ preparer[job[p].run] = NoProcess
      /\ record[job[p].run] \in {"prepared", "launch_requested"}
  BY <1>1, <1>2, Constants DEF OnJob, OnRun, Begun, Process
<1>4. \A r \in Runs : phase[r] # "manifest_only" => phase'[r] # "manifest_only"
  BY DEF Launching, MarkStarting, PriorWork, Overtaken, RequestLaunch, WritePhase, StartUnit,
    StartUnitFails, Started, TypeOK
<1>5. ASSUME NEW r \in Runs, r # job[p].run
      PROVE  OnRun(r)'
  <2>1. OnRun(r)
    BY DEF Artifacts
  <2>2. /\ record'[r] = record[r] /\ phase'[r] = phase[r] /\ unit'[r] = unit[r]
        /\ receipt'[r] = receipt[r] /\ preparer'[r] = preparer[r] /\ manifest' = manifest
    BY <1>5 DEF Launching, MarkStarting, PriorWork, Overtaken, RequestLaunch, WritePhase, StartUnit,
      StartUnitFails, UnitStarts, Started, TypeOK
  <2> QED
    BY <2>1, <2>2 DEF OnRun
<1>6. ASSUME NEW r \in Runs, r = job[p].run
      PROVE  OnRun(r)'
  <2>1. CASE MarkStarting(p)
    BY <1>6, <1>2, <2>1 DEF MarkStarting, OnRun
  <2>2. CASE PriorWork(p)
    BY <1>6, <1>1, <1>2, <1>3, <2>2 DEF PriorWork, OnRun, TypeOK
  <2>3. CASE RequestLaunch(p)
    BY <1>6, <1>1, <1>2, <1>3, <2>3 DEF RequestLaunch, OnRun, TypeOK
  <2>4. CASE WritePhase(p)
    BY <1>6, <1>1, <1>2, <1>3, <2>4 DEF WritePhase, OnRun, TypeOK
  <2>5. CASE StartUnit(p)
    BY <1>6, <1>1, <1>2, <1>3, <2>5 DEF StartUnit, UnitStarts, Goto, At, OnJob, OnRun, TypeOK
  <2>6. CASE StartUnitFails(p)
    BY <1>6, <1>1, <1>2, <1>3, <2>6 DEF StartUnitFails, UnitStarts, At, OnJob, OnRun, TypeOK
  <2>7. CASE Started(p)
    BY <1>6, <1>1, <1>2, <1>3, <2>7 DEF Started, OnRun, TypeOK
  <2>8. CASE Overtaken(p)
    BY <1>6, <1>2, <2>8 DEF Overtaken, OnRun
  <2> QED
    BY <2>1, <2>2, <2>3, <2>4, <2>5, <2>6, <2>7, <2>8 DEF Launching
<1>7. /\ manifest' = manifest /\ outcome' = outcome /\ up \ {p} \subseteq up'
      /\ \A r \in Runs : record'[r] = record[r] \/ r = job[p].run
  BY <1>1 DEF Launching, MarkStarting, PriorWork, Overtaken, RequestLaunch, WritePhase, StartUnit,
    StartUnitFails, Started, Leave, TypeOK
<1>8. CASE StartUnitFails(p) \/ Started(p) \/ Overtaken(p)
  BY <1>1, <1>4, <1>5, <1>6, <1>7, <1>8, CarryLeave DEF StartUnitFails, Started, Overtaken, Leave
<1>9. CASE ~StartUnitFails(p) /\ ~Started(p) /\ ~Overtaken(p)
  <2>1. PICK to : /\ job' = [job EXCEPT ![p] = [run |-> job[p].run, nonce |-> job[p].nonce, at |-> to]]
                  /\ up' = up /\ to \in {"request", "drop", "phase", "unit", "started"}
    BY <1>9 DEF Launching, MarkStarting, PriorWork, Overtaken, RequestLaunch, WritePhase,
      StartUnit, Goto
  <2>2. job'[p] = [run |-> job[p].run, nonce |-> job[p].nonce, at |-> to]
    BY <2>1 DEF TypeOK
  <2>3. OnJob(p)'
    <3>1. CASE MarkStarting(p)
      BY <1>1, <1>2, <1>3, <2>1, <2>2, <3>1, Constants DEF MarkStarting, Goto, At, OnJob, Begun,
        TypeOK
    <3>2. CASE PriorWork(p)
      BY <1>1, <1>2, <1>3, <2>1, <2>2, <3>2, Constants DEF PriorWork, Goto, At, OnJob, Begun, TypeOK
    <3>3. CASE RequestLaunch(p)
      BY <1>1, <1>2, <1>3, <2>1, <2>2, <3>3, Constants DEF RequestLaunch, Goto, At, OnJob, Begun,
        TypeOK
    <3>4. CASE WritePhase(p)
      BY <1>1, <1>2, <1>3, <2>1, <2>2, <3>4, Constants DEF WritePhase, Goto, At, OnJob, Begun,
        TypeOK
    <3>5. CASE StartUnit(p)
      BY <1>1, <1>2, <1>3, <2>1, <2>2, <3>5, Constants DEF StartUnit, Goto, At, OnJob, Begun, TypeOK
    <3> QED
      BY <1>9, <3>1, <3>2, <3>3, <3>4, <3>5 DEF Launching
  <2> QED
    BY <1>1, <1>4, <1>5, <1>6, <1>7, <2>1, <2>3, CarryGoto
<1> QED
  BY <1>8, <1>9

\* A process takes up a run.
LEMMA CarryAssign ==
  ASSUME TypeOK, Artifacts, NEW p \in Process, NEW r \in Runs, NEW at,
         job' = [job EXCEPT ![p] = [run |-> r, nonce |-> 0, at |-> at]], UNCHANGED <<artifacts, units, up>>,
         at # "stopping" => \A q \in Process \ {p} : job[q].run = r => job[q].at = "stopping",
         OnJob(p)'
  PROVE  Artifacts'
<1>1. manifest' = manifest /\ record' = record /\ preparer' = preparer /\ phase' = phase
      /\ outcome' = outcome /\ unit' = unit /\ receipt' = receipt /\ up' = up
  BY DEF artifacts, units
<1>2. \A s \in Runs : OnRun(s)'
  BY <1>1, SameRuns
<1> QED
  BY <1>1, <1>2, Carry

LEMMA OthersArtifacts ==
  ASSUME TypeOK, Artifacts, NEW p \in Process,
         \/ Stopped(p) \/ LookAround(p) \/ Fail(p) \/ Crash(p)
         \/ \E r \in Runs : StartRun(p, r) \/ Retry(p, r) \/ Answer(p, r) \/ Stop(p, r)
  PROVE  Artifacts'
<1>1. CASE Stopped(p)
  <2>1. job[p].run \in Runs
    BY <1>1, HasRun DEF Stopped
  <2>2. OnJob(p) /\ job[p].at = "stopping"
    BY <1>1 DEF Stopped, At, Artifacts
  <2>3. ASSUME NEW r \in Runs
        PROVE  OnRun(r)'
    <3>1. OnRun(r)
      BY DEF Artifacts
    <3>2. r = job[p].run => (r \in Direct => Unscoped)
      BY <2>1, <2>2 DEF OnJob, Process
    <3> QED
      BY <1>1, <2>1, <3>1, <3>2 DEF Stopped, OnRun, units, TypeOK
  <2>4. \A r \in Runs : phase[r] # "manifest_only" => phase'[r] # "manifest_only"
    BY <1>1 DEF Stopped, TypeOK
  <2> QED
    BY <1>1, <2>3, <2>4, CarryLeave DEF Stopped, Leave, units
<1>2. CASE LookAround(p)
  <2>1. job' = [job EXCEPT ![p] = [run |-> NoRun, nonce |-> 0, at |-> "look"]]
    BY <1>2 DEF LookAround
  <2>2. job'[p] = [run |-> NoRun, nonce |-> 0, at |-> "look"]
    BY <2>1 DEF TypeOK
  <2>3. OnJob(p)'
    BY <1>2, <2>2, Constants, RunAssumption DEF LookAround, OnJob, Begun
  <2>4. /\ manifest' = manifest /\ record' = record /\ preparer' = preparer /\ phase' = phase
        /\ outcome' = outcome /\ unit' = unit /\ receipt' = receipt /\ up' = up
    BY <1>2 DEF LookAround, artifacts, units
  <2>5. \A s \in Runs : OnRun(s)'
    BY <2>4, SameRuns
  <2> QED
    BY <2>1, <2>3, <2>4, <2>5, Carry
<1>3. CASE Fail(p) \/ Crash(p)
  <2>1. /\ manifest' = manifest /\ record' = record /\ preparer' = preparer /\ phase' = phase
        /\ outcome' = outcome /\ unit' = unit /\ receipt' = receipt
        /\ up \ {p} \subseteq up' /\ job' = [job EXCEPT ![p] = Idle]
    BY <1>3 DEF Fail, Crash, Leave, artifacts, units
  <2>2. \A s \in Runs : OnRun(s)'
    BY <2>1, SameRuns
  <2> QED
    BY <2>1, <2>2, CarryLeave
<1>4. ASSUME NEW r \in Runs, StartRun(p, r) \/ Retry(p, r) \/ Answer(p, r) \/ Stop(p, r)
      PROVE  Artifacts'
  <2>1. PICK at : /\ job' = [job EXCEPT ![p] = [run |-> r, nonce |-> 0, at |-> at]]
                  /\ \/ StartRun(p, r) /\ at = "admit"
                     \/ /\ Retry(p, r) /\ at \in {"record", "readmit", "relaunch"}
                        /\ at = "record" => record[r] = "none"
                        /\ at = "readmit" => record[r] = "preparing"
                        /\ at = "relaunch" => record[r] \in {"prepared", "launch_requested"}
                     \/ Answer(p, r) /\ at = "answer"
                     \/ Stop(p, r) /\ at = "stopping"
    BY <1>4 DEF StartRun, Retry, Answer, Stop
  <2>2. job'[p] = [run |-> r, nonce |-> 0, at |-> at]
    BY <2>1 DEF TypeOK
  <2>3. /\ p \in Daemons \cap up /\ UNCHANGED <<artifacts, units, up>>
        /\ at # "stopping" => Free(r)
    BY <2>1 DEF StartRun, Retry, Answer, Stop
  <2>4. at # "stopping" => \A q \in Process \ {p} : job[q].run = r => job[q].at = "stopping"
    BY <2>3, Constants DEF Free, Artifacts, OnJob
  <2>5. OnRun(r)
    BY DEF Artifacts
  <2>6. OnJob(p)'
    <3>1. r # NoRun /\ p \notin Direct /\ p \in up'
      BY <2>3, Constants
    <3>2. CASE StartRun(p, r) /\ at = "admit"
      BY <2>2, <2>3, <2>5, <3>1, <3>2 DEF StartRun, OnJob, OnRun, Begun, artifacts
    <3>3. CASE /\ Retry(p, r) /\ at \in {"record", "readmit", "relaunch"}
               /\ at = "record" => record[r] = "none"
               /\ at = "readmit" => record[r] = "preparing"
               /\ at = "relaunch" => record[r] \in {"prepared", "launch_requested"}
      BY <2>2, <2>3, <2>5, <3>1, <3>3 DEF Retry, OnJob, OnRun, Begun, artifacts
    <3>4. CASE Answer(p, r) /\ at = "answer"
      BY <2>2, <2>3, <2>5, <3>1, <3>4 DEF Answer, OnJob, OnRun, Begun, artifacts
    <3>5. CASE Stop(p, r) /\ at = "stopping"
      BY <2>2, <2>3, <2>5, <3>1, <3>5 DEF Stop, OnJob, OnRun, Begun, artifacts
    <3> QED
      BY <2>1, <3>2, <3>3, <3>4, <3>5
  <2> QED
    BY <2>1, <2>3, <2>4, <2>6, CarryAssign
<1> QED
  BY <1>1, <1>2, <1>3, <1>4

LEMMA RunArtifacts ==
  ASSUME TypeOK, Artifacts, NEW r \in Runs,
         StartDirect(r) \/ Boot(r) \/ Terminate(r) \/ UnitExit(r) \/ TerminateDirect(r)
  PROVE  Artifacts'
<1>1. OnRun(r)
  BY DEF Artifacts
<1>2. CASE StartDirect(r)
  <2>1. r \in Direct /\ r \in Process /\ r \in up
    BY <1>2, Constants DEF StartDirect
  <2>2. job' = [job EXCEPT ![r] = [run |-> r, nonce |-> 0, at |-> "admit"]]
        /\ UNCHANGED <<artifacts, units, up>>
    BY <1>2 DEF StartDirect
  <2>3. job'[r] = [run |-> r, nonce |-> 0, at |-> "admit"]
    BY <2>1, <2>2 DEF TypeOK
  <2>4. OnJob(r)'
    BY <1>1, <2>1, <2>2, <2>3, Constants DEF OnJob, OnRun, Begun, artifacts
  <2>5. \A q \in Process \ {r} : job[q].run = r => job[q].at = "stopping"
    BY <2>1, Constants DEF Artifacts, OnJob, Process
  <2> QED
    BY <2>1, <2>2, <2>4, <2>5, CarryAssign
<1>3. CASE Boot(r) \/ Terminate(r) \/ UnitExit(r)
  <2>1. r \notin Direct
    BY <1>1, <1>3 DEF Boot, Terminate, UnitExit, UnitActive, OnRun
  <2>2. /\ manifest' = manifest /\ record' = record /\ preparer' = preparer /\ phase' = phase
        /\ job' = job /\ up' = up /\ \A s \in Runs \ {r} : outcome'[s] = outcome[s]
    BY <1>3 DEF Boot, Terminate, UnitExit, artifacts, TypeOK
  <2>3. ASSUME NEW s \in Runs
        PROVE  OnRun(s)'
    <3>1. OnRun(s)
      BY DEF Artifacts
    <3>2. CASE Boot(r)
      BY <3>1, <3>2 DEF Boot, OnRun, TypeOK
    <3>3. CASE Terminate(r)
      BY <3>1, <3>3 DEF Terminate, OnRun, TypeOK
    <3>4. CASE UnitExit(r)
      BY <3>1, <3>4 DEF UnitExit, UnitActive, OnRun, artifacts, TypeOK
    <3> QED
      BY <1>3, <3>2, <3>3, <3>4
  <2>4. ASSUME NEW q \in Process
        PROVE  OnJob(q)'
    <3>1. OnJob(q)
      BY DEF Artifacts
    <3>2. job[q].at = "execute" => job[q].run \in Runs \ {r}
      BY <2>1, <3>1, Constants DEF OnJob, Process
    <3> QED
      BY <2>2, <3>1, <3>2, StayOnJob
  <2>5. Exclusive'
    BY <2>2 DEF Artifacts, Exclusive
  <2> QED
    BY <2>3, <2>4, <2>5 DEF Artifacts
<1>4. CASE TerminateDirect(r)
  <2>1. r \in Process /\ r \in up /\ job[r].at = "execute"
    BY <1>4 DEF TerminateDirect, At, TypeOK
  <2>2. job[r].run = r
    BY <2>1, JobParts DEF Artifacts, OnJob, Process
  <2>3. \A s \in Runs : OnRun(s)'
    BY <1>4, SameRuns DEF TerminateDirect, units
  <2> QED
    BY <1>4, <2>1, <2>2, <2>3, CarryLeave DEF TerminateDirect, Leave, TypeOK
<1> QED
  BY <1>2, <1>3, <1>4

LEMMA InitArtifacts == Init => Artifacts
BY Constants DEF Init, Idle, Artifacts, OnJob, Begun, Exclusive, OnRun

LEMMA NextArtifacts ==
  ASSUME TypeOK, Artifacts, [Next]_vars
  PROVE  Artifacts'
<1>1. CASE UNCHANGED vars
  <2>1. /\ manifest' = manifest /\ record' = record /\ preparer' = preparer /\ phase' = phase
        /\ outcome' = outcome /\ unit' = unit /\ receipt' = receipt /\ up' = up /\ job' = job
    BY <1>1 DEF vars, artifacts, units
  <2>2. \A s \in Runs : OnRun(s)'
    BY <2>1, SameRuns
  <2>3. \A q \in Process : OnJob(q)'
    BY <2>1, StayOnJob DEF Artifacts
  <2>4. Exclusive'
    BY <2>1 DEF Artifacts, Exclusive
  <2> QED
    BY <2>2, <2>3, <2>4 DEF Artifacts
<1> QED
  BY <1>1, AdmissionArtifacts, StartingArtifacts, LaunchingArtifacts, OthersArtifacts, RunArtifacts
    DEF Next

-----------------------------------------------------------------------------
(* Who becomes busy, and who comes to wait *)

\* Evidence of a run that is busy is never that it is inactive.
LEMMA BusyEvidence ==
  ASSUME TypeOK, Artifacts, NEW r \in Runs, Busy(r)
  PROVE  EvidenceOf(r).state \notin {"absent", "inactive"}
<1>1. OnRun(r)
  BY DEF Artifacts
<1>2. CASE unit[r] = "executing"
  <2>1. r \in manifest /\ UnitActive(r)
    BY <1>1, <1>2 DEF OnRun, UnitActive
  <2> QED
    BY <2>1 DEF EvidenceOf
<1>3. CASE Underway(r)
  <2>1. r \in manifest /\ record[r] = "preparing" /\ ~Waiting(r) /\ ~Over(r)
    BY <1>1, <1>3 DEF OnRun, Underway, Waiting
  <2> QED
    BY <2>1 DEF EvidenceOf
<1>4. CASE Outright(r)
  <2>1. r \in Process /\ r \in Direct /\ job[r].at = "execute" /\ OnJob(r)
    BY <1>4, Constants DEF Outright, At, Artifacts
  <2>2. job[r].run = r
    BY <2>1, JobParts DEF OnJob
  <2>3. r \in manifest /\ outcome[r] = "running" /\ record[r] = "none" /\ phase[r] = "manifest_only"
        /\ ~receipt[r]
    BY <1>1, <1>4, <2>1, <2>2 DEF OnJob, OnRun, Begun, Outright
  <2>4. ~Waiting(r) /\ ~Over(r)
    BY <2>3 DEF Waiting, Over
  <2> QED
    BY <2>3, <2>4 DEF EvidenceOf
<1> QED
  BY <1>2, <1>3, <1>4 DEF Busy

\* Evidence of a run that waits is that it does, or that it is active.
LEMMA WaitingEvidence ==
  ASSUME TypeOK, Artifacts, NEW r \in Runs, Waiting(r)
  PROVE  Unresolved(EvidenceOf(r))
<1>1. OnRun(r)
  BY DEF Artifacts
<1>2. r \in manifest
  BY <1>1 DEF OnRun, Waiting
<1>3. CASE UnitActive(r) \/ Preparing(r)
  <2>1. EvidenceOf(r).state = "active"
    BY <1>2, <1>3 DEF EvidenceOf
  <2> QED
    BY <2>1 DEF Unresolved
<1>4. CASE ~(UnitActive(r) \/ Preparing(r))
  <2>1. EvidenceOf(r).held
    BY <1>2, <1>4 DEF EvidenceOf
  <2> QED
    BY <2>1 DEF Unresolved
<1> QED
  BY <1>3, <1>4


\* No run becomes busy by a step that neither takes up its preparation, nor
\* resets what ended it, nor starts to execute it.
LEMMA NotBusier ==
  ASSUME TypeOK, Artifacts, NEW r \in Runs, Busy(r)', up' \subseteq up,
         record'[r] = "preparing" =>
           /\ record[r] = "preparing"
           /\ outcome'[r] = outcome[r] /\ phase'[r] = phase[r]
           /\ receipt[r] => receipt'[r],
         \/ preparer'[r] \in {preparer[r], NoProcess}
         \/ \E p \in up : job[p].run = r /\ job[p].at = "own",
         unit'[r] = "executing" => unit[r] = "executing",
         \A p \in Process : p \in up' /\ job'[p].run = r /\ job'[p].at \in {"own", "prepare"} =>
           job[p].run = r /\ job[p].at \in {"own", "prepare"},
         r \in Direct => (job'[r].at = "execute" => job[r].at = "execute")
  PROVE  Busy(r)
<1>1. CASE Underway(r)'
  <2>1. record'[r] = "preparing" /\ ~Over(r)'
    BY <1>1 DEF Underway
  <2>2. record[r] = "preparing" /\ ~Over(r)
    BY <2>1 DEF Over
  <2>3. CASE \E p \in up : job[p].run = r /\ job[p].at \in {"own", "prepare"}
    BY <2>2, <2>3 DEF Underway, Busy
  <2>4. CASE ~\E p \in up : job[p].run = r /\ job[p].at \in {"own", "prepare"}
    <3>1. ~\E p \in up' : job'[p].run = r /\ job'[p].at \in {"own", "prepare"}
      BY <2>4 DEF TypeOK
    <3>2. preparer'[r] \in up'
      BY <1>1, <3>1 DEF Underway, Preparing
    <3>3. preparer[r] \in up
      BY <2>4, <3>2, RunAssumption DEF TypeOK, Process
    <3> QED
      BY <2>2, <3>3 DEF Underway, Preparing, Busy
  <2> QED
    BY <2>3, <2>4
<1>2. CASE unit'[r] = "executing"
  BY <1>2 DEF Busy
<1>3. CASE Outright(r)'
  BY <1>3 DEF Outright, At, Busy
<1> QED
  BY <1>1, <1>2, <1>3 DEF Busy

\* The same, for a step that leaves the artifacts and the units alone and sets
\* one process to work on something else.
LEMMA NotBusierBy ==
  ASSUME TypeOK, Artifacts, NEW r \in Runs, Busy(r)', UNCHANGED <<artifacts, units>>, up' \subseteq up,
         NEW p \in Process, NEW J, job' = [job EXCEPT ![p] = J],
         J.at # "execute", J.at \in {"own", "prepare"} => J.run # r
  PROVE  Busy(r)
<1>1. \A q \in Process : job'[q] = IF q = p THEN J ELSE job[q]
  BY DEF TypeOK
<1>2. r \in Direct => r \in Process
  BY Constants
<1>3. /\ record' = record /\ outcome' = outcome /\ phase' = phase /\ receipt' = receipt
      /\ preparer' = preparer /\ unit' = unit
  BY DEF artifacts, units
<1>4. r \in Direct => (job'[r].at = "execute" => job[r].at = "execute")
  BY <1>1, <1>2
<1> QED
  BY <1>1, <1>3, <1>4, NotBusier

\* An operation under the lock makes its own run busy at most, which it admits.
LEMMA AdmissionBusy ==
  ASSUME TypeOK, Artifacts, NEW p \in Process, Admission(p), NEW r \in Runs, Busy(r)', ~Busy(r)
  PROVE  (Replay(p) \/ Grant(p)) /\ job[p].run = r
<1>1. UNCHANGED <<artifacts, units>> /\ up' \subseteq up
  BY DEF Admission, Enter, Replay, Grant, Refuse, Look, Release, Leave, artifacts, units
<1>2. CASE Enter(p)
  <2>1. job' = [job EXCEPT ![p] = job[p]]
    BY <1>2 DEF Enter, TypeOK
  <2>2. job[p].at # "execute" /\ job[p].at \notin {"own", "prepare"}
    BY <1>2 DEF Enter, At, Admits, Gives
  <2> QED
    BY <1>1, <2>1, <2>2, NotBusierBy
<1>3. CASE Refuse(p) \/ Look(p) \/ Release(p)
  <2>1. job' = [job EXCEPT ![p] = Idle] /\ Idle.at = "idle"
    BY <1>3 DEF Refuse, Look, Release, Leave, Idle
  <2> QED
    BY <1>1, <2>1, NotBusierBy
<1>4. CASE (Replay(p) \/ Grant(p)) /\ job[p].run # r
  <2>1. PICK n, to : /\ job' = [job EXCEPT ![p] = [run |-> job[p].run, nonce |-> n, at |-> to]]
                     /\ to = CASE job[p].at = "admit" -> "publish"
                               [] job[p].at = "readmit" -> "own"
                               [] job[p].at = "answer" -> "ask"
                               [] job[p].at = "relaunch" -> "dispatch"
    BY <1>4 DEF Replay, Grant, Proceed
  <2>2. to # "execute"
    BY <1>4, <2>1 DEF Replay, Grant, At, Admits
  <2> DEFINE J == [run |-> job[p].run, nonce |-> n, at |-> to]
  <2>3. job' = [job EXCEPT ![p] = J] /\ J.at # "execute" /\ J.run # r
    BY <1>4, <2>1, <2>2
  <2> HIDE DEF J
  <2> QED
    BY <1>1, <2>3, NotBusierBy
<1> QED
  BY <1>2, <1>3, <1>4 DEF Admission


\* A start makes no run busy but a direct one that is bound.
LEMMA StartingBusy ==
  ASSUME TypeOK, Artifacts, NEW p \in Process, Starting(p), NEW r \in Runs, Busy(r)', ~Busy(r)
  PROVE  Bind(p) /\ r = job[p].run /\ p \in Direct
<1> USE DEF units, counts
<1>1. /\ job[p].run \in Runs /\ p \in up
      /\ job[p].at \in {"publish", "bind", "record", "own", "prepare", "ask"}
  BY HasRun DEF Starting, Publish, PublishFails, Bind, CreateRecord, Own, Prepare, Prepared, Goto,
    At
<1>2. OnJob(p) /\ OnRun(r)
  BY <1>1 DEF Artifacts
<1>3. PICK to : job' = [job EXCEPT ![p] = [run |-> job[p].run, nonce |-> job[p].nonce, at |-> to]]
  BY DEF Starting, Publish, PublishFails, Bind, CreateRecord, Own, Prepare, Prepared, Goto
<1>4. \A q \in Process : job'[q] = IF q = p THEN [run |-> job[p].run, nonce |-> job[p].nonce, at |-> to]
                                  ELSE job[q]
  BY <1>3 DEF TypeOK
<1>5. up' = up /\ unit' = unit /\ receipt' = receipt
  BY DEF Starting, Publish, PublishFails, Bind, CreateRecord, Own, Prepare, Prepared
<1>6. r \in Direct => r \in Process
  BY Constants
<1>7. CASE Publish(p) \/ PublishFails(p)
  <2>1. to \in {"bind", "giveback"}
    BY <1>4, <1>7 DEF Publish, PublishFails, Goto, TypeOK
  <2>2. Busy(r)
    BY <1>4, <1>5, <1>6, <1>7, <2>1, NotBusier DEF Publish, PublishFails
  <2> QED
    BY <2>2
<1>8. CASE Bind(p) /\ ~(r = job[p].run /\ p \in Direct)
  <2>1. to \in {"record", "execute"} /\ (to = "execute" => p \in Direct)
    BY <1>4, <1>8 DEF Bind, Goto, TypeOK
  <2>2. /\ record' = record /\ phase' = phase /\ preparer' = preparer
        /\ outcome'[r] = outcome[r]
    BY <1>8 DEF Bind, TypeOK
  <2>3. p \in Direct => job[p].run = p
    BY <1>1, <1>2, Constants DEF OnJob
  <2>4. r \in Direct => (job'[r].at = "execute" => job[r].at = "execute")
    BY <1>4, <1>6, <1>8, <2>1, <2>3
  <2>5. Busy(r)
    BY <1>4, <1>5, <2>1, <2>2, <2>4, NotBusier
  <2> QED
    BY <2>5
<1>9. CASE CreateRecord(p)
  <2>1. to = "readmit" /\ job[p].at = "record" /\ p \notin Direct
    BY <1>2, <1>4, <1>9 DEF CreateRecord, Goto, At, OnJob, TypeOK
  <2>2. CASE r # job[p].run
    <3>1. record'[r] = record[r] /\ phase' = phase /\ preparer' = preparer /\ outcome' = outcome
      BY <1>9, <2>2 DEF CreateRecord, TypeOK
    <3>2. Busy(r)
      BY <1>4, <1>5, <1>6, <2>1, <3>1, NotBusier
    <3> QED
      BY <3>2
  <2>3. CASE r = job[p].run
    <3>1. record[r] = "none" /\ preparer' = preparer /\ preparer[r] = NoProcess /\ unit[r] = "none"
      BY <1>1, <1>2, <1>9, <2>1, <2>3 DEF CreateRecord, OnJob, OnRun
    <3>2. ~Preparing(r)'
      BY <1>5, <3>1, RunAssumption DEF Preparing, TypeOK, Process
    <3>3. ASSUME NEW q \in up, job'[q].run = r, job'[q].at \in {"own", "prepare"}
          PROVE  FALSE
      <4>1. q \in Process /\ q # p /\ job[q].run = r /\ job[q].at \in {"own", "prepare"}
        BY <1>4, <2>1, <3>3 DEF TypeOK
      <4> QED
        BY <3>1, <4>1 DEF Artifacts, OnJob
    <3>4. ~Underway(r)'
      BY <1>5, <3>2, <3>3 DEF Underway
    <3>5. r \notin Direct
      BY <2>1, <2>3, <1>1, <1>2, Constants DEF OnJob, Process
    <3> QED
      BY <1>5, <3>1, <3>4, <3>5 DEF Busy, Outright
  <2> QED
    BY <2>2, <2>3
<1>10. CASE Own(p)
  <2>1. to = "prepare" /\ job[p].at = "own"
    BY <1>4, <1>10 DEF Own, Goto, At, TypeOK
  <2>2. /\ record' = record /\ phase' = phase /\ outcome' = outcome
        /\ (r # job[p].run => preparer'[r] = preparer[r])
    BY <1>10 DEF Own, TypeOK
  <2>3. Busy(r)
    BY <1>1, <1>4, <1>5, <1>6, <2>1, <2>2, NotBusier
  <2> QED
    BY <2>3
<1>11. CASE Prepare(p)
  <2>1. /\ to \in {"drop", "hold", "relaunch"} /\ phase' = phase /\ outcome' = outcome
        /\ record'[r] = record[r] \/ record'[r] # "preparing"
        /\ preparer'[r] \in {preparer[r], NoProcess}
    BY <1>4, <1>11 DEF Prepare, Prepared, Goto, TypeOK
  <2>2. Busy(r)
    BY <1>4, <1>5, <1>6, <2>1, NotBusier
  <2> QED
    BY <2>2
<1> QED
  BY <1>7, <1>8, <1>9, <1>10, <1>11 DEF Starting

LEMMA LaunchingBusy ==
  ASSUME TypeOK, Artifacts, NEW p \in Process, Launching(p), NEW r \in Runs, Busy(r)'
  PROVE  Busy(r)
<1> USE DEF units, counts
<1>1. /\ job[p].run \in Runs /\ p \in up
      /\ job[p].at \in {"dispatch", "request", "phase", "unit", "started"}
  BY HasRun DEF Launching, MarkStarting, PriorWork, Overtaken, RequestLaunch, WritePhase, StartUnit,
    StartUnitFails, Started, Goto, At
<1>2. OnJob(p)
  BY <1>1 DEF Artifacts
<1>3. record[job[p].run] # "preparing"
  BY <1>1, <1>2 DEF OnJob
<1>4. PICK J : /\ job' = [job EXCEPT ![p] = J]
               /\ J.at \in {"idle", "request", "drop", "phase", "unit", "started"}
  <2>1. CASE StartUnitFails(p) \/ Started(p) \/ Overtaken(p)
    <3>1. job' = [job EXCEPT ![p] = Idle] /\ Idle.at = "idle"
      BY <2>1 DEF StartUnitFails, Started, Overtaken, Leave, Idle
    <3> QED
      BY <3>1
  <2>2. CASE ~StartUnitFails(p) /\ ~Started(p) /\ ~Overtaken(p)
    <3>1. PICK to \in {"request", "drop", "phase", "unit", "started"} :
            job' = [job EXCEPT ![p] = [run |-> job[p].run, nonce |-> job[p].nonce, at |-> to]]
      BY <2>2 DEF Launching, MarkStarting, PriorWork, Overtaken, RequestLaunch, WritePhase,
        StartUnit, Goto
    <3> DEFINE J == [run |-> job[p].run, nonce |-> job[p].nonce, at |-> to]
    <3>2. job' = [job EXCEPT ![p] = J] /\ J.at = to
      BY <3>1
    <3> HIDE DEF J
    <3> QED
      BY <3>1, <3>2
  <2> QED
    BY <2>1, <2>2
<1>5. \A q \in Process : job'[q] = IF q = p THEN J ELSE job[q]
  BY <1>4 DEF TypeOK
<1>6. /\ up' \subseteq up
      /\ r # job[p].run => record'[r] = record[r] /\ phase'[r] = phase[r]
      /\ r = job[p].run => record'[r] # "preparing"
      /\ unit'[r] = "executing" => unit[r] = "executing"
  BY <1>1, <1>3 DEF Launching, MarkStarting, PriorWork, Overtaken, RequestLaunch, WritePhase,
    StartUnit, StartUnitFails, UnitStarts, Started, Leave, artifacts, TypeOK
<1>7. preparer' = preparer /\ outcome' = outcome /\ receipt' = receipt
  BY DEF Launching, MarkStarting, PriorWork, Overtaken, RequestLaunch, WritePhase, StartUnit,
    StartUnitFails, UnitStarts, Started, artifacts
<1>8. r \in Direct => r \in Process
  BY Constants
<1> QED
  BY <1>4, <1>5, <1>6, <1>7, <1>8, NotBusier

LEMMA OthersBusy ==
  ASSUME TypeOK, Artifacts, NEW p \in Process,
         \/ Stopped(p) \/ LookAround(p) \/ Fail(p) \/ Crash(p)
         \/ \E r \in Runs : StartRun(p, r) \/ Retry(p, r) \/ Answer(p, r) \/ Stop(p, r),
         NEW s \in Runs, Busy(s)'
  PROVE  Busy(s)
<1>1. PICK J : /\ job' = [job EXCEPT ![p] = J] /\ up' \subseteq up
               /\ J.at \notin {"own", "prepare", "execute"}
  BY DEF Stopped, LookAround, Fail, Crash, StartRun, Retry, Answer, Stop, Leave, Idle
<1>2. CASE Stopped(p)
  <2>1. job[p].run \in Runs
    BY <1>2, HasRun DEF Stopped
  <2>2. \A q \in Process : job'[q] = IF q = p THEN J ELSE job[q]
    BY <1>1 DEF TypeOK
  <2>3. /\ record' = record /\ preparer' = preparer /\ outcome' = outcome /\ unit' = unit
        /\ receipt' = receipt /\ (s \in Direct => s \in Process)
    BY <1>2, Constants DEF Stopped, units
  <2>4. s = job[p].run => ~(record'[s] = "preparing" /\ ~Over(s)')
    BY <1>2, <2>1 DEF Stopped, Over, TypeOK
  <2>5. s # job[p].run => phase'[s] = phase[s]
    BY <1>2 DEF Stopped, TypeOK
  <2>6. CASE s = job[p].run
    <3>1. ~Underway(s)'
      BY <2>4, <2>6 DEF Underway
    <3>2. Outright(s)' => Outright(s)
      BY <1>1, <2>2, <2>3 DEF Outright, At
    <3> QED
      BY <2>3, <3>1, <3>2 DEF Busy
  <2>7. CASE s # job[p].run
    BY <1>1, <2>2, <2>3, <2>5, <2>7, NotBusier
  <2> QED
    BY <2>6, <2>7
<1>3. CASE ~Stopped(p)
  <2>1. UNCHANGED <<artifacts, units>>
    BY <1>3 DEF LookAround, Fail, Crash, StartRun, Retry, Answer, Stop
  <2> QED
    BY <1>1, <2>1, NotBusierBy
<1> QED
  BY <1>2, <1>3

LEMMA RunBusy ==
  ASSUME TypeOK, Artifacts, NEW r \in Runs,
         StartDirect(r) \/ Boot(r) \/ Terminate(r) \/ UnitExit(r) \/ TerminateDirect(r),
         NEW s \in Runs, Busy(s)', ~Busy(s)
  PROVE  Boot(r) /\ s = r
<1>1. OnRun(r)
  BY DEF Artifacts
<1>2. s \in Direct => s \in Process
  BY Constants
<1>3. CASE StartDirect(r)
  <2>1. r \in Process
    BY <1>3, Constants DEF StartDirect
  <2>2. /\ job' = [job EXCEPT ![r] = [run |-> r, nonce |-> 0, at |-> "admit"]]
        /\ UNCHANGED <<artifacts, units>> /\ up' \subseteq up
    BY <1>3 DEF StartDirect
  <2> DEFINE J == [run |-> r, nonce |-> 0, at |-> "admit"]
  <2>3. job' = [job EXCEPT ![r] = J] /\ J.at = "admit"
    BY <2>2
  <2> HIDE DEF J
  <2> QED
    BY <2>1, <2>2, <2>3, NotBusierBy
<1>4. CASE (Boot(r) /\ s # r) \/ Terminate(r) \/ UnitExit(r)
  <2>1. /\ job' = job /\ up' = up /\ record' = record /\ phase' = phase /\ preparer' = preparer
        /\ (unit'[s] = "executing" => unit[s] = "executing")
        /\ (receipt[s] => receipt'[s])
        /\ (record[s] = "preparing" => outcome'[s] = outcome[s])
    BY <1>1, <1>4 DEF Boot, Terminate, UnitExit, UnitActive, OnRun, artifacts, TypeOK
  <2> QED
    BY <2>1, NotBusier
<1>5. CASE TerminateDirect(r)
  <2>1. r \in Process /\ job[r].at = "execute"
    BY <1>5 DEF TerminateDirect, At, TypeOK
  <2>2. r \in Direct
    BY <2>1, Constants DEF Artifacts, OnJob, Process
  <2>3. record[r] = "none"
    BY <1>1, <2>2 DEF OnRun
  <2>4. \A q \in Process : job'[q] = IF q = r THEN Idle ELSE job[q]
    BY <1>5 DEF TerminateDirect, Leave, TypeOK
  <2>5. /\ up' \subseteq up /\ record' = record /\ phase' = phase /\ preparer' = preparer
        /\ unit' = unit /\ receipt' = receipt
        /\ (record[s] = "preparing" => outcome'[s] = outcome[s])
    BY <1>5, <2>3 DEF TerminateDirect, Leave, units, TypeOK
  <2> QED
    BY <1>2, <2>4, <2>5, NotBusier DEF Idle
<1>6. CASE Boot(r) /\ s = r
  BY <1>6
<1> QED
  BY <1>3, <1>4, <1>5, <1>6

\* A run comes to wait when its preparation asks.
LEMMA NewlyWaiting ==
  ASSUME TypeOK, Artifacts, Next, NEW r \in Runs, Waiting(r)'
  PROVE  Waiting(r) \/ Busy(r)
<1> USE DEF units, counts
<1>1. OnRun(r)
  BY DEF Artifacts
<1>2. record'[r] = "awaiting" /\ phase'[r] # "owner_stopped" /\ outcome'[r] = "none"
  BY DEF Waiting
<1>3. ASSUME record'[r] = record[r], phase'[r] = phase[r] \/ phase'[r] = "owner_stopped",
             outcome'[r] = outcome[r] \/ outcome'[r] # "none"
      PROVE  Waiting(r)
  BY <1>2, <1>3 DEF Waiting
<1>4. ASSUME NEW p \in Process, Admission(p)
      PROVE  Waiting(r)
  BY <1>3, <1>4 DEF Admission, Enter, Replay, Grant, Refuse, Look, Release, artifacts
<1>5. ASSUME NEW p \in Process, Starting(p)
      PROVE  Waiting(r) \/ Busy(r)
  <2>1. job[p].run \in Runs /\ p \in up
    BY <1>5, HasRun DEF Starting, Publish, PublishFails, Bind, CreateRecord, Own, Prepare, Prepared,
      Goto
  <2>2. OnJob(p)
    BY DEF Artifacts
  <2>3. CASE ~Prepare(p) \/ r # job[p].run
    <3>1. phase' = phase /\ (outcome'[r] = outcome[r] \/ outcome'[r] # "none")
          /\ (record'[r] = record[r] \/ record'[r] # "awaiting")
      BY <1>5, <2>1, <2>3 DEF Starting, Publish, PublishFails, Bind, CreateRecord, Own, Prepare,
        Prepared, TypeOK
    <3> QED
      BY <1>2, <1>3, <3>1
  <2>4. CASE Prepare(p) /\ r = job[p].run
    <3>1. phase' = phase /\ outcome' = outcome /\ job[p].at \in {"prepare", "ask"}
      BY <2>4 DEF Prepare, Prepared, Goto, At
    <3>2. CASE job[p].at = "ask"
      <4>1. record[r] = "awaiting"
        BY <2>2, <2>4, <3>2 DEF OnJob
      <4> QED
        BY <1>2, <3>1, <4>1 DEF Waiting
    <3>3. CASE job[p].at = "prepare"
      <4>1. record[r] = "preparing"
        BY <2>2, <2>4, <3>3 DEF OnJob
      <4>2. ~receipt[r]
        BY <1>1, <4>1 DEF OnRun
      <4>3. ~Over(r)
        BY <1>2, <3>1, <4>1, <4>2 DEF Over
      <4> QED
        BY <2>1, <2>4, <3>3, <4>1, <4>3 DEF Busy, Underway
    <3> QED
      BY <3>1, <3>2, <3>3
  <2> QED
    BY <2>3, <2>4
<1>6. ASSUME NEW p \in Process, Launching(p)
      PROVE  Waiting(r)
  <2>1. job[p].run \in Runs
    BY <1>6, HasRun DEF Launching, MarkStarting, PriorWork, Overtaken, RequestLaunch, WritePhase,
      StartUnit, StartUnitFails, Started, Goto
  <2>2. outcome' = outcome /\ (r = job[p].run => record'[r] # "awaiting" \/ record'[r] = record[r])
        /\ (r # job[p].run => record'[r] = record[r] /\ phase'[r] = phase[r])
    BY <1>6, <2>1 DEF Launching, MarkStarting, PriorWork, Overtaken, RequestLaunch, WritePhase,
      StartUnit, StartUnitFails, Started, artifacts, TypeOK
  <2>3. r = job[p].run => record[r] # "awaiting"
    BY <1>6 DEF Launching, MarkStarting, PriorWork, Overtaken, RequestLaunch, WritePhase, StartUnit,
      StartUnitFails, Started, Goto, At, Artifacts, OnJob
  <2> QED
    BY <1>2, <1>3, <2>2, <2>3
<1>7. ASSUME NEW p \in Process,
             \/ Stopped(p) \/ LookAround(p) \/ Fail(p) \/ Crash(p)
             \/ \E s \in Runs : StartRun(p, s) \/ Retry(p, s) \/ Answer(p, s) \/ Stop(p, s)
      PROVE  Waiting(r)
  <2>1. record' = record /\ outcome' = outcome
        /\ (phase'[r] = phase[r] \/ phase'[r] = "owner_stopped")
    BY <1>7 DEF Stopped, LookAround, Fail, Crash, StartRun, Retry, Answer, Stop, artifacts, TypeOK
  <2> QED
    BY <1>3, <2>1
<1>8. ASSUME NEW s \in Runs,
             StartDirect(s) \/ Boot(s) \/ Terminate(s) \/ UnitExit(s) \/ TerminateDirect(s)
      PROVE  Waiting(r)
  <2>1. record' = record /\ phase' = phase
        /\ (outcome'[r] = outcome[r] \/ outcome'[r] # "none")
    BY <1>8 DEF StartDirect, Boot, Terminate, UnitExit, TerminateDirect, artifacts, TypeOK
  <2> QED
    BY <1>3, <2>1
<1> QED
  BY <1>4, <1>5, <1>6, <1>7, <1>8 DEF Next

\* A run becomes busy when it is admitted, bound or booted, and only then.
LEMMA NewlyBusy ==
  ASSUME TypeOK, Artifacts, Next, NEW r \in Runs, Busy(r)', ~Busy(r)
  PROVE  \/ \E p \in Process : (Replay(p) \/ Grant(p)) /\ job[p].run = r
         \/ \E p \in Direct : Bind(p) /\ job[p].run = r
         \/ Boot(r)
<1>1. ASSUME NEW p \in Process, Admission(p)
      PROVE  (Replay(p) \/ Grant(p)) /\ job[p].run = r
  BY <1>1, AdmissionBusy
<1>2. ASSUME NEW p \in Process, Starting(p)
      PROVE  Bind(p) /\ job[p].run = r /\ p \in Direct
  BY <1>2, StartingBusy
<1>3. ASSUME NEW p \in Process,
             \/ Launching(p) \/ Stopped(p) \/ LookAround(p) \/ Fail(p) \/ Crash(p)
             \/ \E s \in Runs : StartRun(p, s) \/ Retry(p, s) \/ Answer(p, s) \/ Stop(p, s)
      PROVE  FALSE
  BY <1>3, LaunchingBusy, OthersBusy
<1>4. ASSUME NEW s \in Runs,
             StartDirect(s) \/ Boot(s) \/ Terminate(s) \/ UnitExit(s) \/ TerminateDirect(s)
      PROVE  Boot(r)
  BY <1>4, RunBusy
<1> QED
  BY <1>1, <1>2, <1>3, <1>4 DEF Next

-----------------------------------------------------------------------------
(* Views *)

\* The lock is taken with the evidence of that moment, kept, or let go.
LEMMA NextLock ==
  ASSUME TypeOK, Next
  PROVE  \/ lock' = Unlocked
         \/ lock' = lock /\ lock # Unlocked /\ \A p \in Process : ~Replay(p) /\ ~Grant(p)
         \/ /\ lock = Unlocked
            /\ \E p \in Process :
                 /\ Enter(p) \/ LookAround(p)
                 /\ lock' = [by |-> p, view |-> [r \in Runs |-> EvidenceOf(r)]]
<1> USE DEF artifacts, units, counts
<1>1. ASSUME NEW p \in Process, Replay(p) \/ Grant(p)
      PROVE  lock' = Unlocked
  BY <1>1 DEF Replay, Grant
<1>2. ASSUME NEW p \in Process, Enter(p) \/ LookAround(p)
      PROVE  lock = Unlocked /\ lock' = [by |-> p, view |-> [r \in Runs |-> EvidenceOf(r)]]
  BY <1>2 DEF Enter, LookAround
<1>3. ASSUME \A p \in Process : ~(Enter(p) \/ LookAround(p))
      PROVE  lock' = Unlocked \/ lock' = lock
  <2>1. ASSUME NEW p \in Process, Admission(p)
        PROVE  lock' = Unlocked
    BY <1>3, <2>1 DEF Admission, Replay, Grant, Refuse, Look, Release
  <2>2. ASSUME NEW p \in Process, Starting(p) \/ Launching(p)
        PROVE  lock' = lock
    BY <2>2 DEF Starting, Publish, PublishFails, Bind, CreateRecord, Own, Prepare, Prepared,
      Launching, MarkStarting, PriorWork, Overtaken, RequestLaunch, WritePhase, StartUnit,
      StartUnitFails, Started, Transition
  <2>3. ASSUME NEW p \in Process,
               \/ Stopped(p) \/ Fail(p) \/ Crash(p)
               \/ \E s \in Runs : StartRun(p, s) \/ Retry(p, s) \/ Answer(p, s) \/ Stop(p, s)
        PROVE  lock' = Unlocked \/ lock' = lock
    BY <2>3 DEF Stopped, Fail, Crash, StartRun, Retry, Answer, Stop
  <2>4. ASSUME NEW s \in Runs,
               StartDirect(s) \/ Boot(s) \/ Terminate(s) \/ UnitExit(s) \/ TerminateDirect(s)
        PROVE  lock' = lock
    BY <2>4 DEF StartDirect, Boot, Terminate, UnitExit, TerminateDirect, Transition
  <2> QED
    BY <1>3, <2>1, <2>2, <2>3, <2>4 DEF Next
<1> QED
  BY <1>1, <1>2, <1>3

LEMMA NextSeen ==
  ASSUME TypeOK, Artifacts, Seen, Next
  PROVE  Seen'
<1>1. CASE lock' = Unlocked
  BY <1>1 DEF Seen
<1>2. CASE lock' = lock /\ lock # Unlocked /\ \A p \in Process : ~Replay(p) /\ ~Grant(p)
  <2>1. ASSUME NEW r \in Runs
        PROVE  Busy(r)' => Busy(r)
    <3>1. ~Boot(r)
      BY <1>2 DEF Boot, Transition
    <3>2. \A p \in Direct : ~Bind(p)
      BY <1>2 DEF Bind, Transition
    <3> QED
      BY <1>2, <3>1, <3>2, NewlyBusy
  <2>2. ASSUME NEW r \in Runs
        PROVE  Waiting(r)' => Waiting(r) \/ Busy(r)
    BY NewlyWaiting
  <2>3. ASSUME NEW r \in Runs
        PROVE  /\ Busy(r) => lock.view[r].state \notin {"absent", "inactive"}
               /\ Waiting(r) => Unresolved(lock.view[r])
    BY <1>2 DEF Seen
  <2>4. ASSUME NEW r \in Runs
        PROVE  Busy(r) => Unresolved(lock.view[r])
    BY <2>3 DEF Unresolved
  <2>5. \A r \in Runs : /\ Busy(r)' => lock.view[r].state \notin {"absent", "inactive"}
                        /\ Waiting(r)' => Unresolved(lock.view[r])
    BY <2>1, <2>2, <2>3, <2>4
  <2> QED
    BY <1>2, <2>5 DEF Seen, Unresolved
<1>3. ASSUME NEW p \in Process, Enter(p) \/ LookAround(p),
             lock' = [by |-> p, view |-> [r \in Runs |-> EvidenceOf(r)]]
      PROVE  Seen'
  <2>1. ASSUME NEW r \in Runs
        PROVE  /\ Busy(r)' => lock'.view[r].state \notin {"absent", "inactive"}
               /\ Waiting(r)' => Unresolved(lock'.view[r])
    <3>1. lock'.view[r] = EvidenceOf(r)
      BY <1>3
    <3>2. Busy(r)' => Busy(r)
      <4>1. (~Replay(p) /\ ~Grant(p)) \/ LookAround(p)
        BY <1>3, NullAssumption, EvidenceType DEF Enter, Replay, Grant, Holds
      <4> QED
        BY <1>3, <4>1, AdmissionBusy, OthersBusy DEF Admission
    <3>3. Waiting(r)' => Waiting(r)
      BY <1>3 DEF Enter, LookAround, Waiting, artifacts
    <3>4. Busy(r) => EvidenceOf(r).state \notin {"absent", "inactive"}
      BY BusyEvidence
    <3>5. Waiting(r) => Unresolved(EvidenceOf(r))
      BY WaitingEvidence
    <3> QED
      BY <3>1, <3>2, <3>3, <3>4, <3>5
  <2> QED
    BY <2>1 DEF Seen, Unresolved
<1> QED
  BY <1>1, <1>2, <1>3, NextLock

-----------------------------------------------------------------------------
(* Claims *)

\* Reconciliation revives nothing, and keeps what the view does not clear.
LEMMA Reconciling ==
  ASSUME TypeOK, NEW p \in Process, Holds(p), NEW r \in Runs
  PROVE  /\ Live(Reconciled[r]) =>
              Live(reservations[r]) /\ Reconciled[r].nonce = reservations[r].nonce
         /\ Live(reservations[r]) /\ lock.view[r].state \notin {"absent", "inactive"} =>
              Live(Reconciled[r])
<1>1. Reconciled[r] = Reconcile(reservations[r], lock.view[r])
  BY DEF Reconciled
<1>2. lock.view[r] \in Evidence /\ lock.view[r].state # "released"
  BY HolderView DEF Evidence
<1>3. CASE ~Live(reservations[r])
  BY <1>1, <1>3 DEF Reconcile
<1>4. CASE Live(reservations[r])
  <2>1. Live(Reconciled[r]) => Reconciled[r].nonce = reservations[r].nonce
    BY <1>1, <1>4 DEF Reconcile, Restate
  <2>2. ASSUME lock.view[r].state \notin {"absent", "inactive"}
        PROVE  Live(Reconciled[r])
    <3>1. Reconciled[r] = Restate(reservations[r], lock.view[r].state, reservations[r].retained,
                                  reservations[r].bound)
      BY <1>1, <1>4, <2>2 DEF Reconcile
    <3>2. reservations[r].retained \in BOOLEAN /\ reservations[r].bound \in BOOLEAN
          /\ reservations[r] \in Reservation
      BY <1>4, RetiredType
    <3>3. lock.view[r].state \in LiveState \cup {"released"}
      BY <1>2, <2>2 DEF Evidence, LiveState
    <3>4. Reconciled[r] \in Reservation
      BY <3>1, <3>2, <3>3, RestateType
    <3> QED
      BY <1>2, <3>1, <3>4, NullAssumption DEF Live, Restate
  <2> QED
    BY <1>4, <2>1, <2>2
<1> QED
  BY <1>3, <1>4

\* So the busy keep their reservations, however old the view.
LEMMA BusyKept ==
  ASSUME TypeOK, Claimed, Seen, NEW p \in Process, Holds(p), NEW r \in Runs, Busy(r)
  PROVE  Live(Reconciled[r]) /\ Reconciled[r].nonce = reservations[r].nonce
<1>1. lock.view[r].state \notin {"absent", "inactive"}
  BY DEF Seen, Holds
<1>2. Live(reservations[r])
  BY DEF Claimed
<1> QED
  BY <1>1, <1>2, Reconciling

\* A run that is not made busy keeps its claim with its reservation.
LEMMA KeepClaim ==
  ASSUME TypeOK, Claimed, NEW r \in Runs, Busy(r)' => Busy(r),
         Busy(r) => Live(reservations'[r]) /\ reservations'[r].nonce = reservations[r].nonce,
         unit'[r] = "executing" => unit[r] = "executing" /\ workerNonce'[r] = workerNonce[r],
         r \in Direct => (Outright(r)' => job'[r] = job[r]), up' \subseteq up
  PROVE  /\ Busy(r)' => Live(reservations'[r])
         /\ unit'[r] = "executing" => reservations'[r].nonce = workerNonce'[r]
         /\ Outright(r)' => reservations'[r].nonce = job'[r].nonce
<1>1. unit'[r] = "executing" => reservations'[r].nonce = workerNonce'[r]
  BY DEF Claimed, Busy
<1>2. ASSUME Outright(r)'
      PROVE  reservations'[r].nonce = job'[r].nonce
  <2>1. r \in Direct /\ Outright(r)
    BY <1>2 DEF Outright, At
  <2> QED
    BY <1>2, <2>1 DEF Claimed, Busy
<1> QED
  BY <1>1, <1>2

LEMMA AdmissionClaimed ==
  ASSUME TypeOK, Artifacts, Claimed, Seen, NEW p \in Process, Admission(p)
  PROVE  Claimed'
<1> USE DEF units, counts
<1>1. ASSUME NEW r \in Runs
      PROVE  /\ Busy(r)' => Live(reservations'[r])
             /\ unit'[r] = "executing" => reservations'[r].nonce = workerNonce'[r]
             /\ Outright(r)' => reservations'[r].nonce = job'[r].nonce
  <2>1. unit' = unit /\ workerNonce' = workerNonce /\ up' \subseteq up
    BY DEF Admission, Enter, Replay, Grant, Refuse, Look, Release, Leave
  <2>2. r \in Direct => (Outright(r)' => job'[r] = job[r])
    <3>1. ASSUME r \in Direct, Outright(r)'
          PROVE  job'[r] = job[r]
      <4>1. r \in Process /\ job'[r].at = "execute"
        BY <3>1, Constants DEF Outright, At
      <4>2. CASE Enter(p)
        BY <4>2 DEF Enter
      <4>3. CASE Refuse(p) \/ Look(p) \/ Release(p)
        BY <4>1, <4>3 DEF Refuse, Look, Release, Leave, Idle, TypeOK
      <4>4. CASE Replay(p) \/ Grant(p)
        <5>1. PICK n, to : /\ job' = [job EXCEPT ![p] = [run |-> job[p].run, nonce |-> n, at |-> to]]
                           /\ to = CASE job[p].at = "admit" -> "publish"
                                     [] job[p].at = "readmit" -> "own"
                                     [] job[p].at = "answer" -> "ask"
                                     [] job[p].at = "relaunch" -> "dispatch"
          BY <4>4 DEF Replay, Grant, Proceed
        <5>2. to # "execute"
          BY <4>4, <5>1 DEF Replay, Grant, At, Admits
        <5> QED
          BY <4>1, <5>1, <5>2 DEF TypeOK
      <4> QED
        BY <4>2, <4>3, <4>4 DEF Admission
    <3> QED
      BY <3>1
  <2>3. CASE Enter(p)
    <3>1. ~Replay(p) /\ ~Grant(p) /\ reservations' = reservations
      BY <2>3 DEF Enter, Replay, Grant, Holds
    <3>2. Busy(r)' => Busy(r)
      BY <3>1, AdmissionBusy
    <3>3. Busy(r) => Live(reservations'[r])
      BY <3>1 DEF Claimed
    <3> QED
      BY <2>1, <2>2, <3>1, <3>2, <3>3, KeepClaim
  <2>4. CASE Refuse(p) \/ Look(p)
    <3>1. reservations' = Reconciled /\ Holds(p)
      BY <2>4 DEF Refuse, Look
    <3>2. Busy(r)' => Busy(r)
      <4>1. ~(Replay(p) \/ Grant(p)) \/ Busy(r)
        BY <2>4, <3>1, BusyKept DEF Refuse, Look, Replay, Grant, At, Admits
      <4> QED
        BY <4>1, AdmissionBusy
    <3> QED
      BY <2>1, <2>2, <3>1, <3>2, BusyKept, KeepClaim
  <2>5. CASE Release(p)
    <3>1. Holds(p) /\ ~Replay(p) /\ ~Grant(p)
      BY <2>5 DEF Release, Replay, Grant, At, Admits, Gives
    <3>2. Busy(r)' => Busy(r)
      BY <3>1, AdmissionBusy
    <3>3. ASSUME Busy(r)
          PROVE  reservations'[r] = reservations[r]
      <4>1. lock.view[r].state \notin {"absent", "inactive"}
        BY <3>1, <3>3 DEF Seen, Holds
      <4>2. \A k : ~MayRelease(k, lock.view[r])
        BY <4>1 DEF MayRelease
      <4>3. CASE UNCHANGED reservations
        BY <4>3
      <4>4. CASE ~UNCHANGED reservations
        <5>1. MayRelease(reservations[job[p].run], lock.view[job[p].run])
          BY <2>5, <4>4 DEF Release
        <5>2. r # job[p].run
          BY <4>2, <5>1
        <5> QED
          BY <2>5, <5>2 DEF Release, TypeOK
      <4> QED
        BY <4>3, <4>4
    <3>4. Busy(r) => Live(reservations'[r]) /\ reservations'[r].nonce = reservations[r].nonce
      BY <3>3 DEF Claimed
    <3> QED
      BY <2>1, <2>2, <3>2, <3>4, KeepClaim
  <2>6. CASE Replay(p)
    <3>1. /\ reservations' = Reconciled /\ Holds(p)
          /\ r = job[p].run => Live(Reconciled[r])
      BY <2>6 DEF Replay
    <3>2. CASE Busy(r)
      BY <2>1, <2>2, <3>1, <3>2, BusyKept, KeepClaim
    <3>3. CASE ~Busy(r) /\ r # job[p].run
      BY <2>1, <2>2, <3>1, <3>3, BusyKept, KeepClaim, AdmissionBusy
    <3>4. CASE ~Busy(r) /\ r = job[p].run
      <4>1. unit'[r] # "executing"
        BY <2>1, <3>4 DEF Busy
      <4>2. Outright(r)' => Outright(r)
        BY <2>1, <2>2 DEF Outright, At
      <4> QED
        BY <3>1, <3>4, <4>1, <4>2 DEF Busy
    <3> QED
      BY <3>2, <3>3, <3>4
  <2>7. CASE Grant(p)
    <3>1. Holds(p) /\ job[p].run \in Runs
      BY <2>7, HasRun DEF Grant, Admits
    <3>2. CASE r # job[p].run
      <4>1. ASSUME Live(Reconciled[r])
            PROVE  reservations'[r] = Reconciled[r]
        <5>1. r \in Compacted(job[p].run)
          BY <4>1 DEF Compacted, Live
        <5> QED
          BY <2>7, <3>2, <5>1 DEF Grant
      <4> QED
        BY <2>1, <2>2, <3>1, <3>2, <4>1, BusyKept, KeepClaim, AdmissionBusy
    <3>3. CASE r = job[p].run
      <4>1. ~Busy(r)
        BY <2>7, <3>1, <3>3, BusyKept DEF Grant
      <4>2. unit'[r] # "executing"
        BY <2>1, <4>1 DEF Busy
      <4>3. Outright(r)' => Outright(r)
        BY <2>1, <2>2 DEF Outright, At
      <4>4. Live(reservations'[r])
        BY <2>7, <3>3, GrantNew
      <4> QED
        BY <4>1, <4>2, <4>3, <4>4 DEF Busy
    <3> QED
      BY <3>2, <3>3
  <2> QED
    BY <2>3, <2>4, <2>5, <2>6, <2>7 DEF Admission
<1> QED
  BY <1>1 DEF Claimed

\* A transition changes no reservation's nonce and no other one's life.
LEMMA Transits ==
  ASSUME TypeOK, NEW r \in Runs, NEW n, NEW state \in LiveState, Transition(r, n, state)
  PROVE  /\ Live(reservations[r]) /\ reservations[r].nonce = n
         /\ \A s \in Runs :
              /\ Live(reservations'[s]) <=> Live(reservations[s])
              /\ reservations'[s].nonce = reservations[s].nonce
<1>1. Live(reservations[r]) /\ reservations[r].nonce = n
  BY DEF Transition, Fenced
<1> DEFINE new == Restate(reservations[r], state, reservations[r].retained, TRUE)
<1>2. new \in Reservation /\ new.nonce = reservations[r].nonce /\ new.state = state
  BY <1>1, RetiredType, RestateType DEF Restate
<1>3. reservations' = [reservations EXCEPT ![r] = new]
  BY DEF Transition
<1> HIDE DEF new
<1>4. Live(new)
  BY <1>2, NullAssumption DEF Live, LiveState
<1> QED
  BY <1>1, <1>2, <1>3, <1>4 DEF TypeOK

LEMMA StartingClaimed ==
  ASSUME TypeOK, Artifacts, Claimed, NEW p \in Process, Starting(p)
  PROVE  Claimed'
<1> USE DEF units, counts
<1>1. job[p].run \in Runs /\ p \in up
  BY HasRun DEF Starting, Publish, PublishFails, Bind, CreateRecord, Own, Prepare, Prepared, Goto
<1>2. PICK to : job' = [job EXCEPT ![p] = [run |-> job[p].run, nonce |-> job[p].nonce, at |-> to]]
  BY DEF Starting, Publish, PublishFails, Bind, CreateRecord, Own, Prepare, Prepared, Goto
<1>3. \A q \in Process : job'[q] = IF q = p THEN [run |-> job[p].run, nonce |-> job[p].nonce, at |-> to]
                                  ELSE job[q]
  BY <1>2 DEF TypeOK
<1>4. up' = up /\ unit' = unit /\ workerNonce' = workerNonce
  BY DEF Starting, Publish, PublishFails, Bind, CreateRecord, Own, Prepare, Prepared
<1>5. \A r \in Runs : /\ Live(reservations[r]) <=> Live(reservations'[r])
                      /\ reservations'[r].nonce = reservations[r].nonce
  <2>1. CASE Bind(p)
    <3>1. Transition(job[p].run, job[p].nonce, reservations[job[p].run].state)
          /\ Live(reservations[job[p].run])
      BY <2>1 DEF Bind, Transition, Fenced
    <3> QED
      BY <1>1, <3>1, RetiredType, Transits
  <2>2. CASE ~Bind(p)
    BY <2>2 DEF Starting, Publish, PublishFails, CreateRecord, Own, Prepare, Prepared
  <2> QED
    BY <2>1, <2>2
<1>6. ASSUME NEW r \in Runs
      PROVE  /\ Busy(r)' => Live(reservations'[r])
             /\ unit'[r] = "executing" => reservations'[r].nonce = workerNonce'[r]
             /\ Outright(r)' => reservations'[r].nonce = job'[r].nonce
  <2>1. CASE Bind(p) /\ r = job[p].run /\ p \in Direct
    <3>1. r = p
      BY <1>1, <2>1, Constants DEF Artifacts, OnJob
    <3>2. Live(reservations[r]) /\ reservations[r].nonce = job[p].nonce
      BY <2>1 DEF Bind, Transition, Fenced
    <3>3. job'[r].nonce = job[p].nonce
      BY <1>3, <3>1
    <3>4. unit'[r] = "executing" => reservations'[r].nonce = workerNonce'[r]
      BY <1>4, <1>5 DEF Claimed
    <3> QED
      BY <1>5, <3>2, <3>3, <3>4
  <2>2. CASE ~(Bind(p) /\ r = job[p].run /\ p \in Direct)
    <3>1. Busy(r)' => Busy(r)
      BY <2>2, StartingBusy
    <3>2. Busy(r) => Live(reservations'[r])
      BY <1>5 DEF Claimed
    <3>3. ASSUME r \in Direct, Outright(r)'
          PROVE  job'[r] = job[r]
      <4>1. CASE r = p
        <5>1. to = "execute"
          BY <1>3, <3>3, <4>1 DEF Outright, At
        <5>2. Bind(p) /\ r = job[p].run
          <6>1. job'[p].at = "execute"
            BY <1>3, <5>1
          <6>2. Bind(p)
            BY <6>1 DEF Starting, Publish, PublishFails, CreateRecord, Own, Prepare, Prepared,
              Goto, TypeOK
          <6> QED
            BY <1>1, <3>3, <4>1, <6>2, Constants DEF Artifacts, OnJob
        <5> QED
          BY <2>2, <3>3, <4>1, <5>2
      <4>2. CASE r # p
        BY <1>3, <3>3, <4>2, Constants
      <4> QED
        BY <4>1, <4>2
    <3> QED
      BY <1>4, <1>5, <3>1, <3>2, <3>3, KeepClaim
  <2> QED
    BY <2>1, <2>2
<1> QED
  BY <1>6 DEF Claimed

LEMMA LaunchingClaimed ==
  ASSUME TypeOK, Artifacts, Claimed, NEW p \in Process, Launching(p)
  PROVE  Claimed'
<1>1. job[p].run \in Runs
  BY HasRun DEF Launching, MarkStarting, PriorWork, Overtaken, RequestLaunch, WritePhase, StartUnit,
    StartUnitFails, Started, Goto
<1>2. p \notin Direct
  BY DEF Artifacts, OnJob, Launching, MarkStarting, PriorWork, Overtaken, RequestLaunch,
    WritePhase, StartUnit, StartUnitFails, Started, Goto, At
<1>3. \A q \in Process \ {p} : job'[q] = job[q]
  BY DEF Launching, MarkStarting, PriorWork, Overtaken, RequestLaunch, WritePhase, StartUnit,
    StartUnitFails, Started, Goto, Leave, TypeOK
<1>4. \A r \in Runs : /\ Live(reservations[r]) <=> Live(reservations'[r])
                      /\ reservations'[r].nonce = reservations[r].nonce
  <2>1. CASE MarkStarting(p)
    BY <1>1, <2>1, Transits DEF MarkStarting, LiveState
  <2>2. CASE ~MarkStarting(p)
    BY <2>2 DEF Launching, PriorWork, Overtaken, RequestLaunch, WritePhase, StartUnit,
      StartUnitFails, Started
  <2> QED
    BY <2>1, <2>2
<1>5. ASSUME NEW r \in Runs
      PROVE  /\ Busy(r)' => Live(reservations'[r])
             /\ unit'[r] = "executing" => reservations'[r].nonce = workerNonce'[r]
             /\ Outright(r)' => reservations'[r].nonce = job'[r].nonce
  <2>1. Busy(r)' => Busy(r)
    BY LaunchingBusy
  <2>2. unit'[r] = "executing" => unit[r] = "executing" /\ workerNonce'[r] = workerNonce[r]
    BY DEF Launching, MarkStarting, PriorWork, Overtaken, RequestLaunch, WritePhase, StartUnit,
      StartUnitFails, UnitStarts, Started, units, TypeOK
  <2>3. r \in Direct => job'[r] = job[r]
    BY <1>2, <1>3, Constants
  <2>4. up' \subseteq up
    BY DEF Launching, MarkStarting, PriorWork, Overtaken, RequestLaunch, WritePhase, StartUnit,
      StartUnitFails, Started, Leave
  <2>5. Busy(r) => Live(reservations'[r])
    BY <1>4 DEF Claimed
  <2> QED
    BY <1>4, <2>1, <2>2, <2>3, <2>4, <2>5, KeepClaim
<1> QED
  BY <1>5 DEF Claimed

LEMMA OthersClaimed ==
  ASSUME TypeOK, Artifacts, Claimed, NEW p \in Process,
         \/ Stopped(p) \/ LookAround(p) \/ Fail(p) \/ Crash(p)
         \/ \E r \in Runs : StartRun(p, r) \/ Retry(p, r) \/ Answer(p, r) \/ Stop(p, r)
  PROVE  Claimed'
<1>1. /\ unit' = unit /\ workerNonce' = workerNonce /\ up' \subseteq up
      /\ reservations' = reservations
  BY DEF Stopped, LookAround, Fail, Crash, StartRun, Retry, Answer, Stop, Leave, units
<1>2. \A q \in Process : job'[q] = job[q] \/ job'[q].at # "execute"
  BY DEF Stopped, LookAround, Fail, Crash, StartRun, Retry, Answer, Stop, Leave, Idle, TypeOK
<1>3. ASSUME NEW r \in Runs
      PROVE  /\ Busy(r)' => Live(reservations'[r])
             /\ unit'[r] = "executing" => reservations'[r].nonce = workerNonce'[r]
             /\ Outright(r)' => reservations'[r].nonce = job'[r].nonce
  <2>1. Busy(r)' => Busy(r)
    BY OthersBusy
  <2>2. r \in Direct => (Outright(r)' => job'[r] = job[r])
    BY <1>2, Constants DEF Outright, At
  <2>3. Busy(r) => Live(reservations'[r])
    BY <1>1 DEF Claimed
  <2> QED
    BY <1>1, <2>1, <2>2, <2>3, KeepClaim
<1> QED
  BY <1>3 DEF Claimed

LEMMA RunClaimed ==
  ASSUME TypeOK, Artifacts, Claimed, NEW r \in Runs,
         StartDirect(r) \/ Boot(r) \/ Terminate(r) \/ UnitExit(r) \/ TerminateDirect(r)
  PROVE  Claimed'
<1>1. /\ workerNonce' = workerNonce /\ up' \subseteq up
      /\ \A s \in Runs : unit'[s] = "executing" => unit[s] = "executing" \/ (s = r /\ Boot(r))
  BY DEF StartDirect, Boot, Terminate, UnitExit, TerminateDirect, Leave, units, TypeOK
<1>2. \A q \in Process : job'[q] = job[q] \/ job'[q].at # "execute"
  BY DEF StartDirect, Boot, Terminate, UnitExit, TerminateDirect, Leave, Idle, TypeOK
<1>3. \A s \in Runs : /\ Live(reservations[s]) <=> Live(reservations'[s])
                      /\ reservations'[s].nonce = reservations[s].nonce
  <2>1. CASE Boot(r)
    BY <2>1, Transits DEF Boot, LiveState
  <2>2. CASE ~Boot(r)
    BY <2>2 DEF StartDirect, Terminate, UnitExit, TerminateDirect
  <2> QED
    BY <2>1, <2>2
<1>4. ASSUME NEW s \in Runs
      PROVE  /\ Busy(s)' => Live(reservations'[s])
             /\ unit'[s] = "executing" => reservations'[s].nonce = workerNonce'[s]
             /\ Outright(s)' => reservations'[s].nonce = job'[s].nonce
  <2>1. s \in Direct => (Outright(s)' => job'[s] = job[s])
    BY <1>2, Constants DEF Outright, At
  <2>2. Busy(s) => Live(reservations'[s])
    BY <1>3 DEF Claimed
  <2>3. CASE ~(s = r /\ Boot(r))
    <3>1. Busy(s)' => Busy(s)
      BY <2>3, RunBusy
    <3> QED
      BY <1>1, <1>3, <2>1, <2>2, <2>3, <3>1, KeepClaim
  <2>4. CASE s = r /\ Boot(r)
    <3>1. Live(reservations[r]) /\ reservations[r].nonce = workerNonce[r]
      BY <2>4 DEF Boot, Transition, Fenced
    <3>2. r \notin Direct
      BY <2>4 DEF Boot, Artifacts, OnRun
    <3>3. ~Outright(s)'
      BY <2>4, <3>2 DEF Outright
    <3> QED
      BY <1>1, <1>3, <2>4, <3>1, <3>3
  <2> QED
    BY <2>3, <2>4
<1> QED
  BY <1>4 DEF Claimed

LEMMA NextClaimed ==
  ASSUME TypeOK, Artifacts, Claimed, Seen, Next
  PROVE  Claimed'
BY AdmissionClaimed, StartingClaimed, LaunchingClaimed, OthersClaimed, RunClaimed DEF Next

-----------------------------------------------------------------------------
(* Slots *)

\* Slots are taken by grants, one at a time; every other step takes none.
LEMMA NextSlots ==
  ASSUME TypeOK, Artifacts, Next
  PROVE  \/ Slots' \subseteq Slots
         \/ \E p \in Process :
              /\ Grant(p) /\ Holds(p) /\ job[p].run \in Runs
              /\ Slots' \subseteq {job[p].run} \cup {s \in Runs : Live(Reconciled[s])}
<1>1. ASSUME NEW p \in Process, Grant(p)
      PROVE  /\ Holds(p) /\ job[p].run \in Runs
             /\ Slots' \subseteq {job[p].run} \cup {s \in Runs : Live(Reconciled[s])}
  <2>1. Holds(p) /\ job[p].run \in Runs
    BY <1>1, HasRun DEF Grant, Admits
  <2>2. ASSUME NEW s \in Runs, Live(reservations'[s]), s # job[p].run
        PROVE  Live(Reconciled[s])
    BY <1>1, <2>2 DEF Grant, Live
  <2> QED
    BY <2>1, <2>2 DEF Slots
<1>2. ASSUME NEW p \in Process, Admission(p), ~Grant(p)
      PROVE  Slots' \subseteq Slots
  <2>1. CASE Enter(p)
    BY <2>1 DEF Enter, Slots
  <2>2. CASE Replay(p) \/ Refuse(p) \/ Look(p)
    <3>1. reservations' = Reconciled /\ Holds(p)
      BY <2>2 DEF Replay, Refuse, Look
    <3> QED
      BY <3>1, Reconciling DEF Slots
  <2>3. CASE Release(p)
    <3>1. ASSUME NEW s \in Runs, Live(reservations'[s])
          PROVE  Live(reservations[s])
      BY <2>3, <3>1 DEF Release, TypeOK
    <3> QED
      BY <3>1 DEF Slots
  <2> QED
    BY <1>2, <2>1, <2>2, <2>3 DEF Admission
<1>3. ASSUME NEW r \in Runs, NEW n, NEW state \in LiveState, Transition(r, n, state)
      PROVE  Slots' \subseteq Slots
  BY <1>3, Transits DEF Slots
<1>4. ASSUME UNCHANGED reservations
      PROVE  Slots' \subseteq Slots
  BY <1>4 DEF Slots
<1>5. ASSUME NEW p \in Process, Starting(p)
      PROVE  Slots' \subseteq Slots
  <2>1. CASE Bind(p)
    <3>1. /\ Transition(job[p].run, job[p].nonce, reservations[job[p].run].state)
          /\ Live(reservations[job[p].run]) /\ job[p].run \in Runs
      BY <2>1, HasRun DEF Bind, Goto, Transition, Fenced
    <3>2. reservations[job[p].run].state \in LiveState
      BY <3>1, RetiredType
    <3> QED
      BY <1>3, <3>1, <3>2
  <2>2. CASE ~Bind(p)
    BY <1>4, <1>5, <2>2 DEF Starting, Publish, PublishFails, CreateRecord, Own, Prepare, Prepared
  <2> QED
    BY <2>1, <2>2
<1>6. ASSUME NEW p \in Process, Launching(p)
      PROVE  Slots' \subseteq Slots
  <2>1. CASE MarkStarting(p)
    BY <1>3, <2>1, HasRun DEF MarkStarting, Goto, LiveState
  <2>2. CASE ~MarkStarting(p)
    BY <1>4, <1>6, <2>2 DEF Launching, PriorWork, Overtaken, RequestLaunch, WritePhase, StartUnit,
      StartUnitFails, Started
  <2> QED
    BY <2>1, <2>2
<1>7. ASSUME NEW p \in Process,
             \/ Stopped(p) \/ LookAround(p) \/ Fail(p) \/ Crash(p)
             \/ \E r \in Runs : StartRun(p, r) \/ Retry(p, r) \/ Answer(p, r) \/ Stop(p, r)
      PROVE  Slots' \subseteq Slots
  BY <1>4, <1>7 DEF Stopped, LookAround, Fail, Crash, StartRun, Retry, Answer, Stop
<1>8. ASSUME NEW r \in Runs,
             StartDirect(r) \/ Boot(r) \/ Terminate(r) \/ UnitExit(r) \/ TerminateDirect(r)
      PROVE  Slots' \subseteq Slots
  <2>1. CASE Boot(r)
    BY <1>3, <2>1 DEF Boot, LiveState
  <2>2. CASE ~Boot(r)
    BY <1>4, <1>8, <2>2 DEF StartDirect, Terminate, UnitExit, TerminateDirect
  <2> QED
    BY <2>1, <2>2
<1> QED
  BY <1>1, <1>2, <1>5, <1>6, <1>7, <1>8 DEF Next

LEMMA NextBounded ==
  ASSUME TypeOK, Artifacts, Bounded, Next
  PROVE  Bounded'
<1>1. \A S : S \subseteq Runs => IsFiniteSet(S) /\ Cardinality(S) \in Nat
  BY Constants, FS_Subset, FS_CardinalityType
<1>2. Slots \subseteq Runs /\ Slots' \subseteq Runs
  BY DEF Slots
<1>3. CASE Slots' \subseteq Slots
  <2>1. Cardinality(Slots') <= Cardinality(Slots)
    BY <1>1, <1>2, <1>3, FS_Subset
  <2> QED
    BY <1>1, <1>2, <2>1, LimitAssumption DEF Bounded
<1>4. ASSUME NEW p \in Process, Grant(p), Holds(p), job[p].run \in Runs,
             Slots' \subseteq {job[p].run} \cup {s \in Runs : Live(Reconciled[s])}
      PROVE  Bounded'
  <2> DEFINE r == job[p].run
             O == Occupied(r)
  <2>1. O \subseteq Runs /\ r \notin O /\ Cardinality(O) < Limit
    BY <1>4 DEF Occupied, Grant, Admissible
  <2>2. Slots' \subseteq O \cup {r}
    BY <1>4 DEF Occupied
  <2> HIDE DEF O, r
  <2>3. Cardinality(O \cup {r}) = Cardinality(O) + 1 /\ IsFiniteSet(O \cup {r})
    BY <1>1, <2>1, FS_AddElement
  <2>4. Cardinality(Slots') <= Cardinality(O \cup {r})
    BY <2>2, <2>3, FS_Subset
  <2> QED
    BY <1>1, <1>2, <2>1, <2>3, <2>4, LimitAssumption DEF Bounded
<1> QED
  BY <1>3, <1>4, NextSlots

LEMMA NextApart ==
  ASSUME TypeOK, Artifacts, Claimed, Seen, Apart, Next
  PROVE  Apart'
<1>1. \A r \in Runs : Busy(r) => r \in Slots
  BY DEF Claimed, Slots
<1>2. \A r \in Runs : Waiting(r)' => Waiting(r) \/ r \in Slots
  BY <1>1, NewlyWaiting
<1>3. CASE Slots' \subseteq Slots
  <2>1. ASSUME NEW r \in Slots', NEW s \in Runs \ {r}
        PROVE  /\ PlanOf[r] = PlanOf[s] => s \notin Slots' /\ ~Waiting(s)'
               /\ SourceOf[r] = SourceOf[s] /\ SourceOf[r] # NoRun => s \notin Slots'
    <3>1. r \in Slots
      BY <1>3, <2>1
    <3>2. /\ PlanOf[r] = PlanOf[s] => s \notin Slots /\ ~Waiting(s)
          /\ SourceOf[r] = SourceOf[s] /\ SourceOf[r] # NoRun => s \notin Slots
      BY <2>1, <3>1 DEF Apart
    <3>3. Waiting(s)' => Waiting(s) \/ s \in Slots
      BY <1>2, <2>1
    <3> QED
      BY <1>3, <3>2, <3>3
  <2> QED
    BY <2>1 DEF Apart
<1>4. ASSUME NEW p \in Process, Grant(p), Holds(p), job[p].run \in Runs,
             Slots' \subseteq {job[p].run} \cup {s \in Runs : Live(Reconciled[s])}
      PROVE  Apart'
  <2>1. ASSUME NEW s \in Runs \ {job[p].run}, PlanOf[s] = PlanOf[job[p].run]
        PROVE  s \notin Slots' /\ ~Waiting(s)
    <3>1. ~Unresolved(lock.view[s]) /\ (Reconciled[s] # NoReservation => ~Live(Reconciled[s]))
      BY <1>4, <2>1 DEF Grant, Admissible, UnclaimedPlan
    <3>2. ~Waiting(s)
      BY <1>4, <3>1 DEF Seen, Holds
    <3> QED
      BY <1>4, <2>1, <3>1, <3>2 DEF Live
  <2>2. ASSUME NEW s \in Runs \ {job[p].run}, SourceOf[s] = SourceOf[job[p].run],
               SourceOf[job[p].run] # NoRun
        PROVE  s \notin Slots'
    <3>1. Reconciled[s] # NoReservation => ~Live(Reconciled[s])
      BY <1>4, <2>2 DEF Grant, Admissible, UniqueSuccessor
    <3> QED
      BY <1>4, <2>2, <3>1 DEF Live
  <2>3. \A s \in Runs : Waiting(s)' = Waiting(s)
    BY <1>4 DEF Grant, Waiting, artifacts
  <2>4. \A s \in Runs : s \in Slots' /\ s # job[p].run => s \in Slots
    BY <1>4, Reconciling DEF Slots
  <2>5. ASSUME NEW r \in Slots', NEW s \in Runs \ {r}
        PROVE  /\ PlanOf[r] = PlanOf[s] => s \notin Slots' /\ ~Waiting(s)'
               /\ SourceOf[r] = SourceOf[s] /\ SourceOf[r] # NoRun => s \notin Slots'
    <3>1. r \in Runs
      BY <2>5 DEF Slots
    <3>2. CASE r = job[p].run
      BY <2>1, <2>2, <2>3, <2>5, <3>2
    <3>3. CASE r # job[p].run /\ s = job[p].run
      BY <2>1, <2>2, <2>5, <3>1, <3>3
    <3>4. CASE r # job[p].run /\ s # job[p].run
      <4>1. r \in Slots /\ (s \in Slots' => s \in Slots)
        BY <2>4, <2>5, <3>1, <3>4
      <4>2. /\ PlanOf[r] = PlanOf[s] => s \notin Slots /\ ~Waiting(s)
            /\ SourceOf[r] = SourceOf[s] /\ SourceOf[r] # NoRun => s \notin Slots
        BY <2>5, <4>1 DEF Apart
      <4> QED
        BY <2>3, <2>5, <4>1, <4>2
    <3> QED
      BY <3>2, <3>3, <3>4
  <2> QED
    BY <2>5 DEF Apart
<1> QED
  BY <1>3, <1>4, NextSlots

-----------------------------------------------------------------------------
(* The theorems *)

LEMMA InitInv == Init => Inv
<1>1. ASSUME Init
      PROVE  Claimed /\ Seen /\ Bounded /\ Apart
  <2>1. \A r \in Runs : ~Busy(r) /\ ~Live(reservations[r])
    BY <1>1, Constants DEF Init, Busy, Underway, Outright, At, Live, Idle
  <2>2. Slots = {}
    BY <2>1 DEF Slots
  <2>3. Claimed
    BY <1>1, <2>1 DEF Claimed, Init, Busy, Outright
  <2>4. Seen
    BY <1>1 DEF Init, Seen
  <2>5. Bounded
    BY <2>2, FS_EmptySet, LimitAssumption DEF Bounded
  <2> QED
    BY <2>2, <2>3, <2>4, <2>5 DEF Apart
<1> QED
  BY <1>1, InitType, InitArtifacts DEF Inv

LEMMA NextInv == Inv /\ [Next]_vars => Inv'
<1>1. ASSUME Inv, Next
      PROVE  Inv'
  BY <1>1, NextType, NextArtifacts, NextClaimed, NextSeen, NextBounded, NextApart DEF Inv
<1>2. ASSUME Inv, UNCHANGED vars
      PROVE  Inv'
  <2>1. TypeOK' /\ Artifacts'
    BY <1>2, NextType, NextArtifacts DEF Inv
  <2> USE DEF vars, artifacts, units, counts
  <2>2. \A r \in Runs : /\ Busy(r)' = Busy(r) /\ Waiting(r)' = Waiting(r) /\ Outright(r)' = Outright(r)
    BY <1>2 DEF Busy, Underway, Outright, At, Preparing, Over, Waiting
  <2>3. Claimed'
    BY <1>2, <2>2 DEF Inv, Claimed
  <2>4. Seen'
    BY <1>2, <2>2 DEF Inv, Seen
  <2>5. Slots' = Slots
    BY <1>2 DEF Slots
  <2>6. Bounded' /\ Apart'
    BY <1>2, <2>2, <2>5 DEF Inv, Bounded, Apart
  <2> QED
    BY <2>1, <2>3, <2>4, <2>6 DEF Inv
<1> QED
  BY <1>1, <1>2

\* Claims, views and slots agree with the artifacts in every reachable state, for
\* any number of daemons, runs and plans, any limits, and any interleaving of
\* passes, retries, answers, launches, stops, failures and crashes.
THEOREM Invariant == Spec => []Inv
<1> QED
  BY InitInv, NextInv, PTL DEF Spec

\* The variables keep their types.
THEOREM TypeCorrect == Spec => []TypeOK
<1>1. Inv => TypeOK
  BY DEF Inv
<1> QED
  BY <1>1, Invariant, PTL

\* Who is at work holds a slot.
LEMMA WorkingSlot ==
  ASSUME Inv, ~Unscoped, NEW r \in Runs, Working(r)
  PROVE  Busy(r) /\ r \in Slots
<1>1. OnRun(r)
  BY DEF Inv, Artifacts
<1>2. Executing(r) => Busy(r)
  BY DEF Executing, Busy, Outright
<1>3. ASSUME Preparing(r), ~Over(r)
      PROVE  Busy(r)
  <2>1. preparer[r] # NoProcess
    BY <1>3, RunAssumption DEF Inv, TypeOK, Preparing, Process
  <2>2. record[r] = "preparing"
    BY <1>1, <2>1 DEF OnRun
  <2> QED
    BY <1>3, <2>2 DEF Busy, Underway
<1>4. Busy(r)
  BY <1>2, <1>3 DEF Working
<1> QED
  BY <1>4 DEF Inv, Claimed, Slots

\* What executes does so under its reservation - in a unit with the nonce the
\* unit was started with, or directly with the one it was bound with - unless
\* owner stops reach the launches of direct controllers.
THEOREM ExecutesUnder == Spec => [](~Unscoped => ExecutesUnderReservation)
<1>1. ASSUME Inv, ~Unscoped
      PROVE  ExecutesUnderReservation
  <2>1. ASSUME NEW r \in Runs, Executing(r)
        PROVE  /\ Live(reservations[r])
               /\ reservations[r].nonce = (IF r \in Direct THEN job[r].nonce ELSE workerNonce[r])
    <3>1. Live(reservations[r])
      BY <1>1, <2>1, WorkingSlot DEF Working, Slots
    <3>2. CASE r \in Direct
      <4>1. unit[r] # "executing"
        BY <1>1, <3>2 DEF Inv, Artifacts, OnRun
      <4>2. Outright(r)
        BY <1>1, <2>1, <3>2, <4>1 DEF Executing, Outright
      <4> QED
        BY <1>1, <3>1, <3>2, <4>2 DEF Inv, Claimed
    <3>3. CASE r \notin Direct
      BY <1>1, <2>1, <3>1, <3>3 DEF Inv, Claimed, Executing
    <3> QED
      BY <3>2, <3>3
  <2> QED
    BY <2>1 DEF ExecutesUnderReservation
<1>2. Inv => (~Unscoped => ExecutesUnderReservation)
  BY <1>1
<1> QED
  BY <1>2, Invariant, PTL

\* Runs at work are never more than the project's limit.
THEOREM LimitKept == Spec => [](~Unscoped => WithinLimit)
<1>1. ASSUME Inv, ~Unscoped
      PROVE  WithinLimit
  <2> DEFINE W == {r \in Runs : Working(r)}
  <2>1. W \subseteq Slots /\ Slots \subseteq Runs
    BY <1>1, WorkingSlot DEF Slots
  <2>2. IsFiniteSet(Slots)
    BY <2>1, Constants, FS_Subset
  <2>3. Cardinality(W) <= Cardinality(Slots) /\ Cardinality(W) \in Nat /\ Cardinality(Slots) \in Nat
    BY <2>1, <2>2, FS_Subset, FS_CardinalityType
  <2>4. Cardinality(Slots) <= Limit
    BY <1>1 DEF Inv, Bounded
  <2> HIDE DEF W
  <2>5. Cardinality(W) <= Limit
    BY <2>3, <2>4, LimitAssumption
  <2> QED
    BY <2>5 DEF W, WithinLimit
<1>2. Inv => (~Unscoped => WithinLimit)
  BY <1>1
<1> QED
  BY <1>2, Invariant, PTL

\* While a run of a plan is at work no other run of it is, nor has one a question open.
THEOREM PlanKept == Spec => [](~Unscoped => OneRunPerPlan)
<1>1. ASSUME Inv, ~Unscoped
      PROVE  OneRunPerPlan
  <2>1. ASSUME NEW r \in Runs, NEW s \in Runs, r # s, PlanOf[r] = PlanOf[s], Working(r)
        PROVE  ~Working(s) /\ ~Waiting(s)
    <3>1. r \in Slots
      BY <1>1, <2>1, WorkingSlot
    <3>2. s \notin Slots /\ ~Waiting(s)
      BY <1>1, <2>1, <3>1 DEF Inv, Apart
    <3> QED
      BY <1>1, <3>2, WorkingSlot
  <2> QED
    BY <2>1 DEF OneRunPerPlan
<1>2. Inv => (~Unscoped => OneRunPerPlan)
  BY <1>1
<1> QED
  BY <1>2, Invariant, PTL

-----------------------------------------------------------------------------
(* Generations *)

Launched == {"relaunch", "dispatch", "request", "phase", "unit"}

\* Where an admitted operation goes on.
LEMMA ProceedStep ==
  ASSUME TypeOK, NEW p \in Process, NEW n, Proceed(p, n), At(p, Admits)
  PROVE  /\ job'[p].run = job[p].run
         /\ job'[p].at \in {"publish", "own", "ask", "dispatch"}
         /\ job'[p].at = "dispatch" => job[p].at = "relaunch"
         /\ \A q \in Process \ {p} : job'[q] = job[q]
<1> DEFINE to == CASE job[p].at = "admit" -> "publish"
                   [] job[p].at = "readmit" -> "own"
                   [] job[p].at = "answer" -> "ask"
                   [] job[p].at = "relaunch" -> "dispatch"
           J == [run |-> job[p].run, nonce |-> n, at |-> to]
<1>1. job' = [job EXCEPT ![p] = J]
  BY DEF Proceed
<1>2. J.run = job[p].run /\ J.at = to
  OBVIOUS
<1>3. to \in {"publish", "own", "ask", "dispatch"} /\ (to = "dispatch" => job[p].at = "relaunch")
  BY DEF At, Admits
<1> HIDE DEF J, to
<1> QED
  BY <1>1, <1>2, <1>3 DEF TypeOK

LEMMA NextUnstarted ==
  ASSUME TypeOK, Artifacts, Unstarted, Next
  PROVE  Unstarted'
<1>1. SUFFICES ASSUME NEW q \in Process, job'[q].at \in Launched
               PROVE  unit'[job'[q].run] = "none"
  BY DEF Unstarted, Launched
<1>2. ASSUME job'[q] = job[q], unit'[job[q].run] = unit[job[q].run]
      PROVE  unit'[job'[q].run] = "none"
  BY <1>1, <1>2 DEF Unstarted, Launched
<1>3. job[q].at \in Launched => job[q].run \in Runs
  BY JobParts DEF Artifacts, OnJob, Launched
<1>4. ASSUME NEW p \in Process, Admission(p)
      PROVE  unit'[job'[q].run] = "none"
  <2>1. unit' = unit
    BY <1>4 DEF Admission, Enter, Replay, Grant, Refuse, Look, Release, units
  <2>2. CASE job'[q] = job[q]
    BY <1>2, <2>1, <2>2
  <2>3. CASE job'[q] # job[q]
    <3>1. Replay(p) \/ Grant(p)
      <4>1. CASE Enter(p)
        BY <2>3, <4>1 DEF Enter
      <4>2. CASE Refuse(p) \/ Look(p) \/ Release(p)
        BY <1>1, <2>3, <4>2 DEF Refuse, Look, Release, Leave, Idle, Launched, TypeOK
      <4> QED
        BY <1>4, <4>1, <4>2 DEF Admission
    <3>2. PICK n : Proceed(p, n) /\ At(p, Admits)
      BY <3>1 DEF Replay, Grant
    <3>3. q = p /\ job[p].at = "relaunch" /\ job'[p].run = job[p].run
      BY <1>1, <2>3, <3>2, ProceedStep DEF Launched
    <3> QED
      BY <2>1, <3>3 DEF Unstarted
  <2> QED
    BY <2>2, <2>3
<1>5. ASSUME NEW p \in Process, Starting(p)
      PROVE  unit'[job'[q].run] = "none"
  <2>1. unit' = unit
    BY <1>5 DEF Starting, Publish, PublishFails, Bind, CreateRecord, Own, Prepare, Prepared, units
  <2>2. CASE job'[q] = job[q]
    BY <1>2, <2>1, <2>2
  <2>3. CASE job'[q] # job[q]
    <3>1. Prepare(p) /\ q = p
      BY <1>1, <1>5, <2>3 DEF Starting, Publish, PublishFails, Bind, CreateRecord, Own, Prepare,
        Prepared, Goto, Launched, TypeOK
    <3>2. job'[p].run = job[p].run /\ job[p].at \in {"prepare", "ask"}
      BY <3>1 DEF Prepare, Prepared, Goto, At, TypeOK
    <3>3. job[p].run \in Runs
      BY <3>1, HasRun DEF Prepare, Prepared, Goto
    <3>4. OnJob(p) /\ OnRun(job[p].run)
      BY <3>3 DEF Artifacts
    <3>5. unit[job[p].run] = "none"
      BY <3>2, <3>4 DEF OnJob, OnRun
    <3> QED
      BY <2>1, <3>1, <3>2, <3>5
  <2> QED
    BY <2>2, <2>3
<1>6. ASSUME NEW p \in Process, Launching(p)
      PROVE  unit'[job'[q].run] = "none"
  <2>1. /\ job[p].run \in Runs
        /\ job[p].at \in {"dispatch", "request", "phase", "unit", "started"}
    BY <1>6, HasRun DEF Launching, MarkStarting, PriorWork, Overtaken, RequestLaunch, WritePhase,
      StartUnit, StartUnitFails, Started, Goto, At
  <2>2. CASE q = p
    <3>1. unit' = unit /\ job'[p].run = job[p].run /\ job[p].at \in Launched
      BY <1>1, <1>6, <2>2 DEF Launching, MarkStarting, PriorWork, Overtaken, RequestLaunch,
        WritePhase, StartUnit,
        StartUnitFails, Started, Goto, At, Leave, Idle, units, Launched, TypeOK
    <3> QED
      BY <2>2, <3>1 DEF Unstarted, Launched
  <2>3. CASE q # p
    <3>1. job'[q] = job[q]
      BY <1>6, <2>3 DEF Launching, MarkStarting, PriorWork, Overtaken, RequestLaunch, WritePhase,
        StartUnit, StartUnitFails, Started, Goto, Leave, TypeOK
    <3>2. job[q].run # job[p].run
      BY <1>1, <2>1, <2>3, <3>1, Constants DEF Artifacts, Exclusive, Launched
    <3>3. unit'[job[q].run] = unit[job[q].run]
      BY <1>1, <1>3, <1>6, <3>1, <3>2 DEF Launching, MarkStarting, PriorWork, Overtaken,
        RequestLaunch, WritePhase, StartUnit, StartUnitFails, UnitStarts, Started, units, TypeOK
    <3> QED
      BY <1>2, <3>1, <3>3
  <2> QED
    BY <2>2, <2>3
<1>7. ASSUME NEW p \in Process,
             \/ Stopped(p) \/ LookAround(p) \/ Fail(p) \/ Crash(p)
             \/ \E r \in Runs : StartRun(p, r) \/ Retry(p, r) \/ Answer(p, r) \/ Stop(p, r)
      PROVE  unit'[job'[q].run] = "none"
  <2>1. unit' = unit
    BY <1>7 DEF Stopped, LookAround, Fail, Crash, StartRun, Retry, Answer, Stop, units
  <2>2. CASE job'[q] = job[q]
    BY <1>2, <2>1, <2>2
  <2>3. CASE job'[q] # job[q]
    <3>1. PICK r \in Runs : Retry(p, r) /\ job'[q].run = r
      BY <1>1, <1>7, <2>3 DEF Stopped, LookAround, Fail, Crash, StartRun, Retry, Answer, Stop,
        Leave,
        Idle, Launched, TypeOK
    <3>2. phase[r] = "manifest_only" /\ OnRun(r)
      BY <3>1 DEF Retry, Artifacts
    <3> QED
      BY <2>1, <3>1, <3>2 DEF OnRun
  <2> QED
    BY <2>2, <2>3
<1>8. ASSUME NEW r \in Runs,
             StartDirect(r) \/ Boot(r) \/ Terminate(r) \/ UnitExit(r) \/ TerminateDirect(r)
      PROVE  unit'[job'[q].run] = "none"
  <2>1. job'[q] = job[q]
    BY <1>1, <1>8 DEF StartDirect, Boot, Terminate, UnitExit, TerminateDirect, Leave, Idle,
      Launched,
      TypeOK
  <2>2. unit[job[q].run] = "none"
    BY <1>1, <2>1 DEF Unstarted, Launched
  <2>3. unit'[job[q].run] = unit[job[q].run]
    BY <1>1, <1>3, <1>8, <2>1, <2>2 DEF StartDirect, Boot, Terminate, UnitExit, UnitActive,
      TerminateDirect, units, TypeOK
  <2> QED
    BY <1>2, <2>1, <2>3
<1> QED
  BY <1>4, <1>5, <1>6, <1>7, <1>8 DEF Next

\* What is halted stays so, and waits no more.
LEMMA StaysHalted ==
  ASSUME TypeOK, Artifacts, Next, NEW s \in Runs, Halted(s)
  PROVE  Halted(s)'
<1> USE DEF units, counts
<1>1. ASSUME phase[s] # "manifest_only" => phase'[s] # "manifest_only",
             record[s] = "failed_preparation" => record'[s] = "failed_preparation",
             up' \subseteq up
      PROVE  Halted(s)'
  BY <1>1 DEF Halted
<1>2. ASSUME NEW p \in Process, Admission(p)
      PROVE  Halted(s)'
  BY <1>1, <1>2 DEF Admission, Enter, Replay, Grant, Refuse, Look, Release, Leave, artifacts
<1>3. ASSUME NEW p \in Process, Starting(p)
      PROVE  Halted(s)'
  <2>1. job[p].run \in Runs
    BY <1>3, HasRun DEF Starting, Publish, PublishFails, Bind, CreateRecord, Own, Prepare, Prepared,
      Goto
  <2>2. CreateRecord(p) \/ Prepare(p) => record[job[p].run] # "failed_preparation"
    BY DEF CreateRecord, Prepare, Prepared, Goto, At, Artifacts, OnJob
  <2>3. phase' = phase /\ up' = up
        /\ (record'[s] = record[s] \/ (s = job[p].run /\ (CreateRecord(p) \/ Prepare(p))))
    BY <1>3, <2>1 DEF Starting, Publish, PublishFails, Bind, CreateRecord, Own, Prepare, Prepared,
      TypeOK
  <2> QED
    BY <1>1, <2>2, <2>3
<1>4. ASSUME NEW p \in Process, Launching(p)
      PROVE  Halted(s)'
  <2>1. job[p].run \in Runs
    BY <1>4, HasRun DEF Launching, MarkStarting, PriorWork, Overtaken, RequestLaunch, WritePhase,
      StartUnit, StartUnitFails, Started, Goto
  <2>2. record[job[p].run] # "failed_preparation"
    BY <1>4 DEF Launching, MarkStarting, PriorWork, Overtaken, RequestLaunch, WritePhase, StartUnit,
      StartUnitFails, Started, Goto, At, Artifacts, OnJob
  <2>3. /\ s # job[p].run => record'[s] = record[s]
        /\ phase'[s] = phase[s] \/ phase'[s] # "manifest_only"
        /\ up' \subseteq up
    BY <1>4, <2>1 DEF Launching, MarkStarting, PriorWork, Overtaken, RequestLaunch, WritePhase,
      StartUnit, StartUnitFails, Started, Leave, artifacts, TypeOK
  <2> QED
    BY <1>1, <2>2, <2>3
<1>5. ASSUME NEW p \in Process,
             \/ Stopped(p) \/ LookAround(p) \/ Fail(p) \/ Crash(p)
             \/ \E r \in Runs : StartRun(p, r) \/ Retry(p, r) \/ Answer(p, r) \/ Stop(p, r)
      PROVE  Halted(s)'
  <2>1. record' = record /\ up' \subseteq up
        /\ (phase'[s] = phase[s] \/ phase'[s] # "manifest_only")
    BY <1>5 DEF Stopped, LookAround, Fail, Crash, StartRun, Retry, Answer, Stop, Leave, artifacts,
      TypeOK
  <2> QED
    BY <1>1, <2>1
<1>6. ASSUME NEW r \in Runs,
             StartDirect(r) \/ Boot(r) \/ Terminate(r) \/ UnitExit(r) \/ TerminateDirect(r)
      PROVE  Halted(s)'
  <2>1. record' = record /\ up' \subseteq up /\ phase' = phase
    BY <1>6 DEF StartDirect, Boot, Terminate, UnitExit, TerminateDirect, Leave, artifacts
  <2> QED
    BY <1>1, <2>1
<1> QED
  BY <1>2, <1>3, <1>4, <1>5, <1>6 DEF Next

LEMMA HaltedWaitsNot ==
  ASSUME TypeOK, Artifacts, Ended, NEW s \in Runs, Halted(s)
  PROVE  ~Waiting(s)
BY DEF Halted, Waiting, Ended, Artifacts, OnRun, TypeOK

\* What may be restarted is halted.
LEMMA RestartableHalted ==
  ASSUME TypeOK, Artifacts, Ended, ~Unscoped, NEW s \in Runs, Restartable(s)
  PROVE  Halted(s)
<1>1. OnRun(s)
  BY DEF Artifacts
<1>2. CASE outcome[s] = "terminal"
  BY <1>1, <1>2 DEF Ended, Halted, OnRun
<1>3. CASE phase[s] = "owner_stopped" \/ record[s] = "failed_preparation"
  BY <1>3 DEF Halted
<1> QED
  BY <1>2, <1>3 DEF Restartable

LEMMA NextEnded ==
  ASSUME TypeOK, Artifacts, Ended, Next
  PROVE  Ended'
<1>1. SUFFICES ASSUME NEW r \in Runs
               PROVE  /\ phase'[r] \in {"launch_requested", "unit_started"} =>
                           record'[r] \in {"launch_requested", "unit_started", "failed_launch"}
                      /\ outcome'[r] = "terminal" => unit'[r] # "none" \/ (r \in Direct /\ r \notin up')
  BY DEF Ended
<1>2. /\ phase[r] \in {"launch_requested", "unit_started"} =>
           record[r] \in {"launch_requested", "unit_started", "failed_launch"}
      /\ outcome[r] = "terminal" => unit[r] # "none" \/ (r \in Direct /\ r \notin up)
  BY DEF Ended
<1>3. ASSUME NEW p \in Process, Admission(p)
      PROVE  /\ record' = record /\ phase' = phase /\ outcome' = outcome /\ unit' = unit
             /\ up' \subseteq up
  BY <1>3 DEF Admission, Enter, Replay, Grant, Refuse, Look, Release, Leave, artifacts, units
<1>4. ASSUME NEW p \in Process, Starting(p)
      PROVE  /\ phase' = phase /\ unit' = unit /\ up' = up
             /\ outcome'[r] = outcome[r] \/ outcome'[r] # "terminal"
             /\ record'[r] = record[r] \/ record[r] \in {"none", "preparing", "awaiting"}
  <2>1. job[p].run \in Runs
    BY <1>4, HasRun DEF Starting, Publish, PublishFails, Bind, CreateRecord, Own, Prepare, Prepared,
      Goto
  <2>2. CreateRecord(p) \/ Prepare(p) => record[job[p].run] \in {"none", "preparing", "awaiting"}
    BY DEF CreateRecord, Prepare, Prepared, Goto, At, Artifacts, OnJob
  <2> QED
    BY <1>4, <2>1, <2>2 DEF Starting, Publish, PublishFails, Bind, CreateRecord, Own, Prepare,
      Prepared, units, TypeOK
<1>5. ASSUME NEW p \in Process, Launching(p)
      PROVE  /\ phase'[r] \in {"launch_requested", "unit_started"} =>
                  record'[r] \in {"launch_requested", "unit_started", "failed_launch"}
             /\ outcome' = outcome /\ (unit[r] # "none" => unit'[r] # "none") /\ up' \subseteq up
  <2>1. job[p].run \in Runs /\ OnJob(p)
    BY <1>5, HasRun DEF Launching, MarkStarting, PriorWork, Overtaken, RequestLaunch, WritePhase,
      StartUnit, StartUnitFails, Started, Goto, Artifacts
  <2>2. outcome' = outcome /\ (unit[r] # "none" => unit'[r] # "none") /\ up' \subseteq up
    BY <1>5, <2>1 DEF Launching, MarkStarting, PriorWork, Overtaken, RequestLaunch, WritePhase,
      StartUnit, StartUnitFails, UnitStarts, Started, Leave, artifacts, units, TypeOK
  <2>3. CASE r # job[p].run
    BY <1>2, <1>5, <2>2, <2>3 DEF Launching, MarkStarting, PriorWork, Overtaken, RequestLaunch,
      WritePhase, StartUnit, StartUnitFails, Started, artifacts, TypeOK
  <2>4. CASE r = job[p].run
    BY <1>2, <1>5, <2>1, <2>2, <2>4 DEF Launching, MarkStarting, PriorWork, Overtaken,
      RequestLaunch, WritePhase,
      StartUnit, StartUnitFails, Started, Goto, At, OnJob, artifacts, TypeOK
  <2> QED
    BY <2>3, <2>4
<1>6. ASSUME NEW p \in Process,
             \/ Stopped(p) \/ LookAround(p) \/ Fail(p) \/ Crash(p)
             \/ \E s \in Runs : StartRun(p, s) \/ Retry(p, s) \/ Answer(p, s) \/ Stop(p, s)
      PROVE  /\ record' = record /\ outcome' = outcome /\ unit' = unit /\ up' \subseteq up
             /\ phase'[r] = phase[r] \/ phase'[r] = "owner_stopped"
  BY <1>6 DEF Stopped, LookAround, Fail, Crash, StartRun, Retry, Answer, Stop, Leave, artifacts,
    units,
    TypeOK
<1>7. ASSUME NEW s \in Runs,
             StartDirect(s) \/ Boot(s) \/ Terminate(s) \/ UnitExit(s) \/ TerminateDirect(s)
      PROVE  /\ record' = record /\ phase' = phase /\ up' \subseteq up
             /\ unit[r] # "none" => unit'[r] # "none"
             /\ outcome'[r] = "terminal" =>
                  outcome[r] = "terminal" \/ unit'[r] # "none" \/ (r \in Direct /\ r \notin up')
  <2>1. CASE TerminateDirect(s)
    <3>1. s \in Process /\ job[s].at = "execute"
      BY <2>1 DEF TerminateDirect, At, TypeOK
    <3>2. s \in Direct
      BY <3>1, Constants DEF Artifacts, OnJob, Process
    <3> QED
      BY <2>1, <3>2 DEF TerminateDirect, Leave, units, TypeOK
  <2>2. CASE ~TerminateDirect(s)
    BY <1>7, <2>2 DEF StartDirect, Boot, Terminate, UnitExit, artifacts, units, TypeOK
  <2> QED
    BY <2>1, <2>2
<1> QED
  BY <1>2, <1>3, <1>4, <1>5, <1>6, <1>7 DEF Next

\* A run begins with a start request.
LEMMA NewlyKnown ==
  ASSUME TypeOK, Artifacts, Next, NEW r \in Runs, Known(r)', ~Known(r)
  PROVE  r \in Direct \/ \E p \in Process : StartRun(p, r)
<1>1. r \notin manifest /\ r \notin Slots /\ \A p \in Process : job[p].run # r
  BY DEF Known
<1>2. r \notin Slots'
  BY <1>1, NextSlots, Reconciling DEF Slots
<1>3. r \notin manifest'
  <2>1. ASSUME NEW p \in Process, Admission(p) \/ Starting(p) \/ Launching(p)
        PROVE  r \notin manifest'
    BY <1>1, <2>1 DEF Admission, Enter, Replay, Grant, Refuse, Look, Release, Starting, Publish,
      PublishFails, Bind, CreateRecord, Own, Prepare, Prepared, Launching, MarkStarting, PriorWork,
      Overtaken,
      RequestLaunch, WritePhase, StartUnit, StartUnitFails, Started, artifacts
  <2>2. ASSUME NEW p \in Process,
               \/ Stopped(p) \/ LookAround(p) \/ Fail(p) \/ Crash(p)
               \/ \E s \in Runs : StartRun(p, s) \/ Retry(p, s) \/ Answer(p, s) \/ Stop(p, s)
        PROVE  r \notin manifest'
    BY <1>1, <2>2 DEF Stopped, LookAround, Fail, Crash, StartRun, Retry, Answer, Stop, artifacts
  <2>3. ASSUME NEW s \in Runs,
               StartDirect(s) \/ Boot(s) \/ Terminate(s) \/ UnitExit(s) \/ TerminateDirect(s)
        PROVE  r \notin manifest'
    BY <1>1, <2>3 DEF StartDirect, Boot, Terminate, UnitExit, TerminateDirect, artifacts
  <2> QED
    BY <2>1, <2>2, <2>3 DEF Next
<1>4. PICK q \in Process : job'[q].run = r
  BY <1>2, <1>3 DEF Known
<1>5. job'[q] # job[q] /\ job'[q].run # job[q].run /\ r # NoRun
  BY <1>1, <1>4, Constants
<1>6. ASSUME NEW p \in Process, Admission(p)
      PROVE  FALSE
  <2>1. CASE Enter(p)
    BY <1>5, <2>1 DEF Enter
  <2>2. CASE Refuse(p) \/ Look(p) \/ Release(p)
    BY <1>4, <1>5, <2>2 DEF Refuse, Look, Release, Leave, Idle, TypeOK
  <2>3. CASE Replay(p) \/ Grant(p)
    <3>1. PICK n : Proceed(p, n) /\ At(p, Admits)
      BY <2>3 DEF Replay, Grant
    <3> QED
      BY <1>5, <3>1, ProceedStep
  <2> QED
    BY <1>6, <2>1, <2>2, <2>3 DEF Admission
<1>7. ASSUME NEW p \in Process, Starting(p) \/ Launching(p)
      PROVE  FALSE
  BY <1>4, <1>5, <1>7 DEF Starting, Publish, PublishFails, Bind, CreateRecord, Own, Prepare,
    Prepared,
    Launching, MarkStarting, PriorWork, Overtaken, RequestLaunch, WritePhase, StartUnit,
    StartUnitFails, Started, Goto, Leave, Idle, TypeOK
<1>8. ASSUME NEW p \in Process,
             \/ Stopped(p) \/ LookAround(p) \/ Fail(p) \/ Crash(p)
             \/ \E s \in Runs : StartRun(p, s) \/ Retry(p, s) \/ Answer(p, s) \/ Stop(p, s)
      PROVE  StartRun(p, r)
  <2>1. CASE Stopped(p) \/ LookAround(p) \/ Fail(p) \/ Crash(p)
    BY <1>4, <1>5, <2>1 DEF Stopped, LookAround, Fail, Crash, Leave, Idle, TypeOK
  <2>2. ASSUME NEW s \in Runs, Retry(p, s) \/ Answer(p, s) \/ Stop(p, s)
        PROVE  FALSE
    <3>1. s \in manifest
      BY <2>2 DEF Retry, Answer, Stop, Artifacts, OnRun
    <3>2. s = r
      BY <1>4, <1>5, <2>2 DEF Retry, Answer, Stop, TypeOK
    <3> QED
      BY <1>1, <3>1, <3>2
  <2>3. ASSUME NEW s \in Runs, StartRun(p, s)
        PROVE  s = r
    BY <1>4, <1>5, <2>3 DEF StartRun, TypeOK
  <2> QED
    BY <1>8, <2>1, <2>2, <2>3
<1>9. ASSUME NEW s \in Runs,
             StartDirect(s) \/ Boot(s) \/ Terminate(s) \/ UnitExit(s) \/ TerminateDirect(s)
      PROVE  r \in Direct
  BY <1>4, <1>5, <1>9 DEF StartDirect, Boot, Terminate, UnitExit, TerminateDirect, Leave, Idle,
    TypeOK
<1> QED
  BY <1>6, <1>7, <1>8, <1>9 DEF Next

LEMMA NextRestarts ==
  ASSUME TypeOK, Artifacts, Ended, Restarts, ~Unscoped, Next
  PROVE  Restarts'
<1>1. SUFFICES ASSUME NEW r \in Runs, Known(r)', SourceOf[r] # NoRun
               PROVE  Halted(SourceOf[r])'
  BY DEF Restarts
<1>2. SourceOf[r] \in Runs
  BY <1>1, RunAssumption
<1>3. Halted(SourceOf[r])
  <2>1. CASE Known(r)
    BY <1>1, <2>1 DEF Restarts
  <2>2. CASE ~Known(r)
    <3>1. PICK p \in Process : StartRun(p, r)
      BY <1>1, <2>2, NewlyKnown, RunAssumption
    <3> QED
      BY <1>1, <1>2, <3>1, RestartableHalted DEF StartRun
  <2> QED
    BY <2>1, <2>2
<1> QED
  BY <1>2, <1>3, StaysHalted

LEMMA NextViewed ==
  ASSUME TypeOK, Artifacts, Ended, Restarts, Viewed, Next
  PROVE  Viewed'
<1>1. CASE lock' = Unlocked
  BY <1>1 DEF Viewed
<1>2. CASE lock' = lock /\ lock # Unlocked
  <2> DEFINE h == lock.by
  <2>1. h \in Process /\ job[h].at \in Admits \cup Gives \cup {"look"}
    BY <1>2 DEF Viewed, TypeOK
  <2>2. job[h] # Idle
    BY <2>1 DEF Idle, Admits, Gives
  <2>3. ASSUME NEW p \in Process, Admission(p)
        PROVE  FALSE
    BY <1>2, <2>3 DEF Admission, Enter, Replay, Grant, Refuse, Look, Release
  <2>4. ASSUME NEW p \in Process, Starting(p) \/ Launching(p)
        PROVE  job'[h] = job[h]
    BY <2>1, <2>4 DEF Starting, Publish, PublishFails, Bind, CreateRecord, Own, Prepare, Prepared,
      Launching, MarkStarting, PriorWork, Overtaken, RequestLaunch, WritePhase, StartUnit,
      StartUnitFails, Started, Goto, At, Leave, Admits, Gives, TypeOK
  <2>5. ASSUME NEW p \in Process,
               \/ Stopped(p) \/ LookAround(p) \/ Fail(p) \/ Crash(p)
               \/ \E s \in Runs : StartRun(p, s) \/ Retry(p, s) \/ Answer(p, s) \/ Stop(p, s)
        PROVE  job'[h] = job[h]
    <3>1. p # h
      BY <1>2, <2>1, <2>2, <2>5 DEF Stopped, LookAround, Fail, Crash, StartRun, Retry, Answer,
        Stop, At,
        Holds, Admits, Gives
    <3> QED
      BY <2>1, <2>5, <3>1 DEF Stopped, LookAround, Fail, Crash, StartRun, Retry, Answer, Stop,
        Leave,
        TypeOK
  <2>6. ASSUME NEW s \in Runs,
               StartDirect(s) \/ Boot(s) \/ Terminate(s) \/ UnitExit(s) \/ TerminateDirect(s)
        PROVE  job'[h] = job[h]
    <3>1. StartDirect(s) \/ TerminateDirect(s) => s # h
      BY <2>1, <2>2 DEF StartDirect, TerminateDirect, At, Admits, Gives
    <3> QED
      BY <2>1, <2>6, <3>1 DEF StartDirect, Boot, Terminate, UnitExit, TerminateDirect, Leave, TypeOK
  <2>7. job'[h] = job[h]
    BY <2>3, <2>4, <2>5, <2>6 DEF Next
  <2> QED
    BY <1>2, <2>7 DEF Viewed
<1>3. ASSUME NEW p \in Process, Enter(p) \/ LookAround(p),
             lock' = [by |-> p, view |-> [r \in Runs |-> EvidenceOf(r)]]
      PROVE  Viewed'
  <2>1. lock'.by = p
    BY <1>3
  <2>2. CASE Enter(p)
    <3>1. job' = job /\ job[p].at \in Admits \cup Gives
      BY <2>2 DEF Enter, At
    <3>2. ASSUME NEW r \in Runs, job[p].run = r, SourceOf[r] # NoRun
          PROVE  ~lock'.view[SourceOf[r]].held
      <4>1. SourceOf[r] \in Runs
        BY <3>2, RunAssumption
      <4>2. ~Waiting(SourceOf[r])
        BY <3>2, <4>1, HaltedWaitsNot DEF Restarts, Known
      <4>3. lock'.view[SourceOf[r]] = EvidenceOf(SourceOf[r])
        BY <1>3, <4>1
      <4>4. EvidenceOf(SourceOf[r]).held = FALSE
        BY <4>2 DEF EvidenceOf
      <4> QED
        BY <4>3, <4>4
    <3> QED
      BY <2>1, <3>1, <3>2 DEF Viewed
  <2>3. CASE LookAround(p)
    <3>1. job'[p].run = NoRun /\ job'[p].at = "look"
      BY <2>3 DEF LookAround, TypeOK
    <3> QED
      BY <2>1, <3>1, Constants DEF Viewed
  <2> QED
    BY <1>3, <2>2, <2>3
<1> QED
  BY <1>1, <1>2, <1>3, NextLock

\* A run that is spent stays so: it is halted, so its launch begins no more, and
\* a reservation granted to it is none that a launch under way bears.
LEMMA StaysSpent ==
  ASSUME TypeOK, Artifacts, Unstarted, ~Unscoped, Next, NEW s \in Runs, Halted(s), Spent(s)
  PROVE  Spent(s)'
<1>1. OnRun(s)
  BY DEF Artifacts
<1> DEFINE Late == {"request", "phase", "unit"}
\* Nothing is under way: the run may get whatever reservation.
<1>2. ASSUME unit'[s] = "none", \A q \in Process : job'[q].run = s => job'[q].at \notin Late
      PROVE  Spent(s)'
  BY <1>2 DEF Spent
\* The reservation stays, and so does what is under way.
<1>3. ASSUME Live(reservations'[s]) =>
               Live(reservations[s]) /\ reservations'[s].nonce = reservations[s].nonce,
             unit'[s] = "executing" => unit[s] = "executing",
             unit'[s] = "booting" =>
               \/ unit[s] = "booting" /\ workerNonce'[s] = workerNonce[s]
               \/ \E p \in Process :
                    job[p].run = s /\ job[p].at = "unit" /\ workerNonce'[s] = job[p].nonce,
             \A q \in Process : job'[q].run = s /\ job'[q].at \in Late =>
               job[q].run = s /\ job[q].at \in Late /\ job'[q].nonce = job[q].nonce
      PROVE  Spent(s)'
  <2>1. unit'[s] # "executing"
    BY <1>3 DEF Spent
  <2>2. unit'[s] = "booting" =>
          ~(Live(reservations'[s]) /\ reservations'[s].nonce = workerNonce'[s])
    BY <1>3 DEF Spent, Lost
  <2>3. \A q \in Process : job'[q].run = s /\ job'[q].at \in Late =>
          ~(Live(reservations'[s]) /\ reservations'[s].nonce = job'[q].nonce)
    BY <1>3 DEF Spent, Lost
  <2> QED
    BY <2>1, <2>2, <2>3 DEF Spent, Lost
<1>4. ASSUME NEW p \in Process, Admission(p)
      PROVE  Spent(s)'
  <2>1. unit' = unit /\ workerNonce' = workerNonce
    BY <1>4 DEF Admission, Enter, Replay, Grant, Refuse, Look, Release, units
  <2>2. ASSUME NEW q \in Process, job'[q].at \in Late
        PROVE  job'[q] = job[q]
    <3>1. CASE Enter(p)
      BY <3>1 DEF Enter
    <3>2. CASE Refuse(p) \/ Look(p) \/ Release(p)
      BY <2>2, <3>2 DEF Refuse, Look, Release, Leave, Idle, TypeOK
    <3>3. CASE Replay(p) \/ Grant(p)
      <4>1. PICK n : Proceed(p, n) /\ At(p, Admits)
        BY <3>3 DEF Replay, Grant
      <4> QED
        BY <2>2, <4>1, ProceedStep
    <3> QED
      BY <1>4, <3>1, <3>2, <3>3 DEF Admission
  <2>3. CASE Grant(p) /\ job[p].run = s
    <3>1. At(p, Admits) /\ OnJob(p) /\ s # NoRun
      BY <2>3, Constants DEF Grant, Artifacts
    <3>2. unit[s] = "none"
      <4>1. job[p].at = "relaunch" => unit[s] = "none"
        BY <2>3 DEF Unstarted
      <4>2. job[p].at # "relaunch" => record[s] \in {"none", "preparing", "awaiting"}
        BY <2>3, <3>1 DEF OnJob, At, Admits
      <4> QED
        BY <1>1, <4>1, <4>2 DEF OnRun
    <3>3. ASSUME NEW q \in Process, job'[q].run = s, job'[q].at \in Late
          PROVE  FALSE
      <4>1. job[q].run = s /\ job[q].at \in Late
        BY <2>2, <3>3
      <4>2. q # p /\ job[p].at # "stopping"
        BY <3>1, <4>1 DEF At, Admits
      <4> QED
        BY <2>3, <3>1, <4>1, <4>2, Alone
    <3> QED
      BY <1>2, <2>1, <3>2, <3>3
  <2>4. CASE ~(Grant(p) /\ job[p].run = s)
    <3>1. Live(reservations'[s]) =>
            Live(reservations[s]) /\ reservations'[s].nonce = reservations[s].nonce
      <4>1. CASE Enter(p)
        BY <4>1 DEF Enter
      <4>2. CASE Replay(p) \/ Refuse(p) \/ Look(p)
        BY <4>2, Reconciling DEF Replay, Refuse, Look
      <4>3. CASE Release(p)
        <5>1. reservations'[s] = reservations[s] \/ ~Live(reservations'[s])
          BY <4>3 DEF Release, Restate, Live, TypeOK
        <5> QED
          BY <5>1
      <4>4. CASE Grant(p)
        <5>1. reservations'[s] = Reconciled[s] \/ reservations'[s] = NoReservation
          BY <2>4, <4>4 DEF Grant
        <5>2. Holds(p)
          BY <4>4 DEF Grant
        <5> QED
          BY <5>1, <5>2, Reconciling DEF Live
      <4> QED
        BY <1>4, <4>1, <4>2, <4>3, <4>4 DEF Admission
    <3> QED
      BY <1>3, <2>1, <2>2, <3>1
  <2> QED
    BY <2>3, <2>4
<1>5. ASSUME NEW p \in Process, Starting(p)
      PROVE  Spent(s)'
  <2>1. unit' = unit /\ workerNonce' = workerNonce
    BY <1>5 DEF Starting, Publish, PublishFails, Bind, CreateRecord, Own, Prepare, Prepared, units
  <2>2. \A q \in Process : job'[q].at \in Late => job'[q] = job[q]
    BY <1>5 DEF Starting, Publish, PublishFails, Bind, CreateRecord, Own, Prepare, Prepared, Goto,
      TypeOK
  <2>3. Live(reservations'[s]) =>
          Live(reservations[s]) /\ reservations'[s].nonce = reservations[s].nonce
    <3>1. CASE Bind(p)
      <4>1. /\ Transition(job[p].run, job[p].nonce, reservations[job[p].run].state)
            /\ Live(reservations[job[p].run]) /\ job[p].run \in Runs
        BY <3>1, HasRun DEF Bind, Goto, Transition, Fenced
      <4>2. reservations[job[p].run].state \in LiveState
        BY <4>1, RetiredType
      <4> QED
        BY <4>1, <4>2, Transits
    <3>2. CASE ~Bind(p)
      BY <1>5, <3>2 DEF Starting, Publish, PublishFails, CreateRecord, Own, Prepare, Prepared
    <3> QED
      BY <3>1, <3>2
  <2> QED
    BY <1>3, <2>1, <2>2, <2>3
<1>6. ASSUME NEW p \in Process, Launching(p)
      PROVE  Spent(s)'
  <2>1. job[p].run \in Runs /\ OnJob(p) /\ p \notin Direct
    BY <1>6, HasRun DEF Launching, MarkStarting, PriorWork, Overtaken, RequestLaunch, WritePhase,
      StartUnit, StartUnitFails, Started, Goto, At, Artifacts, OnJob
  <2>2. CASE MarkStarting(p)
    <3>1. job[p].run # s
      BY <2>1, <2>2, Constants DEF MarkStarting, Goto, At, OnJob, Halted, Process
    <3>2. Live(reservations'[s]) =>
            Live(reservations[s]) /\ reservations'[s].nonce = reservations[s].nonce
      BY <2>1, <2>2, Transits DEF MarkStarting, LiveState
    <3>3. /\ unit' = unit /\ workerNonce' = workerNonce
          /\ \A q \in Process : job'[q] = job[q] \/ job'[q].run # s
      BY <2>2, <3>1 DEF MarkStarting, Goto, units, TypeOK
    <3> QED
      BY <1>3, <3>2, <3>3
  <2>3. CASE ~MarkStarting(p)
    <3>1. UNCHANGED reservations
      BY <1>6, <2>3 DEF Launching, PriorWork, Overtaken, RequestLaunch, WritePhase, StartUnit,
        StartUnitFails, Started
    <3>2. ASSUME NEW q \in Process, job'[q].at \in Late
          PROVE  job[q].run = job'[q].run /\ job[q].at \in Late /\ job'[q].nonce = job[q].nonce
      BY <1>6, <2>3, <3>2 DEF Launching, PriorWork, Overtaken, RequestLaunch, WritePhase, StartUnit,
        StartUnitFails, Started, Goto, At, Leave, Idle, TypeOK
    <3>3. \/ unit'[s] = unit[s] /\ workerNonce'[s] = workerNonce[s]
          \/ /\ job[p].run = s /\ job[p].at = "unit"
             /\ unit'[s] = "booting" /\ workerNonce'[s] = job[p].nonce
      BY <1>6, <2>1, <2>3 DEF Launching, PriorWork, Overtaken, RequestLaunch, WritePhase, StartUnit,
        StartUnitFails, UnitStarts, Started, Goto, At, units, TypeOK
    <3> QED
      BY <1>3, <3>1, <3>2, <3>3
  <2> QED
    BY <2>2, <2>3
<1>7. ASSUME NEW p \in Process,
             \/ Stopped(p) \/ LookAround(p) \/ Fail(p) \/ Crash(p)
             \/ \E r \in Runs : StartRun(p, r) \/ Retry(p, r) \/ Answer(p, r) \/ Stop(p, r)
      PROVE  Spent(s)'
  <2>1. unit' = unit /\ workerNonce' = workerNonce /\ reservations' = reservations
    BY <1>7 DEF Stopped, LookAround, Fail, Crash, StartRun, Retry, Answer, Stop, units
  <2>2. \A q \in Process : job'[q].at \in Late => job'[q] = job[q]
    BY <1>7 DEF Stopped, LookAround, Fail, Crash, StartRun, Retry, Answer, Stop, Leave, Idle, TypeOK
  <2> QED
    BY <1>3, <2>1, <2>2
<1>8. ASSUME NEW r \in Runs,
             StartDirect(r) \/ Boot(r) \/ Terminate(r) \/ UnitExit(r) \/ TerminateDirect(r)
      PROVE  Spent(s)'
  <2>1. ~(Boot(r) /\ r = s)
    BY DEF Boot, Transition, Fenced, Spent, Lost
  <2>2. /\ workerNonce' = workerNonce
        /\ unit'[s] \in {"executing", "booting"} => unit'[s] = unit[s]
    BY <1>8, <2>1 DEF StartDirect, Boot, Terminate, UnitExit, TerminateDirect, units, TypeOK
  <2>3. \A q \in Process : job'[q].at \in Late => job'[q] = job[q]
    BY <1>8 DEF StartDirect, Boot, Terminate, UnitExit, TerminateDirect, Leave, Idle, TypeOK
  <2>4. Live(reservations'[s]) =>
          Live(reservations[s]) /\ reservations'[s].nonce = reservations[s].nonce
    <3>1. CASE Boot(r)
      BY <3>1, Transits DEF Boot, LiveState
    <3>2. CASE ~Boot(r)
      BY <1>8, <3>2 DEF StartDirect, Terminate, UnitExit, TerminateDirect
    <3> QED
      BY <3>1, <3>2
  <2> QED
    BY <1>3, <2>2, <2>3, <2>4
<1> QED
  BY <1>4, <1>5, <1>6, <1>7, <1>8 DEF Next

\* So is a run that is being admitted.
LEMMA AdmittedSpent ==
  ASSUME TypeOK, Artifacts, Unstarted, NEW p \in Process, At(p, Admits)
  PROVE  Spent(job[p].run)
<1>1. job[p].run \in Runs /\ OnJob(p)
  BY HasRun DEF Admits, Artifacts
<1>2. OnRun(job[p].run) /\ job[p].run # NoRun /\ job[p].at # "stopping"
  BY <1>1, Constants DEF Artifacts, At, Admits
<1>3. unit[job[p].run] = "none"
  <2>1. job[p].at = "relaunch" => unit[job[p].run] = "none"
    BY DEF Unstarted
  <2>2. job[p].at # "relaunch" => record[job[p].run] \in {"none", "preparing", "awaiting"}
    BY <1>1 DEF OnJob, At, Admits
  <2> QED
    BY <1>2, <2>1, <2>2 DEF OnRun
<1>4. ASSUME NEW q \in Process, job[q].run = job[p].run, job[q].at \in {"request", "phase", "unit"}
      PROVE  FALSE
  <2>1. q # p
    BY <1>4 DEF At, Admits
  <2> QED
    BY <1>2, <1>4, <2>1, Alone
<1> QED
  BY <1>3, <1>4 DEF Spent

\* A manifest comes of a publication, and a publication of a reservation.
LEMMA NewlyAdmitted ==
  ASSUME TypeOK, Artifacts, Next, NEW r \in Runs, Admitted(r)', ~Admitted(r)
  PROVE  r \in Slots'
<1>1. /\ r \notin manifest /\ ~Live(reservations[r])
      /\ \A p \in Process : job[p].run = r => job[p].at # "publish"
  BY DEF Admitted, Slots
<1>2. r \notin manifest'
  <2>1. ASSUME NEW p \in Process, Admission(p) \/ Starting(p) \/ Launching(p)
        PROVE  r \notin manifest'
    BY <1>1, <2>1 DEF Admission, Enter, Replay, Grant, Refuse, Look, Release, Starting, Publish,
      PublishFails, Bind, CreateRecord, Own, Prepare, Prepared, Launching, MarkStarting, PriorWork,
      Overtaken,
      RequestLaunch, WritePhase, StartUnit, StartUnitFails, Started, artifacts, Goto, At
  <2>2. ASSUME NEW p \in Process,
               \/ Stopped(p) \/ LookAround(p) \/ Fail(p) \/ Crash(p)
               \/ \E s \in Runs : StartRun(p, s) \/ Retry(p, s) \/ Answer(p, s) \/ Stop(p, s)
        PROVE  r \notin manifest'
    BY <1>1, <2>2 DEF Stopped, LookAround, Fail, Crash, StartRun, Retry, Answer, Stop, artifacts
  <2>3. ASSUME NEW s \in Runs,
               StartDirect(s) \/ Boot(s) \/ Terminate(s) \/ UnitExit(s) \/ TerminateDirect(s)
        PROVE  r \notin manifest'
    BY <1>1, <2>3 DEF StartDirect, Boot, Terminate, UnitExit, TerminateDirect, artifacts
  <2> QED
    BY <2>1, <2>2, <2>3 DEF Next
<1>3. SUFFICES ASSUME NEW q \in Process, job'[q].run = r, job'[q].at = "publish"
               PROVE  Live(reservations'[r])
  BY <1>2 DEF Admitted, Slots
<1>4. job'[q] # job[q]
  BY <1>1, <1>3
<1>5. ASSUME NEW p \in Process, Admission(p)
      PROVE  Live(reservations'[r])
  <2>1. CASE Enter(p)
    BY <1>4, <2>1 DEF Enter
  <2>2. CASE Refuse(p) \/ Look(p) \/ Release(p)
    BY <1>3, <1>4, <2>2 DEF Refuse, Look, Release, Leave, Idle, TypeOK
  <2>3. CASE Replay(p) \/ Grant(p)
    <3>1. PICK n : Proceed(p, n) /\ At(p, Admits)
      BY <2>3 DEF Replay, Grant
    <3>2. job[p].run = r
      BY <1>3, <1>4, <3>1, ProceedStep
    <3>3. CASE Replay(p)
      BY <3>2, <3>3 DEF Replay
    <3>4. CASE Grant(p)
      BY <3>2, <3>4, GrantNew
    <3> QED
      BY <2>3, <3>3, <3>4
  <2> QED
    BY <1>5, <2>1, <2>2, <2>3 DEF Admission
<1>6. ASSUME NEW p \in Process, Starting(p) \/ Launching(p)
      PROVE  FALSE
  BY <1>3, <1>4, <1>6 DEF Starting, Publish, PublishFails, Bind, CreateRecord, Own, Prepare,
    Prepared,
    Launching, MarkStarting, PriorWork, Overtaken, RequestLaunch, WritePhase, StartUnit,
    StartUnitFails, Started, Goto, Leave, Idle, TypeOK
<1>7. ASSUME NEW p \in Process,
             \/ Stopped(p) \/ LookAround(p) \/ Fail(p) \/ Crash(p)
             \/ \E s \in Runs : StartRun(p, s) \/ Retry(p, s) \/ Answer(p, s) \/ Stop(p, s)
      PROVE  FALSE
  BY <1>3, <1>4, <1>7 DEF Stopped, LookAround, Fail, Crash, StartRun, Retry, Answer, Stop, Leave,
    Idle,
    TypeOK
<1>8. ASSUME NEW s \in Runs,
             StartDirect(s) \/ Boot(s) \/ Terminate(s) \/ UnitExit(s) \/ TerminateDirect(s)
      PROVE  FALSE
  BY <1>3, <1>4, <1>8 DEF StartDirect, Boot, Terminate, UnitExit, TerminateDirect, Leave, Idle,
    TypeOK
<1> QED
  BY <1>5, <1>6, <1>7, <1>8 DEF Next

LEMMA NextSucceeded ==
  ASSUME TypeOK, Artifacts, Seen, Generations, ~Unscoped, Next
  PROVE  Succeeded'
<1>1. SUFFICES ASSUME NEW r \in Runs, Admitted(r)', SourceOf[r] # NoRun
               PROVE  Spent(SourceOf[r])'
  BY DEF Succeeded
<1> DEFINE s == SourceOf[r]
<1>2. r \in Runs /\ s \in Runs
  BY <1>1, RunAssumption DEF Slots
<1>3. CASE Admitted(r)
  <2>1. Spent(s)
    BY <1>1, <1>3 DEF Generations, Succeeded
  <2>2. Halted(s)
    BY <1>1, <1>2, <1>3 DEF Generations, Restarts, Known, Admitted
  <2> QED
    BY <1>2, <2>1, <2>2, StaysSpent DEF Generations
<1>4. CASE ~Admitted(r)
  <2>0. r \in Slots' /\ r \notin Slots
    BY <1>1, <1>4, NewlyAdmitted DEF Admitted
  <2>1. PICK p \in Process : Grant(p) /\ Holds(p) /\ job[p].run = r
    <3>1. PICK p \in Process :
            /\ Grant(p) /\ Holds(p) /\ job[p].run \in Runs
            /\ Slots' \subseteq {job[p].run} \cup {t \in Runs : Live(Reconciled[t])}
      BY <2>0, NextSlots
    <3>2. ~Live(Reconciled[r])
      BY <1>2, <2>0, <3>1, Reconciling DEF Slots
    <3> QED
      BY <2>0, <3>1, <3>2
  <2>2. At(p, Admits) /\ lock # Unlocked /\ lock.by = p
    BY <2>1 DEF Grant, Holds
  <2>3. Halted(s)
    BY <1>1, <1>2, <2>1 DEF Generations, Restarts, Known
  <2>4. CASE s = r
    BY <1>2, <2>1, <2>2, <2>3, <2>4, AdmittedSpent, StaysSpent DEF Generations
  <2>5. CASE s # r
    <3>1. lock.view[s].state = "inactive" /\ ~lock.view[s].held
      BY <1>1, <1>2, <2>1, <2>2 DEF Grant, Admissible, PredecessorInactive, Generations, Viewed
    <3>2. unit[s] # "executing"
      BY <1>2, <2>2, <3>1 DEF Seen, Busy
    <3>3. ~Live(Reconciled[s])
      <4>1. Reconciled[s] = Reconcile(reservations[s], lock.view[s])
        BY <1>2 DEF Reconciled
      <4> QED
        BY <3>1, <4>1 DEF Reconcile, Restate, Live
    <3>4. ~Live(reservations'[s]) /\ unit' = unit
      BY <1>2, <2>1, <2>5, <3>3 DEF Grant, Live, units
    <3> HIDE DEF s
    <3>5. Spent(s)'
      BY <3>2, <3>4 DEF Spent, Lost
    <3> QED
      BY <3>5 DEF s
  <2> QED
    BY <2>4, <2>5
<1> QED
  BY <1>3, <1>4

LEMMA InitGenerations == Init => Generations
<1>1. ASSUME Init
      PROVE  Unstarted /\ Ended /\ Viewed
  BY <1>1 DEF Init, Idle, Unstarted, Ended, Viewed
<1>2. ASSUME Init, NEW r \in Runs
      PROVE  ~Known(r) /\ ~Admitted(r)
  BY <1>2, Constants DEF Init, Idle, Known, Admitted, Slots, Live
<1> QED
  BY <1>1, <1>2 DEF Generations, Restarts, Succeeded

\* What is under way of a restarted run has lost its reservation, whatever was
\* stopped, retried or launched when its successor was admitted.
THEOREM Superseding == Spec => [](~Unscoped => Generations)
<1>1. ASSUME Inv, ~Unscoped, Generations, Next
      PROVE  Generations'
  BY <1>1, NextUnstarted, NextEnded, NextRestarts, NextViewed, NextSucceeded DEF Inv, Generations
<1>2. ASSUME Generations, UNCHANGED vars
      PROVE  Generations'
  <2> USE DEF vars, artifacts, units, counts
  <2>1. Unstarted' /\ Ended' /\ Viewed'
    BY <1>2 DEF Generations, Unstarted, Ended, Viewed
  <2>2. \A r : /\ Known(r)' = Known(r) /\ Admitted(r)' = Admitted(r)
               /\ Halted(r)' = Halted(r) /\ Spent(r)' = Spent(r)
    BY <1>2 DEF Slots, Known, Admitted, Halted, Spent, Lost
  <2>3. Restarts' /\ Succeeded'
    BY <1>2, <2>2 DEF Generations, Restarts, Succeeded
  <2> QED
    BY <2>1, <2>3 DEF Generations
<1>3. Inv /\ (~Unscoped => Generations) /\ [Next]_vars => (~Unscoped => Generations)'
  BY <1>1, <1>2
<1>4. Init => (~Unscoped => Generations)
  BY InitGenerations
<1> QED
  BY <1>3, <1>4, Invariant, PTL DEF Spec

\* Once a run has its manifest the run it restarts is never at work again, and
\* two successors of one run never execute at once.
THEOREM OneExecutes == Spec => [](~Unscoped => OneGeneration)
<1>1. ASSUME Inv, Generations, ~Unscoped, NEW r \in manifest, SourceOf[r] # NoRun
      PROVE  ~Working(SourceOf[r])
  <2> DEFINE s == SourceOf[r]
  <2>1. r \in Runs /\ s \in Runs
    BY <1>1, RunAssumption DEF Inv, TypeOK
  <2>2. unit[s] # "executing" /\ Halted(s)
    BY <1>1, <2>1 DEF Generations, Succeeded, Admitted, Spent, Restarts, Known
  <2>3. OnRun(s)
    BY <1>1, <2>1 DEF Inv, Artifacts
  <2> HIDE DEF s
  <2>4. s \in Direct => s \notin up
    BY <1>1, <2>2, <2>3 DEF OnRun, Halted
  <2>5. ~Executing(s)
    BY <2>2, <2>4 DEF Executing, At
  <2>6. ASSUME Preparing(s)
        PROVE  Over(s)
    <3>1. preparer[s] # NoProcess
      BY <1>1, <2>6, RunAssumption DEF Inv, TypeOK, Preparing, Process
    <3>2. record[s] = "preparing" /\ s \notin Direct
      BY <2>3, <3>1 DEF OnRun
    <3>3. phase[s] \notin {"manifest_only", "launch_requested", "unit_started"}
      BY <1>1, <2>1, <2>2, <3>2 DEF Halted, Generations, Ended
    <3> QED
      BY <1>1, <2>1, <3>3 DEF Inv, TypeOK, Over
  <2>7. ~Working(s)
    BY <2>5, <2>6 DEF Working
  <2> QED
    BY <2>7 DEF s
<1>2. ASSUME Inv, ~Unscoped, NEW r \in Runs, Executing(r), SourceOf[r] # NoRun,
             NEW s \in Runs \ {r}, SourceOf[s] = SourceOf[r]
      PROVE  ~Executing(s)
  <2>1. s \notin Slots
    BY <1>2, WorkingSlot DEF Working, Inv, Apart
  <2> QED
    BY <1>2, <2>1, WorkingSlot DEF Working
<1>3. Inv /\ (~Unscoped => Generations) => (~Unscoped => OneGeneration)
  BY <1>1, <1>2 DEF OneGeneration
<1> QED
  BY <1>3, Invariant, Superseding, PTL
=============================================================================
