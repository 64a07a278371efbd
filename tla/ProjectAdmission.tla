--------------------------- MODULE ProjectAdmission ---------------------------
(***************************************************************************)
(* Project-scoped launch admission: the reservation journal of             *)
(* aflow/project_admission.py and everybody who uses it - daemons that     *)
(* start, retry, answer, launch and stop runs (aflow/daemon.py), their     *)
(* workflow units, and direct controllers (aflow/workflow.py).             *)
(*                                                                         *)
(* An operation that weighs evidence takes the lock and reads the run      *)
(* artifacts (Enter), and decides on that view in a later step: artifacts  *)
(* are written without the lock meanwhile.  A transition reads no evidence *)
(* and is one action.  Left out: linked worktrees, legacy runs, direct     *)
(* resumes, dependencies between plans, pending publications.              *)
(***************************************************************************)
EXTENDS Naturals, FiniteSets

CONSTANTS
  Daemons,          \* daemon processes; an identity is never reused
  Runs,             \* run ids
  Direct,           \* runs of direct controllers, which bear the same name
  Plans, PlanOf,    \* the plan of each run
  SourceOf,         \* the predecessor a run restarts, or NoRun
  Limit,            \* max_concurrent_implementations
  MaxReservations,  \* MAX_RESERVATIONS
  MaxNonces,        \* bound: reservations granted
  MaxFaults,        \* bound: failed operations, crashes and owner stops
  Lookers,          \* bound: the daemons that make passes for their own sake
  Unscoped,         \* owner stops may acknowledge unscoped launch manifests
  NoRun, NoProcess, NoReservation, Unlocked

Process == Daemons \cup Direct

ASSUME RunAssumption ==
  /\ Direct \subseteq Runs /\ Daemons \cap Runs = {} /\ NoRun \notin Runs
  /\ IsFiniteSet(Runs) /\ Lookers \subseteq Daemons
  /\ NoProcess \notin Daemons \cup Runs
  /\ PlanOf \in [Runs -> Plans]
  /\ SourceOf \in [Runs -> Runs \cup {NoRun}]
  /\ \A r \in Direct : SourceOf[r] = NoRun

ASSUME LimitAssumption ==
  /\ Limit \in Nat /\ MaxReservations \in Nat /\ MaxNonces \in Nat /\ MaxFaults \in Nat
  /\ Unscoped \in BOOLEAN

LiveState == {"reserved", "starting", "active", "uncertain"}

Reservation == [nonce : Nat, state : LiveState \cup {"released"}, retained : BOOLEAN,
                bound : BOOLEAN, owner : Process]

\* What the artifacts say of a run; `held' is claim_retained.
Evidence == [state : {"absent", "inactive", "starting", "active", "uncertain"}, held : BOOLEAN]

ASSUME NullAssumption ==
  /\ NoReservation \notin Reservation
  /\ Unlocked \notin [by : Process, view : [Runs -> Evidence]]

Admits == {"admit", "readmit", "answer", "relaunch"}
Gives == {"giveback", "drop", "hold"}

Job == [run : Runs \cup {NoRun}, nonce : Nat,
        at : {"idle", "publish", "bind", "record", "own", "prepare", "ask", "dispatch",
              "consume", "request", "phase", "unit", "started", "stopping", "look",
              "execute"} \cup Admits \cup Gives]

VARIABLES
  reservations,  \* the journal, per run
  lock,          \* holder of the admission lock and the evidence it read
  manifest,      \* runs with a launch manifest
  record,        \* state of the startup record
  preparer,      \* preparation_owner of the startup record
  phase,         \* launch phase marker
  outcome,       \* status in the controller's run.json
  unit,          \* the workflow unit and its worker
  workerNonce,   \* the reservation nonce in the unit's environment
  receipt,       \* the unit's receipts prove its worker inactive
  up,            \* processes that run
  job,           \* per process: the operation in progress
  minted,        \* nonces minted so far
  faults         \* failed operations, crashes and owner stops so far

artifacts == <<manifest, record, preparer, phase, outcome>>
units == <<unit, workerNonce, receipt>>
counts == <<minted, faults>>
vars == <<reservations, lock, artifacts, units, up, job, counts>>

Idle == [run |-> NoRun, at |-> "idle", nonce |-> 0]

Init ==
  /\ reservations = [r \in Runs |-> NoReservation]
  /\ lock = Unlocked
  /\ manifest = {}
  /\ record = [r \in Runs |-> "none"]
  /\ preparer = [r \in Runs |-> NoProcess]
  /\ phase = [r \in Runs |-> "manifest_only"]
  /\ outcome = [r \in Runs |-> "none"]
  /\ unit = [r \in Runs |-> "none"]
  /\ workerNonce = [r \in Runs |-> 0]
  /\ receipt = [r \in Runs |-> FALSE]
  /\ up = Process
  /\ job = [p \in Process |-> Idle]
  /\ minted = 0 /\ faults = 0

-----------------------------------------------------------------------------
(* Evidence: RunRepository.get_run_status and _classify_status *)

UnitActive(r) == unit[r] \in {"booting", "executing", "ending"}
Preparing(r) == preparer[r] \in up

\* A startup question is open.
Waiting(r) == record[r] = "awaiting" /\ phase[r] # "owner_stopped" /\ outcome[r] = "none"

\* Terminal controller record, owner stop, failed preparation, exited worker.
Over(r) ==
  \/ outcome[r] = "terminal" \/ phase[r] = "owner_stopped" \/ receipt[r]
  \/ record[r] = "failed_preparation" /\ outcome[r] = "none"

\* A run with a manifest that is merely reserved reads "uncertain":
\* project_activity has turned its status into needs_attention.
EvidenceOf(r) ==
  [state |->
     IF r \notin manifest THEN "absent"
     ELSE IF UnitActive(r) \/ Preparing(r) THEN "active"
     ELSE IF Waiting(r) \/ Over(r) THEN "inactive"
     ELSE IF phase[r] = "launch_requested" \/ record[r] = "preparing" THEN "starting"
     ELSE "uncertain",
   held |-> r \in manifest /\ ~UnitActive(r) /\ ~Preparing(r) /\ Waiting(r)]

-----------------------------------------------------------------------------
(* The decisions taken on a view *)

Live(k) == k # NoReservation /\ k.state # "released"

\* What a live reservation becomes.
Restate(k, state, retained, bound) ==
  [nonce |-> k.nonce, state |-> state, retained |-> retained, bound |-> bound,
   owner |-> k.owner]

\* Faulty variant: the journal takes over whatever the evidence says.
ReconcileCopies(k, e) ==
  IF ~Live(k) THEN k ELSE Restate(k, e.state, k.retained, k.bound)

\* Faulty variant: a reservation goes with its owner, whatever its run does.
ReconcileByOwner(k, e) ==
  IF Live(k) /\ k.owner \notin up THEN Restate(k, "released", k.retained, k.bound) ELSE k

\* _reconcile_locked, for one run.  A claim reacquired to answer a held
\* question is kept while its owner lives; an unbound reservation goes with
\* its owner; inconclusive evidence keeps the slot.
Reconcile(k, e) ==
  IF ~Live(k) THEN k
  ELSE IF e.state = "inactive" THEN
    IF k.state = "reserved" /\ e.held /\ k.retained /\ k.owner \in up
    THEN k
    ELSE Restate(k, "released", k.retained \/ e.held, k.bound)
  ELSE IF e.state = "absent" /\ ~k.bound /\ k.owner \notin up THEN
    Restate(k, "released", k.retained, k.bound)
  ELSE Restate(k, IF e.state # "absent" THEN e.state
                  ELSE IF k.state = "reserved" THEN "reserved" ELSE "uncertain",
               k.retained, k.bound)

Reconciled == [r \in Runs |-> Reconcile(reservations[r], lock.view[r])]

\* _require_inactive_predecessor_locked
PredecessorInactive(r) ==
  SourceOf[r] # NoRun => lock.view[SourceOf[r]].state = "inactive"

\* A run the artifacts know of and do not prove inactive.
Unresolved(e) == e.state \notin {"absent", "inactive"} \/ e.held

\* _require_unique_successor_locked
UniqueSuccessor(r) ==
  \A s \in Runs \ {r} : SourceOf[r] # NoRun /\ SourceOf[s] = SourceOf[r] =>
    LET k == Reconciled[s]
        e == lock.view[s]
    IN  /\ ~Unresolved(e)
        /\ k # NoReservation =>
             ~Live(k) /\ ~k.retained /\ ~(k.bound /\ e.state = "absent")

\* Faulty variant: a released reservation frees the plan, whatever its run.
UnclaimedByJournal(r) ==
  \A s \in Runs \ {r} : PlanOf[s] = PlanOf[r] => ~Live(Reconciled[s])

\* _require_unique_plan_claim_locked
UnclaimedPlan(r) ==
  \A s \in Runs \ {r} : PlanOf[s] = PlanOf[r] =>
    LET k == Reconciled[s]
        e == lock.view[s]
    IN  /\ ~Unresolved(e)
        /\ k # NoReservation =>
             ~Live(k) /\ ~((k.bound \/ k.retained) /\ e.state = "absent")

\* Faulty variant: a reservation without artifacts does not count.
OccupiedByEvidence(r) ==
  {s \in Runs \ {r} : lock.view[s].state \in {"starting", "active", "uncertain"}}

\* _snapshot_locked: live reservations, and unmanaged runs with live evidence.
Occupied(r) ==
  {s \in Runs \ {r} :
     Live(Reconciled[s]) \/ lock.view[s].state \in {"starting", "active", "uncertain"}}

\* _compact_released: disposable history goes when there is no room for r.
Compacted(r) ==
  LET entries == {s \in Runs : Reconciled[s] # NoReservation}
      slots == IF r \in entries THEN 0 ELSE 1
  IN  IF Cardinality(entries) + slots <= MaxReservations THEN entries
      ELSE {s \in entries : Live(Reconciled[s]) \/ Reconciled[s].retained \/ s = r}

HasRoom(r) == Cardinality(Compacted(r) \cup {r}) <= MaxReservations

Admissible(r) ==
  /\ PredecessorInactive(r)
  /\ UniqueSuccessor(r) /\ UnclaimedPlan(r) /\ Cardinality(Occupied(r)) < Limit
  /\ HasRoom(r)

-----------------------------------------------------------------------------
(* Operations under the lock *)

Holds(p) == lock # Unlocked /\ lock.by = p

At(p, places) == p \in up /\ job[p].at \in places

Goto(p, from, to) ==
  /\ At(p, from)
  /\ job' = [job EXCEPT ![p] = [run |-> job[p].run, nonce |-> job[p].nonce, at |-> to]]

\* The operation ends, with or without an error; a direct controller exits.
Leave(p) ==
  /\ job' = [job EXCEPT ![p] = Idle]
  /\ up' = up \ ({p} \cap Direct)

\* Nobody holds the run's idempotency or startup-record lock.
Free(r) == \A p \in up : job[p].run = r => job[p].at = "stopping"

\* The lock is taken and the evidence read.
Enter(p) ==
  /\ At(p, Admits \cup Gives) /\ lock = Unlocked
  /\ lock' = [by |-> p, view |-> [r \in Runs |-> EvidenceOf(r)]]
  /\ UNCHANGED <<reservations, artifacts, units, up, job, counts>>

Proceed(p, nonce) ==
  job' = [job EXCEPT ![p] =
    [run |-> job[p].run, nonce |-> nonce,
     at |-> CASE job[p].at = "admit" -> "publish"
              [] job[p].at = "readmit" -> "own"
              [] job[p].at = "answer" -> "ask"
              [] job[p].at = "relaunch" -> "dispatch"]]

\* ensure, or acquire: the run's live reservation is replayed ...
Replay(p) ==
  LET r == job[p].run
  IN
  /\ Holds(p) /\ At(p, Admits)
  /\ PredecessorInactive(r) /\ Live(Reconciled[r])
  /\ Proceed(p, Reconciled[r].nonce)
  /\ reservations' = Reconciled
  /\ lock' = Unlocked
  /\ UNCHANGED <<artifacts, units, up, counts>>

\* ... or a new one is granted, which keeps the old one's plan claim ...
Grant(p) ==
  LET r == job[p].run
      new == [nonce |-> minted + 1, state |-> "reserved",
              retained |-> IF Reconciled[r] # NoReservation
                           THEN Reconciled[r].retained ELSE lock.view[r].held,
              bound |-> lock.view[r].state # "absent", owner |-> p]
  IN
  /\ Holds(p) /\ At(p, Admits) /\ minted < MaxNonces
  /\ ~Live(Reconciled[r]) /\ Admissible(r)
  /\ Proceed(p, minted + 1)
  /\ minted' = minted + 1
  /\ reservations' = [s \in Runs |->
       IF s = r THEN new ELSE IF s \in Compacted(r) THEN Reconciled[s] ELSE NoReservation]
  /\ lock' = Unlocked
  /\ UNCHANGED <<artifacts, units, up, faults>>

\* ... or the request is refused: conflict, capacity, full history.
Refuse(p) ==
  LET r == job[p].run
  IN
  /\ Holds(p) /\ At(p, Admits)
  /\ IF Live(Reconciled[r]) THEN ~PredecessorInactive(r) ELSE ~Admissible(r)
  /\ Leave(p)
  /\ reservations' = Reconciled
  /\ lock' = Unlocked
  /\ UNCHANGED <<artifacts, units, counts>>

\* reconcile, snapshot, queue_view: a pass for its own sake.
Look(p) ==
  /\ Holds(p) /\ At(p, {"look"})
  /\ Leave(p)
  /\ reservations' = Reconciled
  /\ lock' = Unlocked
  /\ UNCHANGED <<artifacts, units, counts>>

\* release: refused while ownership is live or unknown.
MayRelease(k, e) ==
  IF k.bound THEN e.state = "inactive" ELSE e.state \in {"absent", "inactive"}

\* The caller swallows a refusal, and a failure to write.
Release(p) ==
  LET r == job[p].run
      k == reservations[r]
  IN
  /\ Holds(p) /\ At(p, Gives)
  /\ \/ /\ Live(k) /\ k.nonce = job[p].nonce /\ MayRelease(k, lock.view[r])
        /\ reservations' = [reservations EXCEPT ![r] =
             Restate(k, "released", k.retained \/ job[p].at = "hold", k.bound)]
     \/ UNCHANGED reservations
  /\ Leave(p)
  /\ lock' = Unlocked
  /\ UNCHANGED <<artifacts, units, counts>>

\* Faulty variant of Fenced: the nonce is enough.
NonceOnly(r, nonce) == reservations[r] # NoReservation /\ reservations[r].nonce = nonce

\* _require_nonce, and no transition of a released reservation.
Fenced(r, nonce) ==
  Live(reservations[r]) /\ reservations[r].nonce = nonce

\* bind, mark_starting, consume (_transition).
Transition(r, nonce, state) ==
  /\ lock = Unlocked /\ Fenced(r, nonce)
  /\ reservations' = [reservations EXCEPT ![r] =
       Restate(reservations[r], state, reservations[r].retained, TRUE)]
  /\ UNCHANGED lock

-----------------------------------------------------------------------------
(* A start request: DaemonService.start, and a direct controller *)

\* _validate_restart_source, without its own look at other successors: the
\* admission decides that.
Restartable(s) ==
  /\ ~UnitActive(s)
  /\ phase[s] = "owner_stopped" \/ outcome[s] = "terminal" \/ record[s] = "failed_preparation"

StartRun(p, r) ==
  /\ p \in Daemons \cap up /\ job[p] = Idle
  /\ r \in Runs \ (Direct \cup manifest) /\ reservations[r] = NoReservation /\ Free(r)
  /\ SourceOf[r] # NoRun => SourceOf[r] \in manifest /\ Restartable(SourceOf[r])
  /\ job' = [job EXCEPT ![p] = [run |-> r, nonce |-> 0, at |-> "admit"]]
  /\ UNCHANGED <<reservations, lock, artifacts, units, up, counts>>

StartDirect(r) ==
  /\ r \in Direct \cap up /\ job[r] = Idle
  /\ job' = [job EXCEPT ![r] = [run |-> r, nonce |-> 0, at |-> "admit"]]
  /\ UNCHANGED <<reservations, lock, artifacts, units, up, counts>>

\* create_launch_manifest: the immutable identity of the run.
Publish(p) ==
  /\ Goto(p, {"publish"}, "bind")
  /\ manifest' = manifest \cup {job[p].run}
  /\ UNCHANGED <<reservations, lock, record, preparer, phase, outcome, units, up, counts>>

\* It failed, before or after the manifest was written.
PublishFails(p) ==
  /\ faults < MaxFaults /\ faults' = faults + 1
  /\ Goto(p, {"publish"}, "giveback")
  /\ manifest' \in {manifest, manifest \cup {job[p].run}}
  /\ UNCHANGED <<reservations, lock, record, preparer, phase, outcome, units, up, minted>>

\* A bound direct controller enters the workflow.
Bind(p) ==
  LET r == job[p].run
  IN
  /\ Goto(p, {"bind"}, IF p \in Direct THEN "execute" ELSE "record")
  /\ Transition(r, job[p].nonce, reservations[r].state)
  /\ outcome' = IF p \in Direct THEN [outcome EXCEPT ![r] = "running"] ELSE outcome
  /\ UNCHANGED <<manifest, record, preparer, phase, units, up, counts>>

CreateRecord(p) ==
  /\ Goto(p, {"record"}, "readmit")
  /\ record' = [record EXCEPT ![job[p].run] = "preparing"]
  /\ UNCHANGED <<reservations, lock, manifest, preparer, phase, outcome, units, up, counts>>

-----------------------------------------------------------------------------
(* Preparation: _advance_start_preparation_locked, answer_startup *)

Own(p) ==
  /\ Goto(p, {"own"}, "prepare")
  /\ preparer' = [preparer EXCEPT ![job[p].run] = p]
  /\ UNCHANGED <<reservations, lock, manifest, record, phase, outcome, units, up, counts>>

\* prepare_startup fails, asks a question, or prepares the launch.
Prepared(p, state, to) ==
  /\ Goto(p, {"prepare", "ask"}, to)
  /\ record' = [record EXCEPT ![job[p].run] = state]
  /\ preparer' = [preparer EXCEPT ![job[p].run] = NoProcess]
  /\ UNCHANGED <<reservations, lock, manifest, phase, outcome, units, up, counts>>

Prepare(p) ==
  \/ Prepared(p, "failed_preparation", "drop")
  \/ Prepared(p, "awaiting", "hold")
  \/ Prepared(p, "prepared", "relaunch")

\* A request replayed under its idempotency key resumes where the artifacts are.
Retry(p, r) ==
  /\ p \in Daemons \cap up /\ job[p] = Idle
  /\ r \in manifest \ Direct /\ Free(r) /\ phase[r] = "manifest_only"
  /\ \E at \in {"record", "readmit", "relaunch"} :
       /\ at = "record" => record[r] = "none"
       /\ at = "readmit" => record[r] = "preparing"
       /\ at = "relaunch" => record[r] \in {"prepared", "launch_requested"}
       /\ job' = [job EXCEPT ![p] = [run |-> r, nonce |-> 0, at |-> at]]
  /\ UNCHANGED <<reservations, lock, artifacts, units, up, counts>>

Answer(p, r) ==
  /\ p \in Daemons \cap up /\ job[p] = Idle
  /\ r \in Runs /\ Free(r) /\ record[r] = "awaiting" /\ phase[r] # "owner_stopped"
  /\ job' = [job EXCEPT ![p] = [run |-> r, nonce |-> 0, at |-> "answer"]]
  /\ UNCHANGED <<reservations, lock, artifacts, units, up, counts>>

-----------------------------------------------------------------------------
(* Launch: _launch_prepared_locked *)

\* The unit is not there yet and its phase is replayable: mark_starting.
MarkStarting(p) ==
  LET r == job[p].run
  IN
  /\ Goto(p, {"dispatch"}, "request")
  /\ ~UnitActive(r) /\ phase[r] = "manifest_only"
  /\ Transition(r, job[p].nonce, "starting")
  /\ UNCHANGED <<artifacts, units, up, counts>>

\* require_safe_fresh_worktree found prior work.
PriorWork(p) ==
  LET r == job[p].run
  IN
  /\ Goto(p, {"dispatch"}, "drop")
  /\ ~UnitActive(r) /\ phase[r] = "manifest_only"
  /\ record' = [record EXCEPT ![r] = "failed_preparation"]
  /\ UNCHANGED <<reservations, lock, manifest, preparer, phase, outcome, units, up, counts>>

\* The phase is not replayable any more, after an owner stop: the request is
\* answered with what there is, and the reservation stays.
Overtaken(p) ==
  /\ At(p, {"dispatch"}) /\ phase[job[p].run] # "manifest_only"
  /\ Leave(p)
  /\ UNCHANGED <<reservations, lock, artifacts, units, counts>>

RequestLaunch(p) ==
  /\ Goto(p, {"request"}, "phase")
  /\ record' = [record EXCEPT ![job[p].run] = "launch_requested"]
  /\ UNCHANGED <<reservations, lock, manifest, preparer, phase, outcome, units, up, counts>>

WritePhase(p) ==
  /\ Goto(p, {"phase"}, "unit")
  /\ phase' = [phase EXCEPT ![job[p].run] = "launch_requested"]
  /\ UNCHANGED <<reservations, lock, manifest, record, preparer, outcome, units, up, counts>>

\* units.start, with the nonce in the unit's environment.
UnitStarts(r, nonce) ==
  /\ unit[r] = "none"
  /\ unit' = [unit EXCEPT ![r] = "booting"]
  /\ workerNonce' = [workerNonce EXCEPT ![r] = nonce]
  /\ UNCHANGED receipt

StartUnit(p) ==
  /\ Goto(p, {"unit"}, "started")
  /\ UnitStarts(job[p].run, job[p].nonce)
  /\ UNCHANGED <<reservations, lock, artifacts, up, counts>>

\* The start failed, or was not proven although the unit runs.
StartUnitFails(p) ==
  /\ At(p, {"unit"})
  /\ UnitStarts(job[p].run, job[p].nonce) \/ UNCHANGED units
  /\ record' = [record EXCEPT ![job[p].run] = "failed_launch"]
  /\ Leave(p)
  /\ UNCHANGED <<reservations, lock, manifest, preparer, phase, outcome, counts>>

Started(p) ==
  /\ At(p, {"started"})
  /\ phase' = [phase EXCEPT ![job[p].run] = "unit_started"]
  /\ record' = [record EXCEPT ![job[p].run] = "unit_started"]
  /\ Leave(p)
  /\ UNCHANGED <<reservations, lock, manifest, preparer, outcome, units, counts>>

-----------------------------------------------------------------------------
(* Workers, direct controllers, owner stops *)

\* worker_main consumes the nonce before anything else, run_workflow again.
Boot(r) ==
  /\ unit[r] = "booting"
  /\ Transition(r, workerNonce[r], "active")
  /\ unit' = [unit EXCEPT ![r] = "executing"]
  /\ outcome' = [outcome EXCEPT ![r] = "running"]
  /\ UNCHANGED <<manifest, record, preparer, phase, workerNonce, receipt, up, job, counts>>

\* The controller writes its terminal record; the unit has yet to exit.
Terminate(r) ==
  /\ unit[r] = "executing"
  /\ unit' = [unit EXCEPT ![r] = "ending"]
  /\ outcome' = [outcome EXCEPT ![r] = "terminal"]
  /\ UNCHANGED <<reservations, lock, manifest, record, preparer, phase, workerNonce,
                 receipt, up, job, counts>>

\* The unit ends or is killed, with or without receipts that prove it.  A
\* worker whose nonce is refused exits this way.
UnitExit(r) ==
  /\ UnitActive(r)
  /\ unit' = [unit EXCEPT ![r] = "gone"]
  /\ receipt' \in {receipt, [receipt EXCEPT ![r] = TRUE]}
  /\ UNCHANGED <<reservations, lock, artifacts, workerNonce, up, job, counts>>

TerminateDirect(r) ==
  /\ At(r, {"execute"})
  /\ outcome' = [outcome EXCEPT ![r] = "terminal"]
  /\ Leave(r)
  /\ UNCHANGED <<reservations, lock, manifest, record, preparer, phase, units, counts>>

\* owner_stop, for a run of the daemon's or an acknowledged unscoped one.
Stop(p, r) ==
  /\ faults < MaxFaults /\ faults' = faults + 1
  /\ p \in Daemons \cap up /\ job[p] = Idle
  /\ r \in manifest /\ (r \in Direct => Unscoped)
  /\ job' = [job EXCEPT ![p] = [run |-> r, nonce |-> 0, at |-> "stopping"]]
  /\ UNCHANGED <<reservations, lock, artifacts, units, up, minted>>

\* The unit was seen inactive (UnitExit models its stop).
Stopped(p) ==
  /\ At(p, {"stopping"}) /\ ~UnitActive(job[p].run)
  /\ phase' = [phase EXCEPT ![job[p].run] = "owner_stopped"]
  /\ Leave(p)
  /\ UNCHANGED <<reservations, lock, manifest, record, preparer, outcome, units, counts>>

\* A pass begins; it has no step of its own before the lock.
LookAround(p) ==
  /\ p \in Lookers \cap up /\ job[p] = Idle /\ lock = Unlocked
  /\ job' = [job EXCEPT ![p] = [run |-> NoRun, nonce |-> 0, at |-> "look"]]
  /\ lock' = [by |-> p, view |-> [r \in Runs |-> EvidenceOf(r)]]
  /\ UNCHANGED <<reservations, artifacts, units, up, counts>>

\* An operation raises: a write failed, a transition was refused, a unit did
\* not stop in time.  What it wrote stays.
Fail(p) ==
  /\ faults < MaxFaults /\ faults' = faults + 1
  /\ p \in up /\ job[p] # Idle
  /\ Leave(p)
  /\ lock' = IF Holds(p) THEN Unlocked ELSE lock
  /\ UNCHANGED <<reservations, artifacts, units, minted>>

\* The process dies; the kernel drops its locks.
Crash(p) ==
  /\ faults < MaxFaults /\ faults' = faults + 1
  /\ p \in up
  /\ up' = up \ {p}
  /\ job' = [job EXCEPT ![p] = Idle]
  /\ lock' = IF Holds(p) THEN Unlocked ELSE lock
  /\ UNCHANGED <<reservations, artifacts, units, minted>>

-----------------------------------------------------------------------------

Admission(p) == Enter(p) \/ Replay(p) \/ Grant(p) \/ Refuse(p) \/ Look(p) \/ Release(p)

Starting(p) == Publish(p) \/ PublishFails(p) \/ Bind(p) \/ CreateRecord(p) \/ Own(p) \/ Prepare(p)

Launching(p) ==
  \/ MarkStarting(p) \/ PriorWork(p) \/ Overtaken(p) \/ RequestLaunch(p) \/ WritePhase(p)
  \/ StartUnit(p) \/ StartUnitFails(p) \/ Started(p)

Next ==
  \/ \E p \in Process :
       \/ Admission(p) \/ Starting(p) \/ Launching(p) \/ Stopped(p) \/ LookAround(p)
       \/ Fail(p) \/ Crash(p)
       \/ \E r \in Runs : StartRun(p, r) \/ Retry(p, r) \/ Answer(p, r) \/ Stop(p, r)
  \/ \E r \in Runs :
       \/ StartDirect(r) \/ Boot(r) \/ Terminate(r) \/ UnitExit(r) \/ TerminateDirect(r)

Spec == Init /\ [][Next]_vars

-----------------------------------------------------------------------------
(* Safety *)

TypeOK ==
  /\ reservations \in [Runs -> Reservation \cup {NoReservation}]
  /\ lock \in {Unlocked} \cup [by : Process, view : [Runs -> Evidence]]
  /\ manifest \subseteq Runs
  /\ record \in [Runs -> {"none", "preparing", "awaiting", "prepared", "launch_requested",
                          "unit_started", "failed_preparation", "failed_launch"}]
  /\ preparer \in [Runs -> Daemons \cup {NoProcess}]
  /\ phase \in [Runs -> {"manifest_only", "launch_requested", "unit_started", "owner_stopped"}]
  /\ outcome \in [Runs -> {"none", "running", "terminal"}]
  /\ unit \in [Runs -> {"none", "booting", "executing", "ending", "gone"}]
  /\ workerNonce \in [Runs -> Nat]
  /\ receipt \in [Runs -> BOOLEAN]
  /\ up \subseteq Process
  /\ job \in [Process -> Job]
  /\ minted \in Nat /\ faults \in Nat

\* A run's controller executes: in its unit, or as the direct controller.
Executing(r) ==
  \/ unit[r] = "executing"
  \/ r \in Direct /\ At(r, {"execute"})

\* A run that executes does so under a live reservation with the nonce it was
\* launched with, whatever passes, retries, stops and crashes happen
\* meanwhile: the nonce is a fence, and reconciliation never takes the slot
\* of a run that is at work.
ExecutesUnderReservation ==
  \A r \in Runs : Executing(r) =>
    /\ Live(reservations[r])
    /\ reservations[r].nonce = (IF r \in Direct THEN job[r].nonce ELSE workerNonce[r])

\* It executes, or a live daemon prepares it and nobody has stopped it.
Working(r) == Executing(r) \/ (Preparing(r) /\ ~Over(r))

\* Runs at work never exceed the project's limit, although every decision
\* rests on evidence that was read before it, and dead owners, stopped runs
\* and questions give their slots back.
WithinLimit == Cardinality({r \in Runs : Working(r)}) <= Limit

\* One plan has one run: none is at work while another is, or holds the
\* plan's claim with an open startup question.
OneRunPerPlan ==
  \A r, s \in Runs : r # s /\ PlanOf[r] = PlanOf[s] /\ Working(r) =>
    ~Working(s) /\ ~Waiting(s)

\* Once a run has its manifest, the run it restarts is never at work again: a
\* stopped run whose launch was still under way may boot later, but not past
\* the fence of its reservation, which ensure took from it for the successor.
\* And two successors of one predecessor never execute at once.
OneGeneration ==
  \A r \in Runs : SourceOf[r] # NoRun =>
    /\ r \in manifest => ~Working(SourceOf[r])
    /\ Executing(r) =>
         \A s \in Runs \ {r} : SourceOf[s] = SourceOf[r] => ~Executing(s)

-----------------------------------------------------------------------------
(* What the documentation says and the code does not do *)

\* ARCHITECTURE.md: "Ambiguous ownership keeps its slot until inactivity is
\* proven".  So the slot of a run is taken back only when it does not execute.
SlotKeptUntilInactive == \A r \in Runs : Executing(r) => Live(reservations[r])

=============================================================================
