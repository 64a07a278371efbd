# A verification of aflow

aflow runs coding agents over checked plans. A *run* is a controller process that
takes a plan through turns of a workflow; each turn launches a *harness* (an external
provider process). A daemon starts runs as persistent units, asks and answers startup
questions, stops and resumes runs, and publishes finished work. Everything the parts
agree on is in files: journals, manifests, records and event logs under `.aflow/`, in
the account's state directory, or in the repository.

That makes the hard part of aflow a distributed protocol over files: processes that
crash at any point, evidence that is read before it is acted upon, locks that protect
one file and not another, and operations retried by somebody who does not know how far
the first attempt came. This directory models those protocols in TLA+, checks them with
TLC on small instances, and proves the central results with TLAPS.

| Module | What it is |
| --- | --- |
| `ExecutionResources` | the broker of exclusive execution resources, the turn gate, the owned provider process |
| `ExclusiveResource` | its abstract specification: a resource that is granted, used, and freed after use |
| `ExecutionResourcesProofs` | theorems about `ExecutionResources`, and that it implements `ExclusiveResource` |
| `ExecutionJournalProofs` | theorems about its journals: their format, the order of service, the turn of a launch |
| `ProjectAdmission` | the admission journal of a project and the daemons, workers and direct controllers that use it |
| `ProjectAdmissionProofs` | its inductive invariant and theorems |
| `ConfigPair` | the transactional replacement of two configuration documents |
| `PairRegister` | its abstract specification: a register that holds the pair as one value |
| `ConfigPairInvariant`, `ConfigPairProofs` | its inductive invariant, theorems about it, and that it implements `PairRegister` |
| `Delivery` | publication of finished plans, their move to `plans/done` and its lifecycle commit |
| `PublishedBranch` | its abstract specification: a branch on which code comes out before its plan is declared done |
| `DeliveryProofs` | its inductive invariant and theorems, and that it implements `PublishedBranch` |
| `RunControls` | a run's `overrides.toml`: control requests, edits, the turn boundary, resumes |
| `RunControlsProofs` | its inductive invariant and theorems |
| `PlanLifecycle` | journaled moves of plan files, their recovery, and the run whose plan it is |
| `PlanShelf` | its abstract specification: a plan that is always somewhere, and arrives where it set out for |
| `PlanLifecycleProofs` | its inductive invariant and theorems, and that it implements `PlanShelf` |
| `MC...` | small instances of a module for TLC |

## 1. Inventory

The system's parts, the state they keep, what can go wrong, and what makes them right.
`PROJECT.json` lists the same components with their sources and status, and every hazard
at its line.

**Execution resource broker** (`aflow/execution_resources.py`). One account-local journal
per exclusive (harness, model, effort) combination: a revision, a ticket counter, an owner
and a FIFO queue. Controllers enqueue, poll, cancel, mark a launch, bind the child,
complete, and reconcile the claims of dead controllers from process evidence. Hard:
unlocked samples, crashes between intent and spawn, process groups that outlive their
leader, re-preparation while queued, reboots. Right: one provider per resource, the
resource is never freed while used, order, no starvation, a journal every reader accepts.

**Turn gate and owned process** (`aflow/workflow.py`, `aflow/process_identity.py`). The
controller side of the same protocol: prepare, enqueue, wait with controls, verify the
live configuration once more, launch, tear the group down, release or retain.

**Project admission** (`aflow/project_admission.py`). One journal per project with a
reservation per run, guarded by a file lock; its decisions weigh evidence that other
processes write without the lock. Hard: stale evidence, crash of the reserving daemon,
questions that give the slot back and keep the plan, nonces of relaunched runs,
compaction. Right: the concurrency limit, one run per plan, one successor per
predecessor, and that whoever executes holds a live reservation.

**Daemon** (`aflow/daemon.py`). Start, answer, launch, owner stop, resume, projection.
State: launch manifest, launch phase, startup record, units. Hard: every step is durable
and may be the last; requests are replayed under an idempotency key.

**Configuration pair** (`aflow/config_pair.py`). Two documents replaced as one, through a
write-ahead record; recovered by whoever reads next. Hard: a crash at any directory sync,
third-party edits meanwhile. Right: never a mixed pair, an acknowledged commit is durable.

**Publication** (`publication.py`, the end of `workflow.py`, terminal resume in `cli.py`).
A receipt per run, the history, index and files of a checkout that several runs share, and
the remote. Publish, move the plan to `plans/done`, stage, commit, publish again. Hard:
a call that fails or a death between any two effects, outsiders who edit, stage, commit
and push, and a second run that does the same. Right: a receipt says what is true, the code
is out before its plan is declared done, and every delivery ends or says why not.

**Run overrides and control requests** (`control_plane/persistence.py`, `services.py`, the
turn boundary of `workflow.py`, `run_state.py`). `overrides.toml`, the result of the last
one in `run.json`, the event journal that answers replays. Hard: the file is consumed by
comparing digests and never deleted, requests are retried, a successor inherits half of
it. Right: nothing takes effect twice, nothing accepted is lost, a stop stops.

**Plan lifecycle** (`plan_lifecycle.py`, `plan_backups.py`). A journal of moves, and the
identity of each plan. A move is a link and an unlink, hence every interruption leaves a
state of its own. Right: no file is lost, a recorded move is true, a run keeps its plan.

**Turn engine** (`aflow/workflow.py`, `runlog.py`, `run_state.py`). Turns, transitions,
harness recovery, terminal records; with the **manager gate and repartitioning** on top.
Its answers come from providers, its evidence from Git; what others write reaches it at
the turn boundary.

**Persistent units** (`control_plane/persistent_units.py`, `units.py`,
`stop_marker.py`). Wrapper, nonce-stamped receipts, stop.

**Plan consumer and dependencies**, **daemon resume**, **issue intake**, **worker recovery
and concierge**, **hot plugging**, **skill store**: durable state machines of their own.

**Pure or external**: parsing and analysis (`plan.py`, `analyzer.py`, `git_status.py`,
`config.py`), harness adapters, the command line, the remote app server and the web UI.
They are pure functions, external I/O, or views.

How they interact: nothing calls anything across processes but through files. A turn of
`ExecutionResources` is a step of a run that `ProjectAdmission` has let in; the run has read
its overrides (`RunControls`) at the boundary before it, recovered its plan's moves
(`PlanLifecycle`) before it was admitted, and delivers (`Delivery`) when its last turn is
approved. Each of these protocols has its own files and its own lock, and reads of the
others only what its module represents as evidence: a unit and a record for admission, a
claim for the plan lifecycle, a predecessor's result for the overrides.

## 2. Execution resources

### The model

A step of `ExecutionResources` is one critical section: every store operation holds the
resource's `flock` from reading the journal to replacing it, so it is one action. What the
code does outside the lock is a step of its own: the sample reconciliation takes
(`ReconcileRead`, applied by `ReconcileApply` only at the same revision), the spawn, the
group's life and death, and every point of the turn gate, as `pc[c]`:

    prepare -> enqueue -> waiting -> final -> launch -> spawn -> bind -> running -> teardown -> release
                 |           |         |                                              -> retain
              contended   withdraw  withdraw

`Prepare` to `RepreparePrompt` are the loop in `run_workflow`; `EnqueueNew`, `TryAcquire`,
`Cancel`, `ReconcileApply`, `Transition` and friends are the store; `Spawn`, `Interrupt`,
`Teardown`, `Reaped` are `_run_process` and `terminate_owned_group`. A provider is a
process group with a leader and, perhaps, kin that outlive it; PIDs may be reused;
`Reboot` ends every process and changes the boot identity. `Abort` is any exit of the
controller: a crash, or a `ResourceLeaseError` that ends the run.

Abstracted: journals hold sets and not lists (a ticket orders them), a resource key is a
model value, timestamps and labels are left out, a contended lock that is retried is a
stuttering step. Left out: injected runners (tests), unmarked routes (no resource), and the
auxiliary calls that pass the same gate.

### Properties

* `JournalValid`: no interleaving writes a journal that the next reader's validation
  would refuse.
* `ProviderHoldsResource`: while anything of a provider's group runs, its invocation owns
  the resource, even after its controller has died. From it, `AtMostOneProvider`.
* `ClaimKept`: a controller that waits or was granted still has the claim it counts on.
* `NoOvertaking`: an action property; the resource goes to the oldest waiter.
* `LaunchedInTurn`: a resource is marked as launched or running by a live controller only
  through that controller's present turn, which is past its launch and not done with it. So
  nobody who waits, waits for a launch that is over.
* `NoStarvation`: a waiter gets its turn, stops waiting, or stands behind an owner whose
  cessation nobody will ever prove, or a live controller's claim from before an edit
  (`Stuck`; the first fails closed, as the code documents, the second is the finding below).
  The liveness instance has one resource, where nothing of the second kind exists.
* `ExclusiveUse`: the broker implements `ExclusiveResource` under the mapping
  `Holder`, `Using`: it never changes hands while in use.

### Runs

| Run | Instance | Why these bounds |
| --- | --- | --- |
| `exclusive_safety` | 2 controllers, 2 routes of a resource each, a turn each, room for 2 claims, 2 route or prompt edits | a claim may go to either resource, a crash may leave it in either, and a journal fills up |
| `exclusive_liveness` | 2 controllers, 1 resource, 2 turns each, 1 reboot, fairness | a second turn meets the remains of the first; a waiter behind every kind of owner |

`MaxInvocations`, `MaxReboots` and `MaxEdits` are bounds of the model; `MaxClaims` is
`MAX_OUTSTANDING_CLAIMS`, small. Controllers are symmetric in the safety run. Deadlock is
not checked: a host whose controllers have all ended has stopped. Safety with more
controllers, turns and reboots is what the proofs are for.

Fairness, used by `exclusive_liveness` alone: a controller keeps taking the steps of its
turn and of its poll (`WF` of `Work(c)` and of `ReconcileRead(c)`; `Work` has no crash, no
owner stop and no edit in it), evidence is eventually conclusive (`SF` of a
reconciliation that applies everything reclaimable; strong, because another operation may
invalidate the sample again and again, but not forever, as there are finitely many
operations between two polls), and a provider ends. The wait loop polls for as long as it
waits, which is the first; `process_liveness` answers `unknown` only transiently, which is
the second; a harness has a deadline, which is the third.

### Proofs

`ExecutionResourcesProofs` proves, for every set of controllers, routes and resources and
every bound: `Invariant` (`Spec => []Inv`), `TypeCorrect`, `ProvidersHold`,
`MutualExclusion`, `ClaimsKept`, and `Refinement` (`Spec => ExclusiveUse`). The
assumptions are those the module declares: a route has a resource, the bounds are
natural numbers, the null values are not values.

`ProviderHoldsResource` is not inductive. A reconciliation removes a claim it judged from a
sample taken earlier; that this is harmless needs `SampleCurrent` (an unlocked sample of a
revision the journal still has *is* the journal), and that a claim of a present controller
or a bound child is never removable. That a launch does not put a second provider beside
the first needs `ControlAt` (what the controller owns at each `pc`), `Minting` (a claim or
a child belongs to a minted invocation; a live controller's claims carry the current boot)
and `OneClaimEach` (an invocation has one claim per journal). Their conjunction is `Inv`,
and the proof takes it action by action.

`ExecutionJournalProofs` builds on it and proves, for the same instances:

* `JournalsStayValid`. `JournalValid` is what the next reader's validation accepts. Its
  inductive part, relative to `Inv`, is `AllTicketed`: the claims of a journal are at most
  `MaxClaims`, their tickets tell them apart and are below its counter. A store operation
  either adds no claim and changes the owner at most to one of the queue (`Reduced`), or adds
  one at the tail, with the counter's ticket and while there is room (`Extended`);
  `TicketSteps` shows that of every action, `ReducedTicketed` and `ExtendedTicketed` that both
  are harmless.
* `ServedInOrder` (`NoOvertaking`): by `TicketSteps` a new owner had the lowest ticket of the
  queue, and a later comer's ticket is higher.
* `LaunchedClaimsInTurn` (`LaunchedInTurn`): only the launch marks an owner (`LaunchedSteps`),
  and a controller leaves its turn only with its claim gone or retained under another status
  (`TurnSteps`).

Model-checked only: `NoStarvation` (liveness is outside the prover).

### Where the code departs from its documentation

* `leaked_claim`: a prompt-only edit keeps the invocation id and goes back to the loop
  top; if the route has changed by the time the configuration is reloaded, the id is
  enqueued on the new resource and its old claim stays until the controller dies.
  `docs/runtime-behavior.md:594` has the claim cancelled.

Not checked, but seen while modelling:

* A claim retained as `unconfirmed` is never freed while its controller lives, even once
  the provider is provably gone; that controller's own next turn waits behind it.
  `ARCHITECTURE.md:453` has provider cessation as the release condition.
* A dead controller's claim is reclaimed although its child's PID was reused (`_reconcile_claim`
  takes another birth at that PID as the child's absence), where
  `docs/runtime-behavior.md:653` keeps it. The code's rule is the right one: the group's
  absence is established as well.

## 3. Project admission

### The model

`reservations` is the journal. `manifest`, `record`, `preparer`, `phase`, `outcome` are the
artifacts of a run (launch manifest, state and preparation owner of the startup record,
launch phase, status in `run.json`), `unit`, `workerNonce`, `receipt` its workflow unit.
`job[p]` is the operation a daemon, or a direct controller, is in the middle of; a direct
controller is a process with the name of its run.

An operation that weighs evidence is two steps under the lock: `Enter` takes it and reads
every run's evidence (`EvidenceOf`, the composition of `get_run_status`,
`project_activity` and `_classify_status`), and `Replay`, `Grant`, `Refuse`, `Look` or
`Release` decides on that view. Artifacts and units change in between, as they do in the
code, where nothing but the journal is under the lock. `bind`, `mark_starting` and
`consume` read no evidence and are one action, `Transition`. `Reconcile` is
`_reconcile_locked` for one run; the same view feeds reconciliation, predecessor,
successor, plan and capacity checks, as `_READ_VIEW` does in the code.

A daemon's start is `StartRun`, admission, `Publish`, `Bind`, `CreateRecord`, admission,
`Own`, `Prepare`, admission, `MarkStarting`, `RequestLaunch`, `WritePhase`, `StartUnit`,
`Started`; each is durable on its own, and `Fail` and `Crash` may end the operation
anywhere. A launch that finds its run past `manifest_only` reports it as it is and leaves the
reservation (`Overtaken`). The status is read at `daemon.py:2009` and the slot marked at 2065;
`MarkStarting` is both, as nothing in between changes state but the refusal of `PriorWork`, and
what another process makes of the run there is met again by the nonce, under the lock.
`Retry` continues where the artifacts are. Workers `Boot` by consuming their
nonce, `Terminate` and exit, with receipts or without.

Two facts of the source shape `EvidenceOf`: a run with a manifest only never reads
`reserved`, because `project_activity` has already turned its status into
`needs_attention`; and a run whose unit is gone without a receipt is `uncertain` for good
unless its record or phase settles it.

`consume` never meets a unit that already works, so it has no such branch here: every
caller of `_launch_prepared_locked` returns for a phase past `manifest_only`.

Left out: linked worktrees and legacy runs (two more sources of the same evidence), direct
resumes, plan revisions and dependencies, pending publications, and the sibling check the
daemon makes before it asks for admission (a second check of a rule the journal enforces;
the model shows that the journal's is enough).

### Properties and runs

* `ExecutesUnderReservation`: whoever executes has a live reservation with its own nonce
  (checked by the first run; proved for both).
* `WithinLimit`: the runs at work never exceed the limit, though every decision rests on a
  view that may be stale and the journal forgets.
* `OneRunPerPlan`: one run of a plan is at work, and no other holds the plan with an open
  question.
* `OneGeneration`: once a successor has its manifest, the run it restarts is never at work
  again, and no two successors of one run execute at once. The predecessor's unit may still
  be *booting* by then: owner stop and launch of two daemons do not exclude each other, and
  it is the nonce that stops the late worker.

| Run | Instance | Why these bounds |
| --- | --- | --- |
| `admission_capacity` | a daemon and its run, two direct controllers, one of them with the same plan; 1 slot, room for 2 reservations, 4 nonces, 2 faults | they compete for one slot, one plan and one place in the journal, so that compaction, a claim lost and taken again while it is answered, and a full journal occur |
| `admission_successors` | 2 daemons, a run and two successors of the same plan, 2 slots, 3 reservations, 3 nonces, 1 fault | restarts of one predecessor by two daemons, with a slot to spare, so that only the succession rule separates them |

`MaxNonces` bounds reservations granted and `MaxFaults` failures, crashes and owner stops;
`Lookers` are the daemons that also reconcile for nobody in particular. The successors are
symmetric. Deadlock is not checked: finished runs stop.

### Proofs

`ProjectAdmissionProofs` proves the four safety properties for any finite set of runs, any
daemons, plans, limits and restarts, provided that no owner stop reaches a direct controller
(`~Unscoped`; with it the first fails, see below). Assumed is what the module declares: run
ids and process identities differ, direct runs restart nothing, and the bounds are natural
numbers.

None of the properties mentions a view, and every decision rests on one. The invariant `Inv`
therefore says how wrong a view may be. A run is `Busy` when it executes, or is being
prepared or about to be and nothing has ended that.

* `Artifacts`: at each step of an operation its run's artifacts are in the state that step
  was entered for, and no second operation but an owner stop has the run. So an artifact is
  what its only writer left.
* `Seen`: a view shows nobody as inactive or absent who is busy by now, and has whoever
  waits by now as unresolved. Runs become busy by admission, bind or boot only, and each of
  these needs the lock that the view's holder has (`NewlyBusy`); a question is asked by a run
  that was busy (`NewlyWaiting`). Evidence may turn false while the lock is held, but only
  from activity to inactivity, which no decision relies on.
* `Claimed`: whoever is busy has a live reservation, with the nonce it executes under. By
  `Seen` neither reconciliation nor release takes it, and compaction drops no live one.
* `Bounded`, `Apart`: the slots are within the limit, and one to a plan and to a predecessor.
  Slots come from grants only (`NextSlots`), and a grant looks at all the others.

`OneGeneration` needs `Generations` besides: a run that has begun restarts one that is
`Halted`; no launch of a halted run starts, and those under way are `Spent`, having lost the
reservation they were started with. That they are holds from the admission of the successor
on, and for good: a run that is `Admitted` has a slot, a publication under way or a manifest,
and nothing gets the latter two without the first (`NewlyAdmitted`); so it does not matter
that the successor's own slot may be gone. A later reservation of the same run does not revive
them, since it is granted to an operation that has no unit and no launch under way
(`Unstarted`). This holds for successors with other plans than their predecessor's, too.

### Where the code departs from its documentation

* `stopped_direct`: an owner stop that acknowledges an unscoped launch looks for a unit, finds
  none (a direct controller has none), and records `owner_stopped`; admission then frees
  the slot of a controller that executes. `ARCHITECTURE.md:64` keeps ambiguous ownership
  charged. Without that acknowledgement (`Unscoped = FALSE`, the passing runs) the
  property holds.

Not checked, but seen while modelling:

* `claim_retained` is never cleared, and a sibling that bears it refuses every other
  successor, although it has ended; nor is it ever compacted. `ARCHITECTURE.md:67-68` lets
  another successor in once the first is inactive.
* A slot reacquired to answer a question stays charged while the daemon lives when the
  answer fails or its release does; `ARCHITECTURE.md:62-63` releases it. Nothing is
  overcommitted by this: the slot is merely lost until the next answer.

## 4. Configuration pair

### The model

`docs` and `record` are the two documents and the transaction record as every process sees
them; `diskDocs` and `diskRecord` what a power failure may leave of them. A rename or an
unlink (`Put`, `PutRecord`) is visible at once, and durable from the next sync of the
directory (`Sync`); until then each entry is, independently, as it was at the last sync or
at any time since. File contents are synced before they are renamed into place, so an entry
never names a torn file. That is all the model assumes of the file system.

Everything happens under the pair lock, so one process at a time has a state worth
modelling, its holder: `pc`, `duty` and the locals of `commit_configuration_pair`. What
another process does is what the next holder does. The holder recovers first, whatever it
came for:

    recover -> restore <-> restoreSync -> clearSync -> ready -> (a read ends)
    ready -> prepare -> prepareSync -> replace -> mark -> markSync -> cleanup -> cleanupSync
                 any failure up to markSync: rollback -> (rollbackSync) -> recover ... restored
                 any failure after it: retain -> retainSync

`FailCommit`, `FailCleanup`, `Crash` (any exit that leaves the files as they are, a failed
recovery too) and `PowerFailure` may happen at each of these points, recovery and rollback
included. `Edit` is a third party's editor, which takes no lock. It is excluded only in
`Unguarded`, the window from a look at a document to its rename: there the code overwrites
the edit and nothing can notice.

Left out: parsing and checksums of the record, aliases of the directory and symbolic links,
size limits, the degraded read of a read-only file system, and the non-blocking lock (a
stuttering step). `pair_revision` takes a missing document for an empty one; the model has
no empty document.

### Properties

The documents are never compared with an expected state step by step; what counts is what
can be *read*. `Possible` is the set of results a reader that takes the lock may get, now or
after a power failure.

* `ReadsSettled`: after recovery there is only one, and the reader returns it.
* `CommitsDurable`: from the success boundary on, it is the new generation, whatever the
  cleanup meets.
* `RestorationTrue`: a commit that fails with the previous pair "restored" has restored it
  for good, even when its marker was already visible.
* `CompareAndSwap`: a new result appears only over the generation the commit expected.
* `EditsSurvive`: the holder replaces an edited document only if the edit is itself the
  recorded old generation.
* `PairIsOne`: the whole implements `PairRegister`; no reader ever sees a mixed pair.

Of these, all but `EditsSurvive` speak of histories without a third-party edit: an edit after which
the record no longer fits makes recovery refuse, and the promise of one value with it.

### Run

`config_pair`: two documents, the second missing at first; two generations, of which one
leaves the first document alone; three faults and one edit. Three faults let a commit fail,
its rollback fail, and the recovery of that be interrupted, with a power failure as any one
of them. Deadlock is checked: somebody can always take the lock again.

### Proofs

`ConfigPairProofs` proves every property of the run, for every set of documents and
generations and every bound (a generation has no missing document and none that a third
party writes: `PairAssumption`). The invariant is `Inv`, inductive for all of them. `HolderInv` says what the holder
knows of the record at each `pc`; `Recoverable` says that whatever subset of the unsynced
entries survives, either no record does and the documents are one generation, or every
record that does names the same two generations and no document is foreign to them;
`Untampered` adds, for each `pc`, which documents are already replaced and which records may
survive. It is needed because none of the properties mentions the disk in the middle of a
commit, where the next failure is decided: at `markSync` a power failure may leave the
prepared or the committed record, and the documents must be durable to allow both. From
`Inv` follows that `Possible` has one element, named by the state, at every point but
those where the marker is visible and not yet durable, or is being taken back; the
properties and the refinement read that off.

## 5. Delivery

### The model

Runs of one project deliver from one checkout. `main` is the history of its branch (every
commit with its tree), `index` and `work` are Git's index and the files, `remote` says how
far into `main` the published branch reaches and how much foreign history it has.
`receipt[r]` is the `publication.json` of the run that owns a delivery, the only memory
between its steps; `pc[r]` is the process.

    working -> publish -> candidate -> fetch -> push -> pushed -> finalize
    finalize -> move -> moved -> head -> source -> sourceAdded -> done -> doneAdded
             -> record -> check -> commit -> verify -> publish ... completed

`Admit` to `Published` are `publish_completed_run`, `Prepare` to `Verify`
`finalize_completed_plan`. What the code reads of Git once and uses later is `seen[r]`, and a
remote may move between `Fetch` and `Push`. Only the publication lock serializes anything:
moving, staging and committing do not take it, so two runs interleave there at every point.
`CallFails` is any call of Git that fails, the publication lock and Git's configuration
included, which fail before there is a receipt; `Crash` is a death; `Retry` is the terminal resume
of a failed delivery, `Resume` the resume of a dead run, which gets a receipt of its own.
`Outsider` edits, stages, commits or pushes, at any point.

Left out: worktree executions whose own HEAD is published, incomplete publication settings,
symbolic links, a project outside Git.

### Properties

* `PublishedIsTrue`: what a receipt calls published is in the remote's history.
* `FailureGates`: nobody is publishing while another run's publication has failed.
* `CodeBeforePlan`: a lifecycle commit that a run makes, or takes for its own, is only made
  on its published code.
* `CommitIsOwn`: the commit a record names takes out the plan and touches no path of
  others, although `git commit` takes whatever is staged by then.
* `CompletedIsPublished`: a completed run has published its lifecycle commit.
* `ReleasesInOrder`: the whole implements `PublishedBranch`. Who follows the published branch
  sees a log of which more and more comes out, in order and for good; a run declares its plan
  done (or claims a declaration that another made) when all its code is out, and is through
  when the declaration is. Receipts, index, files, failed calls, deaths and resumes are
  stutters, but for a resume after a death, which forgets what was claimed; and without the
  grant nothing ever comes out.
* `Settles`: a delivery completes, or is held up for one of the reasons of `Held`, which
  are those only a person can remove.

### Runs

| Run | Instance | Why these bounds |
| --- | --- | --- |
| `delivery` | 2 runs, one plan tracked, one perhaps tracked in directories Git ignores; 1 fault or outsider's step | two deliveries in one checkout at every interleaving; one trouble already meets a retry, a resume or a diverged index |
| `delivery_settles` | the same, a Done plan perhaps there from before, no outsiders, 1 fault, fairness | what a failed call or a death alone can wedge |

Both check with one trouble: the second run in the same checkout is itself one. `MaxTrouble`
bounds failed calls, deaths and outsiders' steps together. Deadlock is not checked:
delivered runs stop. Fairness is `WF` of `Deliver(r)` for each run: a live process goes on,
and somebody resumes what can be resumed. Without the latter nothing has to end, in the code
as in the model; `Settles` says that resuming is enough.

### Proofs

`DeliveryProofs` proves the six invariants and the refinement, for any number of runs, failed calls,
deaths and outsiders' steps. A receipt is read by a later process that has nothing else, so
the invariant `Inv` says what each of its phases stands for:

* `InOrder`: the stages come in order; who is past publishing code, under the grant, has
  all of it within `remote`. This is what a failure must not undo: `Retry` goes back to where the
  run was, and the leg says where that is;
* `Attested`: a committed record names a commit right after its recorded parent, of owned
  paths only, that takes out the plan. The shared branch only grows, so it stays true;
* `Whole`: what is being pushed holds all the run has made, its lifecycle commit included;
* `Declared`: no lifecycle commit of the run is before its code, or on unpublished code;
* `Serial`: who publishes holds the lock, and what was fetched is never ahead of the remote;
* `Diffs`: a lifecycle commit has the paths it changes, by which `verify` judges it.

The steps of another run or of an outsider are harmless to all of this because they only
append to `main` and to `remote` (`Onward`), which one lemma per part uses; the lock is
needed for `FailureGates` and for the candidate between `Fetch` and `Push`.

`Refinement` (`Spec => ReleasesInOrder`) maps `main` to the log of kinds and authors, `remote.own`
to what is out, a committed record to the declaration, `"completed"` to being through. It needs
two invariants more: what is a candidate has been made (`Within`), so that publishing takes
nothing out that is not there, and without the grant nobody publishes (`Private`). By `ActorSteps`
a run's step is one of eleven kinds, and each is one action of the branch or none.

`Settles` is model-checked only.

### Seen while modelling, not checked

* A death after the plan's move and before the end of the run strands the run: resume wants
  the plan in its place (`Held`, second disjunct).
* Two runs that finalize in one checkout wedge each other: each finds the other's staged
  path, or the other's commit on top of its recorded parent.
* A record may adopt the commit of another run, which has taken its staged paths along.
* A run refused because of another's failed publication records its phase but owns no
  receipt, so its terminal resume is refused for ever (`publication.py:1154`,
  `workflow.py:7511-7516`), where `ARCHITECTURE.md:2439-2445` has it retried.

## 6. Run controls

### The model

`file[g]` is the `overrides.toml` of generation `g`, a text together with the number of the
write it is from; the number is auxiliary, the code compares texts only. `mem` is the state
of the live controller, `saved` its `run.json`, `at` its place: `Honor`, `Pass`,
`StopAtApply`, `Reject`, `Accept`, `Take`, `Launch` and `EndTurn` are the boundary and the
turn. `Apply`, `Swap` and `Log` are a call of the control service: checked, compared and
swapped under the lock, then recorded for replays, with a death possible after each.
A request asks for a stop, withdraws one (`owner_stop = false`) or says nothing of it, hence the
three values of `OwnerStop`. `Edit` is a person at the file. `Resume` makes the successor's state from the predecessor's
`run.json` and decides whose file its first boundary reads.

`Choices` stand for team and turn limit, which persist alike. Left out: `next_step` and
notes, role selectors with their hotplug, malformed files, budgets replaced on resume, and
in the event journal everything but the replay of requests.

### Properties

* `AppliedOnce`: no write takes effect twice, wherever the controller dies between
  recording an acceptance and applying it, and however often the run is resumed.
* `AcceptedSurvives`: every turn has the choice accepted last, by any generation.
* `ChangesOnce`: a retried request changes the file once, and never undoes a later one. A
  file removed by hand is excepted, as its revisions start again.
* `StopHeard`: a stop that is asked for ends the run, unless its text is that of the last
  result, which is the finding below.

### Runs

| Run | Instance | Why these bounds |
| --- | --- | --- |
| `run_controls` | 1 key in 2 handlers, 1 choice or none, 2 generations, 2 edits, 1 death | a retry beside its first attempt, an edit between any two steps of either, a resume of each end |
| `repeated_stop` | 2 keys, 1 handler, 2 generations, no edit | the shortest way to two stops of the same text |

Deadlock is not checked: runs end. Fairness is `WF` of `Control`, a live controller goes on;
its turns end as providers have deadlines.

### Proofs

`RunControlsProofs` proves all four safety properties, for every set of keys, handlers and
choices and every bound. `AppliedOnce` speaks of a history (`twice`), and what keeps it
true is spread over two files and a record of what was inherited. The inductive invariant
`Inv` says:

* `Written`: a write number belongs to one file, and a result's to the text it has;
* `Unacted`: what is pending has not taken effect, and of the files that are *still to be
  read* (the run's own, and its predecessor's while `mem.source` names it), one that has
  taken effect is known as consumed from the result. This is the point of the whole
  protocol: a successor's file is not read before the predecessor's is settled;
* `Chosen`: the choice that there is once the result has been applied is the one granted
  last, and only between `Accept` and `Take`, or after a death there, is the controller
  without it;
* `Changed`: a file that a request has changed is past the revision it expects;
* `Reach` and `Saved`: what calls and requests refer to exists; `run.json` is never behind.

Liveness (`StopHeard`) is model-checked only.

### Where the code departs from its documentation

* `repeated_stop`: a successor whose first stop request renders to the same text as the one
  its predecessor stopped for takes it as consumed and goes on; the service has answered
  that it is recorded. `docs/remote-app.md:67` has a stop pending only until the current
  call finishes.

Seen while modelling, not checked:

* The swap keeps `next_step` and notes that are in the file. Any later request then has a
  new digest and supplies them again, where `docs/runtime-behavior.md:724` does not
  replay them.
* A stop merged onto a choice that was not applied yet loses the choice, as an owner stop is
  taken alone.
* A request that changes the file of a stopped run makes its successor stop again, as the
  stop is still in it.
* A death between the record of a stop and the end of the run leaves a status no resume
  accepts (`"stranded"`; `cli.py:1951`).
* A request that reaches a dead predecessor's file while an acceptance of it is still to be
  applied is never read.

## 7. Plan lifecycle

### The model

A move is a hard link and an unlink, so names and files are told apart: `entry[l]` is the
file that the plan's name denotes in directory `l`, `synced[l]` what a power failure may leave
of it, `bytes[f]` a file's contents. `journal[i]` is the latest move of plan identity `i`,
`owner[i]` the path that identity has. Everything is under one lock, so one process has a
state, the holder's `pc`, `task`, `moving` and `linked`:

    idle -> recover -> examine -> link -> sync -> verify -> check -> unlink
         -> syncUnlink -> own -> record -> (recover, for the next one) -> idle

`Classify` and `Requeue` are the plan service, which moves only after it has recovered
(`looked`); `ClassifyFailed` is the controller of a failed run, or of one whose plan was found invalid before
it was admitted. `Unclaimed` is the guard of
the admission, under which a plan with a run is not moved. `run` is that run: `"recovered"`
and `"claimed"` in either order, since a daemon admits first and a direct run recovers
first, then `"executing"`; `Claim` is the admission of section 3, seen from the plan.

`recover_for_path` completes the moves that touch the directory asked for, and `EndRecover` waits
until nothing is prepared. Every move has `plans/in-progress` at one end, so the two are the same
for a run and for a classification. They differ where the service is asked for a plan in one of
several correction directories while a move of another identity of that name is interrupted
towards another: there the code leaves it to the next recovery that concerns it.

`Crash` is the holder's death or the error of any of its calls, `PowerFailure` takes
unsynced entries back one by one, `Outsider` writes, replaces or removes plans without the
lock, and `Promote` brings another plan of that name. `Unguarded` excludes an outsider in
two windows where the code has looked already: between its last look at both names and the
unlink, and between the link and the look at the destination.

The code does not keep every promise in every history. The properties say where they do not
speak, and each exemption is a case of the list at the end of this section:

| Exempt | Case | By |
| --- | --- | --- |
| `lapsed` | a death between a link or an unlink and its sync | all but `RunKeepsPlan` |
| `Unguarded` | an outsider in one of the two windows | the model, so all of them |
| `overdue` | a run admitted over an interrupted move | `RunKeepsPlan`, `ShelfMoves` |
| `edits`, `owners` | an edit, a second identity | as `Disturbed`: `MovedIsTrue`, `ShelfMoves`, `MovesFinish`; `NothingLost` and `RunKeepsPlan` leave out the step of an edit only |

Left out: what a requeue asks of contents and lineage, provenance of backups, symbolic
links, malformed journals, a promotion that fails.

### Properties and run

* `MovedIsTrue`: a move recorded as done is done for good, file, name and identity.
* `NothingLost`: no step, recovery or power failure takes the last durable name of a file,
  even of one that an outsider put there.
* `RunKeepsPlan`: neither a request nor a recovery moves the plan from under a run.
* `ShelfMoves`: the whole implements `PlanShelf`. There a plan is at a place or on its way from
  one to another; it shows at one of the two or at both, and never at none; its identity
  follows once it shows at its destination alone; only then has it arrived, and while a run uses
  it it does not set out. Links, directory syncs, deaths in between and recoveries are a
  `Shift` forwards or (a power failure) backwards, or no step at all.
* `MovesFinish`: what was prepared is completed, however often it is interrupted.

`plan_lifecycle`: one directory for corrections, 2 contents, 2 files, 2 identities, 1 step of
outsiders, 2 deaths or power failures. A death may interrupt a move, a second one its
recovery; a second file is what can be lost by mistake for the first. Deadlock is checked:
somebody can always read the plans again. Fairness is `WF` of `Recover`, as the plan service
recovers whenever it lists plans, and a holder goes on.

### Proofs

`PlanLifecycleProofs` proves the three safety properties and the refinement, for any number of
directories, files, identities, edits and deaths. Their invariant `Inv` says what a process may find when
it begins:

* `Held`: who is past the intent has its identity in the journal, prepared unless a request is
  replayed; until the destination is looked at it is the file linked, and what is unlinked has
  its other name;
* `Durable`: what is visible is on disk, but for the one entry whose sync is the next call. So
  every file that is kept has one name both visible and on disk (`Anchored`), and no step takes
  that name without another one: this is `NothingLost`;
* `Unmoved`: while a run executes nothing is prepared and nobody is moving. The claim is
  granted when no request holds the lock and, unless `overdue`, after the recovery;
* `Located`: in an undisturbed history the plan and its identity are where `Underway` says
  for each stage of a prepared move, and where `Over` says after it. A recovery that begins
  anywhere meets one of five such places, and each leads on to the next.

`Refinement` (`Spec => ShelfMoves`) reads the shelf off the journal and the directories: `Home` is
the place of the latest move that is done, `Aim` the destination of a prepared one, `Shown` the
directories where the name denotes a file. By `Located` an undisturbed plan that is not
prepared shows at `Home` alone with its identity there (`AtRest`), and a prepared one in one of
the five places of `Underway` (`OnItsWay`). Each action that touches a name is then one step of
the shelf, and `Disturbed` is never taken back. `Used` leaves out an `overdue` run, whose
direct start recovered before it was admitted (see below).

`MovesFinish` is model-checked only.

### Seen while modelling, not checked

* Either name may be replaced between the last look at both and `source.unlink()`
  (`plan_lifecycle.py:261-268`): a new source goes, or the old one although its other name is no
  longer the plan. The lock of the move binds no outsider, and an unlink takes a name.
* A destination replaced between `os.link` and the first `lstat` of it is taken for the link and
  unlinked on a mismatch, although the comment at `plan_lifecycle.py:248-249` has a
  replacement kept.
* A death between the link and the sync, a recovery (which does not sync the link when both
  names are there, `plan_lifecycle.py:222-232`) and a power failure can lose the plan, where
  directory entries become durable one directory at a time. The module says that its moves are
  crash-recoverable.
* A classification interrupted after the unlink and before the identity follows leaves the
  plan without one; the next classification gives it a second, and of the two prepared
  records recovery completes neither.
* A direct run recovers before it is admitted. A classification interrupted in between is
  completed later, under the executing run, as a recovery asks no admission
  (`plan_lifecycle.py:358-386`); `project_admission.py:1032-1033` has live owners prevent a
  lifecycle move until their ownership is resolved.
* A plan removed by hand and another promoted give one place two identities; a replay of
  the old move can then carry the other plan's identity along.

## 8. What is established, and how

| | Checked by TLC on small instances | Proved for every instance |
| --- | --- | --- |
| Resources | all properties of section 2 | all of them but `NoStarvation` |
| Admission | all properties of section 3 | `TypeOK`, and the others where `Unscoped` is false |
| Configuration pair | all properties of section 4 | all of them |
| Delivery | all properties of section 5 | `TypeOK`, `PublishedIsTrue`, `FailureGates`, `CodeBeforePlan`, `CommitIsOwn`, `CompletedIsPublished`, `ReleasesInOrder` |
| Run controls | all properties of section 6 | `TypeOK`, `AppliedOnce`, `AcceptedSurvives`, `ChangesOnce` |
| Plan lifecycle | all properties of section 7 | `TypeOK`, `NothingLost`, `RunKeepsPlan`, `MovedIsTrue`, `ShelfMoves` |

Liveness under fairness (`NoStarvation`, `Settles`, `StopHeard`, `MovesFinish`) is outside the
prover, as are ENABLED and induction over data, and stays with TLC.
Every invariant and action property that a run checks is stated by a theorem.

Every theorem rests on the `ASSUME` of its module only: null values are no values, bounds
are natural numbers, runs are finitely many, a route has a resource, a generation of the
pair has no missing or foreign document. They hold of the code by construction.

## 9. Not modelled

The modules stand for the protocols in which two actors, or one before and after its death,
meet over files. That is a small part of the implementation by lines, about a twentieth of
its 115,000; most of the rest is of kinds a state machine has little to say about:

* *The turn loop* (`workflow.py` outside the ranges mapped), the *manager gate, repartition
  and boundary overrides*: decisions of one controller over the text of providers' answers
  and Git evidence. Where others can interfere, at the gate, the boundary and the end, they
  are modelled.
* *Worker recovery and concierge*: their course depends on what an external agent answers
  and has done to the worktree.
* *Run projection, progress and reconciliation*: read-only views, of which admission's part
  is in `ProjectAdmission` as evidence.
* *Daemon resume*: validation and restoration of artifacts and worktrees; what a successor
  may claim, and what carries over to it, is in `ProjectAdmission` and `RunControls`.
* *Persistent units*: wrappers of systemd and launchd, taken as evidence that may be missing.
* *Plan consumer and dependencies, hot plugging*: they choose or check plans within one
  process.
* *Issue intake*: a state machine around external trackers; the next candidate for a module
  of its own, before the event journal's numbering.
* *Skill store and installer, configuration loading, plan parsing, harness adapters, command
  line, remote app server and web UI*: file installation by hand, parsing, command lines,
  adapters and views.

`PROJECT.json` lists every part with its sources and status, and every hazard at its line; a
hazard without a property says there why it has none.
