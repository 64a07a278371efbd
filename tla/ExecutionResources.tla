------------------------- MODULE ExecutionResources -------------------------
(***************************************************************************)
(* The durable broker of exclusive execution resources and the controllers *)
(* that use it: aflow/execution_resources.py (store, lease and admission   *)
(* loop), its call sites in aflow/workflow.py (the turn gate and           *)
(* _run_process) and the process evidence they read.                       *)
(*                                                                         *)
(* Every store operation holds the resource's flock from read to atomic    *)
(* replacement, so each is one action.  A contended lock or a failed write *)
(* leaves the journal unchanged: the caller retries (a stuttering step) or *)
(* gives up, which ends its process (Abort).                               *)
(***************************************************************************)
EXTENDS Naturals, FiniteSets

CONSTANTS
  Controllers,     \* controller processes (PID, birth, boot); never reused
  Routes,          \* prepared (role, selector) routes
  Resources,       \* resource keys derived from (harness, model, effort)
  ResourceOf,      \* the exclusive resource a route resolves to
  MaxInvocations,  \* bound: invocation ids one controller mints
  MaxClaims,       \* MAX_OUTSTANDING_CLAIMS
  MaxReboots,      \* bound: host reboots
  MaxEdits,        \* bound: live configuration edits
  NoClaim, NoSample, NoRoute, NoResource

ASSUME RouteAssumption == ResourceOf \in [Routes -> Resources]

ASSUME BoundAssumption ==
  /\ MaxInvocations \in Nat /\ MaxClaims \in Nat
  /\ MaxReboots \in Nat /\ MaxEdits \in Nat

Invocation == [by : Controllers, n : 1..MaxInvocations]

OwnerStatus == {"reserved", "launching", "running", "unconfirmed"}

\* A journal entry.  `boot' is the host boot of the controller that wrote
\* it; `bound' says that child_pid, child_birth and process_group are set.
Claim == [inv : Invocation, route : Routes, ticket : Nat, boot : Nat,
          status : OwnerStatus \cup {"queued"}, bound : BOOLEAN]

Journal == [revision : Nat, next : Nat, owner : Claim \cup {NoClaim}, queue : SUBSET Claim]

ASSUME NullAssumption ==
  /\ NoClaim \notin Claim \cup Invocation /\ NoRoute \notin Routes
  /\ NoResource \notin Resources
  /\ NoSample \notin [resource : Resources, revision : Nat, claims : SUBSET Claim]

VARIABLES
  journal,  \* per resource: the account-local journal file
  boot,     \* the host's boot identity
  pc,       \* where each controller is
  goal,     \* where it goes after a withdrawal, release or retention
  cur,      \* admission_invocation_id, 0 when None
  minted,   \* invocation ids minted so far
  prep,     \* the route the current turn was prepared with
  live,     \* the route the live configuration resolves to now
  edited,   \* the live prompt text differs from the prepared one
  edits,    \* live configuration edits so far
  sample,   \* the journal a reconciliation read without the lock
  child     \* per invocation: its provider process group

vars == <<journal, boot, pc, goal, cur, minted, prep, live, edited, edits,
          sample, child>>

config == <<prep, live, edited, edits>>

Init ==
  /\ journal = [r \in Resources |->
       [revision |-> 0, next |-> 1, owner |-> NoClaim, queue |-> {}]]
  /\ boot = 0
  /\ pc = [c \in Controllers |-> "new"]
  /\ goal = [c \in Controllers |-> "prepare"]
  /\ cur = [c \in Controllers |-> 0]
  /\ minted = [c \in Controllers |-> 0]
  /\ prep = [c \in Controllers |-> NoRoute]
  /\ live \in [Controllers -> Routes]
  /\ edited = [c \in Controllers |-> FALSE]
  /\ edits = 0
  /\ sample = [c \in Controllers |-> NoSample]
  /\ child = [i \in Invocation |->
       [resource |-> NoResource, leader |-> "none", kin |-> FALSE]]

-----------------------------------------------------------------------------
(* Helpers *)

\* The invocation a controller is admitting, and the resource it is after.
Mine(c) == [by |-> c, n |-> cur[c]]
Res(c) == ResourceOf[prep[c]]

Alive(c) == pc[c] \notin {"new", "gone"}

\* Some process of the invocation's group still runs.
Providing(i) == child[i].leader = "alive" \/ child[i].kin

ClaimsOf(j) == j.queue \cup (IF j.owner = NoClaim THEN {} ELSE {j.owner})

\* _find_claim: at most one claim of a journal carries an invocation id.
Found(c) == {k \in ClaimsOf(journal[Res(c)]) : k.inv = Mine(c)}

Owns(c, statuses) ==
  LET o == journal[Res(c)].owner
  IN  o # NoClaim /\ o.inv = Mine(c) /\ o.status \in statuses

Goto(c, from, to) == pc[c] \in from /\ pc' = [pc EXCEPT ![c] = to]

\* Every write replaces the whole journal and bumps its revision.
Write(r, next, owner, queue) ==
  journal' = [journal EXCEPT ![r] =
    [revision |-> journal[r].revision + 1, next |-> next, owner |-> owner, queue |-> queue]]

\* A claim with its status and child binding changed.
Restated(k, status, bound) ==
  [inv |-> k.inv, route |-> k.route, ticket |-> k.ticket, boot |-> k.boot,
   status |-> status, bound |-> bound]

\* The processes of an invocation's group change.
Group(i, leader, kin) ==
  child' = [child EXCEPT ![i] =
    [resource |-> child[i].resource, leader |-> leader, kin |-> kin]]

-----------------------------------------------------------------------------
(* The turn loop around the gate, and the live configuration *)

Start(c) ==
  /\ Goto(c, {"new"}, "prepare")
  /\ UNCHANGED <<journal, boot, goal, cur, minted, config, sample, child>>

\* The loop top reloads the live configuration and prepares the turn.  A
\* retained invocation id is used again; otherwise a fresh one is minted.
Prepare(c) ==
  /\ Goto(c, {"prepare"}, "enqueue")
  /\ \/ cur[c] # 0 /\ UNCHANGED <<cur, minted>>
     \/ /\ cur[c] = 0 /\ minted[c] < MaxInvocations
        /\ minted' = [minted EXCEPT ![c] = @ + 1]
        /\ cur' = [cur EXCEPT ![c] = minted[c] + 1]
  /\ prep' = [prep EXCEPT ![c] = live[c]]
  /\ edited' = [edited EXCEPT ![c] = FALSE]
  /\ UNCHANGED <<journal, boot, goal, live, edits, sample, child>>

\* The run ends at a turn boundary and its process exits.
Finish(c) ==
  /\ Goto(c, {"prepare"}, "gone")
  /\ UNCHANGED <<journal, boot, goal, cur, minted, config, sample, child>>

EditRoute(c, route) ==
  /\ edits < MaxEdits /\ route # live[c]
  /\ live' = [live EXCEPT ![c] = route]
  /\ edits' = edits + 1
  /\ UNCHANGED <<journal, boot, pc, goal, cur, minted, prep, edited, sample, child>>

EditPrompt(c) ==
  /\ edits < MaxEdits /\ ~edited[c]
  /\ edited' = [edited EXCEPT ![c] = TRUE]
  /\ edits' = edits + 1
  /\ UNCHANGED <<journal, boot, pc, goal, cur, minted, prep, live, sample, child>>

-----------------------------------------------------------------------------
(* Admission: ExecutionResourceAdmission.admit *)

\* The journal lock is held by another process: wait without a ticket.
EnqueueContended(c) ==
  /\ Goto(c, {"enqueue"}, "contended")
  /\ UNCHANGED <<journal, boot, goal, cur, minted, config, sample, child>>

NewClaim(c) ==
  [inv |-> Mine(c), route |-> prep[c], ticket |-> journal[Res(c)].next, boot |-> boot,
   status |-> "queued", bound |-> FALSE]

\* Faulty variant: not idempotent by invocation id.
EnqueueTwice(c) ==
  LET j == journal[Res(c)]
  IN
  /\ Goto(c, {"enqueue", "contended"}, "waiting")
  /\ Cardinality(ClaimsOf(j)) < MaxClaims
  /\ Write(Res(c), j.next + 1, j.owner, j.queue \cup {NewClaim(c)})
  /\ sample' = [sample EXCEPT ![c] = NoSample]
  /\ UNCHANGED <<boot, goal, cur, minted, config, child>>

\* A new claim joins the tail with the next ticket.
EnqueueNew(c) ==
  LET j == journal[Res(c)]
  IN
  /\ Goto(c, {"enqueue", "contended"}, "waiting")
  /\ Found(c) = {} /\ Cardinality(ClaimsOf(j)) < MaxClaims
  /\ Write(Res(c), j.next + 1, j.owner, j.queue \cup {NewClaim(c)})
  /\ sample' = [sample EXCEPT ![c] = NoSample]
  /\ UNCHANGED <<boot, goal, cur, minted, config, child>>

\* Faulty variant: a retained reservation waits behind itself.
EnqueueAgainWaits(c) ==
  /\ pc[c] \in {"enqueue", "contended"}
  /\ \E k \in Found(c) :
       /\ k.route = prep[c]
       /\ pc' = [pc EXCEPT ![c] = "waiting"]
  /\ sample' = [sample EXCEPT ![c] = NoSample]
  /\ UNCHANGED <<journal, boot, goal, cur, minted, config, child>>

\* The controller's own claim is there: its reservation readmits it, any
\* other status keeps it waiting.
EnqueueAgain(c) ==
  /\ pc[c] \in {"enqueue", "contended"}
  /\ \E k \in Found(c) :
       /\ k.route = prep[c]
       /\ pc' = [pc EXCEPT ![c] = IF k.status = "reserved" THEN "final" ELSE "waiting"]
  /\ sample' = [sample EXCEPT ![c] = NoSample]
  /\ UNCHANGED <<journal, boot, goal, cur, minted, config, child>>

\* identity_conflict and capacity end the run before the turn.
EnqueueRejected(c) ==
  /\ Goto(c, {"enqueue", "contended"}, "gone")
  /\ \/ \E k \in Found(c) : k.route # prep[c]
     \/ Found(c) = {} /\ Cardinality(ClaimsOf(journal[Res(c)])) >= MaxClaims
  /\ sample' = [sample EXCEPT ![c] = NoSample]
  /\ UNCHANGED <<journal, boot, goal, cur, minted, config, child>>

\* Faulty variant: whoever polls first takes the free resource.
TryAcquireAny(c) ==
  LET j == journal[Res(c)]
  IN
  /\ Goto(c, {"waiting"}, "final")
  /\ j.owner = NoClaim
  /\ \E k \in j.queue :
       /\ k.inv = Mine(c)
       /\ Write(Res(c), j.next, Restated(k, "reserved", FALSE), j.queue \ {k})
  /\ sample' = [sample EXCEPT ![c] = NoSample]
  /\ UNCHANGED <<boot, goal, cur, minted, config, child>>

\* The head of the queue takes the free resource.
TryAcquire(c) ==
  LET j == journal[Res(c)]
  IN
  /\ Goto(c, {"waiting"}, "final")
  /\ j.owner = NoClaim
  /\ \E k \in j.queue :
       /\ k.inv = Mine(c)
       /\ \A other \in j.queue : k.ticket <= other.ticket
       /\ Write(Res(c), j.next, Restated(k, "reserved", FALSE), j.queue \ {k})
  /\ sample' = [sample EXCEPT ![c] = NoSample]
  /\ UNCHANGED <<boot, goal, cur, minted, config, child>>

\* An owner stop or an unusable configuration withdraws the claim, or the
\* reservation at the final check, and ends the run.
StopWaiting(c) ==
  /\ Goto(c, {"contended", "waiting", "final"}, "withdraw")
  /\ goal' = [goal EXCEPT ![c] = "gone"]
  /\ sample' = [sample EXCEPT ![c] = NoSample]
  /\ UNCHANGED <<journal, boot, cur, minted, config, child>>

\* A changed route withdraws it and prepares a fresh invocation.
RouteChanged(c) ==
  /\ Goto(c, {"contended", "waiting", "final"}, "withdraw")
  /\ live[c] # prep[c]
  /\ goal' = [goal EXCEPT ![c] = "prepare"]
  /\ sample' = [sample EXCEPT ![c] = NoSample]
  /\ UNCHANGED <<journal, boot, cur, minted, config, child>>

\* cancel: only a claim that has not launched is removed.
Cancel(c) ==
  LET j == journal[Res(c)]
  IN
  /\ Found(c) # {}
  /\ \A k \in Found(c) : k.status \in {"queued", "reserved"}
  /\ Write(Res(c), j.next, IF j.owner \in Found(c) THEN NoClaim ELSE j.owner,
           j.queue \ Found(c))

\* _withdraw_claim: confirmed removal, or a locked read that proves absence,
\* comes before the run ends or its route changes.
Withdraw(c) ==
  /\ Goto(c, {"withdraw"}, goal[c])
  /\ \/ Cancel(c)
     \/ Found(c) = {} /\ UNCHANGED journal
  /\ cur' = [cur EXCEPT ![c] = 0]
  /\ UNCHANGED <<boot, goal, minted, config, sample, child>>

\* A prompt-only edit prepares the turn again and keeps the invocation id.
RepreparePrompt(c) ==
  /\ Goto(c, {"contended", "waiting", "final"}, "prepare")
  /\ live[c] = prep[c] /\ edited[c]
  /\ sample' = [sample EXCEPT ![c] = NoSample]
  /\ UNCHANGED <<journal, boot, goal, cur, minted, config, child>>

\* The final check found nothing changed: the lease is granted.
FinalUnchanged(c) ==
  /\ Goto(c, {"final"}, "launch")
  /\ live[c] = prep[c] /\ ~edited[c]
  /\ UNCHANGED <<journal, boot, goal, cur, minted, config, sample, child>>

-----------------------------------------------------------------------------
(* Reconciliation of dead owners and waiters *)

\* The journal is read without its lock.
ReconcileRead(c) ==
  /\ pc[c] \in {"contended", "waiting"} /\ sample[c] = NoSample
  /\ sample' = [sample EXCEPT ![c] =
       [resource |-> Res(c), revision |-> journal[Res(c)].revision,
        claims |-> ClaimsOf(journal[Res(c)])]]
  /\ UNCHANGED <<journal, boot, pc, goal, cur, minted, config, child>>

\* Faulty variants: the process group is not asked about; a reservation is
\* treated as a launched claim.
RemovableByLeader(k) ==
  \/ k.boot # boot
  \/ /\ ~Alive(k.inv.by)
     /\ \/ k.status \in {"queued", "reserved"}
        \/ k.bound /\ child[k.inv].leader # "alive"

RemovableQueued(k) ==
  \/ k.boot # boot
  \/ /\ ~Alive(k.inv.by)
     /\ \/ k.status = "queued"
        \/ /\ k.bound
           /\ child[k.inv].leader # "alive"
           /\ ~child[k.inv].kin

\* _reconcile_claim: what conclusive evidence about a sampled claim allows.
\* Evidence is sound and the facts it proves are stable; inconclusive
\* evidence keeps the claim.
Removable(k) ==
  \/ k.boot # boot
  \/ /\ ~Alive(k.inv.by)
     /\ \/ k.status \in {"queued", "reserved"}
        \/ /\ k.bound
           /\ child[k.inv].leader # "alive"
           /\ ~child[k.inv].kin

Reclaimable(c) == {k \in sample[c].claims : Removable(k)}

\* Faulty variant: the revision is not compared under the lock.
ReconcileApplyStale(c, removed) ==
  LET s == sample[c]
      j == journal[s.resource]
      gone == {k.inv : k \in removed}
  IN
  /\ Alive(c) /\ s # NoSample
  /\ removed \subseteq Reclaimable(c)
  /\ IF removed # {}
     THEN Write(s.resource, j.next,
            IF j.owner # NoClaim /\ j.owner.inv \in gone THEN NoClaim ELSE j.owner,
            {k \in j.queue : k.inv \notin gone})
     ELSE UNCHANGED journal
  /\ sample' = [sample EXCEPT ![c] = NoSample]
  /\ UNCHANGED <<boot, pc, goal, cur, minted, config, child>>

\* Under the lock, the sampled claims found dead go, unless the journal has
\* moved on since the sample.
ReconcileApply(c, removed) ==
  LET s == sample[c]
      j == journal[s.resource]
      gone == {k.inv : k \in removed}
  IN
  /\ Alive(c) /\ s # NoSample
  /\ removed \subseteq Reclaimable(c)
  /\ IF removed # {} /\ j.revision = s.revision
     THEN Write(s.resource, j.next,
            IF j.owner # NoClaim /\ j.owner.inv \in gone THEN NoClaim ELSE j.owner,
            {k \in j.queue : k.inv \notin gone})
     ELSE UNCHANGED journal
  /\ sample' = [sample EXCEPT ![c] = NoSample]
  /\ UNCHANGED <<boot, pc, goal, cur, minted, config, child>>

-----------------------------------------------------------------------------
(* The lease: ExecutionLease driven by _run_process *)

\* A nonce-checked transition of the owned claim (_owned_transition).
Transition(c, from, status, bound) ==
  LET j == journal[Res(c)]
  IN  Owns(c, from) /\ Write(Res(c), j.next, Restated(j.owner, status, bound), j.queue)

\* Faulty variant: a status the journal's reader does not know.
MarkLaunchingUnknown(c) ==
  /\ Goto(c, {"launch"}, "spawn")
  /\ Transition(c, {"reserved"}, "spawning", FALSE)
  /\ UNCHANGED <<boot, goal, cur, minted, config, sample, child>>

\* Launch intent is durable before any process starts.
MarkLaunching(c) ==
  /\ Goto(c, {"launch"}, "spawn")
  /\ Transition(c, {"reserved"}, "launching", FALSE)
  /\ UNCHANGED <<boot, goal, cur, minted, config, sample, child>>

\* The intent could not be written; the unlaunched claim is given back and
\* the turn fails before any accounting.
LaunchIntentFails(c) ==
  /\ Goto(c, {"launch"}, "release")
  /\ goal' = [goal EXCEPT ![c] = "gone"]
  /\ UNCHANGED <<journal, boot, cur, minted, config, sample, child>>

\* Popen with process_group=0: the child leads a group of its own.
Spawn(c) ==
  /\ Goto(c, {"spawn"}, "bind")
  /\ child' = [child EXCEPT ![Mine(c)] =
       [resource |-> Res(c), leader |-> "alive", kin |-> FALSE]]
  /\ UNCHANGED <<journal, boot, goal, cur, minted, config, sample>>

\* Popen failed: the launch never occurred and the turn has a failed result.
SpawnFails(c) ==
  /\ Goto(c, {"spawn"}, "release")
  /\ goal' = [goal EXCEPT ![c] = "prepare"]
  /\ UNCHANGED <<journal, boot, cur, minted, config, sample, child>>

BindChild(c) ==
  /\ Goto(c, {"bind"}, "running")
  /\ Transition(c, {"launching"}, "running", TRUE)
  /\ goal' = [goal EXCEPT ![c] = "prepare"]
  /\ UNCHANGED <<boot, cur, minted, config, sample, child>>

\* Registration failed: the claim is retained as unconfirmed (unless that
\* write fails too), and the outer handler tears the child down.
BindFails(c) ==
  /\ Goto(c, {"bind"}, "reap")
  /\ \/ Transition(c, {"launching"}, "unconfirmed", FALSE)
     \/ UNCHANGED journal
  /\ UNCHANGED <<boot, goal, cur, minted, config, sample, child>>

\* An owner stop or an error interrupts the wait for the child.
Interrupt(c) ==
  /\ Goto(c, {"running"}, "teardown")
  /\ goal' = [goal EXCEPT ![c] = "gone"]
  /\ UNCHANGED <<journal, boot, cur, minted, config, sample, child>>

\* terminate_owned_group: TERM, then KILL while the group is provably ours.
\* It may leave survivors, and says so; a child never bound keeps its claim.
Teardown(c) ==
  /\ pc[c] \in {"reap", "teardown"}
  /\ \E leader \in {child[Mine(c)].leader, "gone"}, kin \in {child[Mine(c)].kin, FALSE} :
       /\ Group(Mine(c), leader, kin)
       /\ \E to \in {"release", "retain"} :
            /\ to = "release" => leader = "gone" /\ ~kin
            /\ pc' = [pc EXCEPT ![c] = IF pc[c] = "reap" THEN "gone" ELSE to]
  /\ UNCHANGED <<journal, boot, goal, cur, minted, config, sample>>

\* Faulty variant: the wrapper's exit releases the claim.
ReapedEarly(c) ==
  /\ \E to \in {"release", "retain"} :
       /\ Goto(c, {"running"}, to)
       /\ child[Mine(c)].leader = "gone"
  /\ UNCHANGED <<journal, boot, goal, cur, minted, config, sample, child>>

\* proc.wait returned.  Only positive group absence releases the claim; a
\* live or unobservable group retains it.
Reaped(c) ==
  /\ \E to \in {"release", "retain"} :
       /\ Goto(c, {"running"}, to)
       /\ child[Mine(c)].leader = "gone"
       /\ to = "release" => ~child[Mine(c)].kin
  /\ UNCHANGED <<journal, boot, goal, cur, minted, config, sample, child>>

Release(c) ==
  /\ Goto(c, {"release"}, goal[c])
  /\ Owns(c, OwnerStatus)
  /\ Write(Res(c), journal[Res(c)].next, NoClaim, journal[Res(c)].queue)
  /\ cur' = [cur EXCEPT ![c] = 0]
  /\ UNCHANGED <<boot, goal, minted, config, sample, child>>

\* Faulty variant: the retained claim keeps the status of a turn under way.
RetainAsIs(c) ==
  /\ Goto(c, {"retain"}, goal[c])
  /\ cur' = [cur EXCEPT ![c] = 0]
  /\ UNCHANGED <<journal, boot, goal, minted, config, sample, child>>

Retain(c) ==
  /\ Goto(c, {"retain"}, goal[c])
  /\ Transition(c, OwnerStatus, "unconfirmed", journal[Res(c)].owner.bound)
  /\ cur' = [cur EXCEPT ![c] = 0]
  /\ UNCHANGED <<boot, goal, minted, config, sample, child>>

-----------------------------------------------------------------------------
(* Processes and the host *)

\* A crash, or a store operation that fails closed: the process ends and
\* leaves its claims, and any provider, behind.
Abort(c) ==
  /\ Alive(c)
  /\ pc' = [pc EXCEPT ![c] = "gone"]
  /\ sample' = [sample EXCEPT ![c] = NoSample]
  /\ UNCHANGED <<journal, boot, goal, cur, minted, config, child>>

LeaderExits(i) ==
  /\ child[i].leader = "alive"
  /\ Group(i, "gone", child[i].kin)
  /\ UNCHANGED <<journal, boot, pc, goal, cur, minted, config, sample>>

\* A wrapper starts the real provider in its own group.
Fork(i) ==
  /\ child[i].leader = "alive" /\ ~child[i].kin
  /\ Group(i, "alive", TRUE)
  /\ UNCHANGED <<journal, boot, pc, goal, cur, minted, config, sample>>

\* The reaped leader's PID goes to a stranger; a PID that still names a
\* process group is not handed out.
PidReused(i) ==
  /\ child[i].leader = "gone" /\ ~child[i].kin /\ ~Alive(i.by)
  /\ Group(i, "reused", FALSE)
  /\ UNCHANGED <<journal, boot, pc, goal, cur, minted, config, sample>>

KinExit(i) ==
  /\ child[i].kin
  /\ Group(i, child[i].leader, FALSE)
  /\ UNCHANGED <<journal, boot, pc, goal, cur, minted, config, sample>>

Reboot ==
  /\ boot < MaxReboots
  /\ boot' = boot + 1
  /\ pc' = [c \in Controllers |-> IF Alive(c) THEN "gone" ELSE pc[c]]
  /\ sample' = [c \in Controllers |-> NoSample]
  /\ child' = [i \in Invocation |->
       [resource |-> child[i].resource,
        leader |-> IF child[i].leader = "alive" THEN "gone" ELSE child[i].leader,
        kin |-> FALSE]]
  /\ UNCHANGED <<journal, goal, cur, minted, config>>

-----------------------------------------------------------------------------

Admission(c) ==
  \/ EnqueueContended(c) \/ EnqueueNew(c) \/ EnqueueAgain(c)
  \/ EnqueueRejected(c) \/ TryAcquire(c)
  \/ StopWaiting(c) \/ RouteChanged(c) \/ Withdraw(c) \/ RepreparePrompt(c) \/ FinalUnchanged(c)

Lease(c) ==
  \/ MarkLaunching(c) \/ LaunchIntentFails(c) \/ Spawn(c) \/ SpawnFails(c)
  \/ BindChild(c) \/ BindFails(c) \/ Interrupt(c) \/ Teardown(c)
  \/ Reaped(c) \/ Release(c) \/ Retain(c)

Next ==
  \/ \E c \in Controllers :
       \/ Start(c) \/ Prepare(c) \/ Finish(c) \/ EditPrompt(c)
       \/ \E route \in Routes : EditRoute(c, route)
       \/ Admission(c) \/ Lease(c) \/ ReconcileRead(c)
       \/ /\ sample[c] # NoSample
          /\ \E removed \in SUBSET Reclaimable(c) : ReconcileApply(c, removed)
       \/ Abort(c)
  \/ \E i \in Invocation : LeaderExits(i) \/ Fork(i) \/ KinExit(i) \/ PidReused(i)
  \/ Reboot

Spec == Init /\ [][Next]_vars

\* What a controller that is neither stopped nor killed goes on to do.
Work(c) ==
  \/ Prepare(c) \/ EnqueueNew(c) \/ EnqueueAgain(c) \/ EnqueueRejected(c)
  \/ TryAcquire(c) \/ RouteChanged(c) \/ RepreparePrompt(c) \/ Withdraw(c)
  \/ FinalUnchanged(c) \/ MarkLaunching(c) \/ Spawn(c) \/ BindChild(c)
  \/ Teardown(c) \/ Reaped(c) \/ Release(c) \/ Retain(c)

\* Controllers run, providers end, and the evidence a waiter gathers at
\* every control interval is not inconclusive forever.
Fairness ==
  /\ \A c \in Controllers :
       /\ WF_vars(Work(c))
       /\ WF_vars(ReconcileRead(c))
       /\ SF_vars(sample[c] # NoSample /\ ReconcileApply(c, Reclaimable(c)))
  /\ \A i \in Invocation : WF_vars(LeaderExits(i)) /\ WF_vars(KinExit(i))

FairSpec == Spec /\ Fairness

-----------------------------------------------------------------------------
(* Safety *)

\* Every variable stays in its domain (the journal's validator and the
\* controller's own bookkeeping agree on the shape of the state).
TypeOK ==
  /\ journal \in [Resources -> Journal]
  /\ boot \in Nat
  /\ pc \in [Controllers ->
       {"new", "prepare", "enqueue", "contended", "waiting", "withdraw", "final",
        "launch", "spawn", "bind", "running", "reap", "teardown", "release",
        "retain", "gone"}]
  /\ goal \in [Controllers -> {"prepare", "gone"}]
  /\ cur \in [Controllers -> 0..MaxInvocations]
  /\ minted \in [Controllers -> 0..MaxInvocations]
  /\ prep \in [Controllers -> Routes \cup {NoRoute}]
  /\ live \in [Controllers -> Routes]
  /\ edited \in [Controllers -> BOOLEAN]
  /\ edits \in Nat
  /\ sample \in [Controllers -> {NoSample} \cup
       [resource : Resources, revision : Nat, claims : SUBSET Claim]]
  /\ child \in [Invocation ->
       [resource : Resources \cup {NoResource},
        leader : {"none", "alive", "gone", "reused"}, kin : BOOLEAN]]

\* No sequence of store operations, however interleaved, writes a journal
\* that the next reader's _validate_journal would refuse: that would fail
\* every later operation on the resource closed, for good.
JournalValid ==
  \A r \in Resources :
    LET j == journal[r]
    IN  /\ j.owner # NoClaim => j.owner.status \in OwnerStatus
        /\ \A k \in j.queue : k.status = "queued"
        /\ Cardinality(j.queue) + (IF j.owner = NoClaim THEN 0 ELSE 1) <= MaxClaims
        /\ \A k \in ClaimsOf(j) :
             /\ k.ticket < j.next
             /\ \A other \in ClaimsOf(j) \ {k} :
                  other.ticket # k.ticket /\ other.inv # k.inv

\* While any process of an invocation's group runs, even after its
\* controller crashed and whatever the waiters reconcile, the journal names
\* that invocation as the owner of the resource it uses.
ProviderHoldsResource ==
  \A i \in Invocation : Providing(i) =>
    LET o == journal[child[i].resource].owner
    IN  /\ o # NoClaim /\ o.inv = i /\ o.boot = boot
        /\ o.status \in OwnerStatus \ {"reserved"}

\* The exclusive resource is exclusive: two providers of one (harness, model,
\* effort) combination never run at once.
AtMostOneProvider ==
  \A i, other \in Invocation :
    /\ Providing(i) /\ Providing(other)
    /\ child[i].resource = child[other].resource
    => i = other

\* A controller that waits, or was told it acquired, still has the claim it
\* counts on: nobody's reconciliation took the claim of a live controller.
ClaimKept ==
  \A c \in Controllers :
    /\ pc[c] = "waiting" =>
         \E k \in journal[Res(c)].queue : k.inv = Mine(c) /\ k.boot = boot
    /\ pc[c] \in {"final", "launch"} =>
         Owns(c, {"reserved"}) /\ journal[Res(c)].owner.boot = boot
    /\ pc[c] = "spawn" =>
         Owns(c, {"launching"}) /\ journal[Res(c)].owner.boot = boot

\* An owner that a journal calls launching or running is the turn its
\* controller, if that is alive, is conducting on that resource now: no exit
\* from a turn leaves such a claim behind.  A later turn of the same
\* controller waits behind a claim of its own only if that is unconfirmed or
\* was never launched (execution_resources.py:629-655, 778).
LaunchedInTurn ==
  \A r \in Resources :
    LET o == journal[r].owner
        c == o.inv.by
    IN  /\ o # NoClaim /\ o.status \in {"launching", "running"}
        /\ Alive(c)
        => /\ o.inv = Mine(c) /\ Res(c) = r
           /\ pc[c] \in {"spawn", "bind", "running", "reap", "teardown", "release", "retain"}

\* First come, first served: while a claim is queued, no claim that joined
\* the queue after it gets the resource, through any mix of crashes,
\* reconciliations and re-preparations.
NoOvertaking ==
  [][\A r \in Resources : \A k, later \in journal[r].queue :
       /\ k.ticket < later.ticket
       /\ journal'[r].owner # NoClaim
       => journal'[r].owner.inv # later.inv]_vars

-----------------------------------------------------------------------------
(* The inductive invariant behind them *)

\* Queued claims wait, owners do not, and an invocation has one claim.
OneClaimEach ==
  \A r \in Resources :
    /\ \A k \in journal[r].queue : k.status = "queued"
    /\ journal[r].owner # NoClaim => journal[r].owner.status # "queued"
    /\ \A k, other \in ClaimsOf(journal[r]) : k.inv = other.inv => k = other

\* Claims and children belong to minted invocations, and the claims of a
\* live controller to the current boot.
Minting ==
  /\ \A c \in Controllers :
       /\ cur[c] <= minted[c]
       /\ pc[c] = "new" => minted[c] = 0
  /\ \A r \in Resources : \A k \in ClaimsOf(journal[r]) :
       /\ k.inv.n <= minted[k.inv.by]
       /\ Alive(k.inv.by) => k.boot = boot
  /\ \A i \in Invocation :
       /\ i.n > minted[i.by] => child[i].leader = "none"
       /\ child[i].leader = "none" => ~child[i].kin
       /\ Providing(i) => child[i].resource \in Resources

\* The invocation a controller admits has neither a launched claim nor a
\* process.
Unlaunched(c) ==
  /\ child[Mine(c)].leader = "none"
  /\ \A r \in Resources : \A k \in ClaimsOf(journal[r]) :
       k.inv = Mine(c) => k.status \in {"queued", "reserved"}

\* What a controller counts on at each point of a turn.
ControlAt(c) ==
  /\ pc[c] \notin {"new", "prepare", "gone"} => cur[c] # 0 /\ prep[c] \in Routes
  /\ pc[c] \in {"enqueue", "contended", "waiting", "withdraw", "final", "launch"}
       => Unlaunched(c)
  /\ pc[c] = "prepare" /\ cur[c] # 0 => Unlaunched(c)
  /\ pc[c] = "waiting" => \E k \in journal[Res(c)].queue : k.inv = Mine(c)
  /\ pc[c] \in {"final", "launch"} => Owns(c, {"reserved"})
  /\ pc[c] = "spawn" => Owns(c, {"launching"}) /\ child[Mine(c)].leader = "none"
  /\ pc[c] = "bind" => Owns(c, {"launching"})
  /\ pc[c] = "release" => ~Providing(Mine(c))

Control == \A c \in Controllers : ControlAt(c)

\* An unlocked sample of the revision the journal still has is the journal.
SampleCurrent ==
  \A c \in Controllers : sample[c] # NoSample =>
    LET j == journal[sample[c].resource]
    IN  /\ sample[c].revision <= j.revision
        /\ sample[c].revision = j.revision => sample[c].claims = ClaimsOf(j)

Inv ==
  /\ TypeOK /\ OneClaimEach /\ Minting /\ Control /\ SampleCurrent
  /\ ProviderHoldsResource

-----------------------------------------------------------------------------
(* The broker implements an abstract exclusive resource *)

Holder == [r \in Resources |->
  IF journal[r].owner = NoClaim THEN NoClaim ELSE journal[r].owner.inv]

Using == [i \in Invocation |-> IF Providing(i) THEN child[i].resource ELSE NoResource]

Abstract == INSTANCE ExclusiveResource WITH
  Users <- Invocation, Nobody <- NoClaim, Nothing <- NoResource,
  holder <- Holder, using <- Using

\* Every step of stores, leases, processes and crashes is a step of the
\* abstract resource or leaves it alone: in particular no release and no
\* reclamation ever happens while a provider still runs.
ExclusiveUse == Abstract!Spec

-----------------------------------------------------------------------------
(* Liveness *)

\* The owner's cessation will never be proved: its controller died before it
\* bound a child, or lives on after retaining its claim as unconfirmed.
Unreclaimable(r) ==
  LET o == journal[r].owner
  IN  /\ o # NoClaim /\ o.status \notin {"reserved", "running"}
      /\ IF Alive(o.inv.by) THEN o.status = "unconfirmed" ELSE ~o.bound

\* A live controller has left an unlaunched claim behind on a combination it
\* is no longer after (ClaimFollowsRoute, below); nobody may remove it.
LeftBehind(r) ==
  \E k \in ClaimsOf(journal[r]) :
    LET c == k.inv.by
    IN  /\ Alive(c) /\ k.status \in {"queued", "reserved"}
        /\ ~(k.inv = Mine(c) /\ prep[c] # NoRoute /\ Res(c) = r)

Stuck(r) == Unreclaimable(r) \/ LeftBehind(r)

\* A waiting controller gets its turn, unless it stops waiting or the
\* resource is stuck behind a claim that can never be reclaimed.
NoStarvation ==
  \A c \in Controllers :
    pc[c] = "waiting" ~> (pc[c] # "waiting" \/ Stuck(Res(c)))

-----------------------------------------------------------------------------
(* What the documentation says and the code does not do *)

\* docs/runtime-behavior.md: a configuration change to the selected
\* combination "cancels the queued claim and joins the destination
\* resource's queue tail".  So one invocation never has claims on two
\* resources.
ClaimFollowsRoute ==
  \A r, other \in Resources :
    r # other => \A k \in ClaimsOf(journal[r]), l \in ClaimsOf(journal[other]) :
      k.inv # l.inv

=============================================================================
