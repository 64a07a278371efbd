---------------------- MODULE ExecutionResourcesProofs ----------------------
(***************************************************************************)
(* Proofs about ExecutionResources, for any controllers, routes, resources *)
(* and bounds.                                                             *)
(***************************************************************************)
EXTENDS ExecutionResources, TLAPS

-----------------------------------------------------------------------------
(* The shapes of what a step reads and writes *)

\* A controller in the middle of a turn works on a minted invocation and a
\* known resource.
LEMMA ActorType ==
  ASSUME TypeOK, Control, NEW c \in Controllers, pc[c] \notin {"new", "prepare", "gone"}
  PROVE  Mine(c) \in Invocation /\ Res(c) \in Resources /\ prep[c] \in Routes
<1>1. cur[c] \in 1..MaxInvocations /\ prep[c] \in Routes
  BY BoundAssumption DEF TypeOK, Control, ControlAt
<1> QED
  BY <1>1, RouteAssumption DEF Mine, Res, Invocation

LEMMA JournalType ==
  ASSUME TypeOK, NEW r \in Resources
  PROVE  /\ journal[r] \in Journal
         /\ journal[r].revision \in Nat /\ journal[r].next \in Nat
         /\ journal[r].owner \in Claim \cup {NoClaim}
         /\ journal[r].queue \in SUBSET Claim
         /\ ClaimsOf(journal[r]) \in SUBSET Claim
BY DEF TypeOK, Journal, ClaimsOf

LEMMA WriteType ==
  ASSUME TypeOK, NEW r \in Resources, NEW next \in Nat,
         NEW owner \in Claim \cup {NoClaim}, NEW queue \in SUBSET Claim,
         Write(r, next, owner, queue)
  PROVE  journal' \in [Resources -> Journal]
<1>1. [revision |-> journal[r].revision + 1, next |-> next, owner |-> owner,
       queue |-> queue] \in Journal
  BY JournalType DEF Journal
<1> QED
  BY <1>1 DEF TypeOK, Write

LEMMA NewClaimType ==
  ASSUME TypeOK, NEW c \in Controllers, Mine(c) \in Invocation, Res(c) \in Resources,
         prep[c] \in Routes
  PROVE  NewClaim(c) \in Claim
BY JournalType DEF NewClaim, Claim, TypeOK

LEMMA RestatedType ==
  ASSUME NEW k \in Claim, NEW status \in OwnerStatus, NEW bound \in BOOLEAN
  PROVE  Restated(k, status, bound) \in Claim
BY DEF Restated, Claim

LEMMA TransitionType ==
  ASSUME TypeOK, NEW c \in Controllers, Res(c) \in Resources,
         NEW from, NEW status \in OwnerStatus, NEW bound \in BOOLEAN,
         Transition(c, from, status, bound)
  PROVE  journal' \in [Resources -> Journal]
<1>1. journal[Res(c)].owner \in Claim
  BY JournalType DEF Transition, Owns
<1> QED
  BY <1>1, RestatedType, JournalType, WriteType DEF Transition

LEMMA GroupType ==
  ASSUME TypeOK, NEW i \in Invocation, NEW leader \in {"none", "alive", "gone", "reused"},
         NEW kin \in BOOLEAN, Group(i, leader, kin)
  PROVE  child' \in [Invocation -> [resource : Resources \cup {NoResource},
                       leader : {"none", "alive", "gone", "reused"}, kin : BOOLEAN]]
BY DEF TypeOK, Group


-----------------------------------------------------------------------------
(* Which steps change what *)

LEMMA Writers ==
  ASSUME [Next]_vars
  PROVE  \/ UNCHANGED journal
         \/ \E c \in Controllers :
              \/ EnqueueNew(c) \/ TryAcquire(c) \/ Withdraw(c) \/ MarkLaunching(c)
              \/ BindChild(c) \/ BindFails(c) \/ Retain(c) \/ Release(c)
              \/ /\ sample[c] # NoSample
                 /\ \E removed \in SUBSET Reclaimable(c) : ReconcileApply(c, removed)
<1>1. ASSUME NEW c \in Controllers, Admission(c)
      PROVE  UNCHANGED journal \/ EnqueueNew(c) \/ TryAcquire(c) \/ Withdraw(c)
  BY <1>1 DEF Admission, EnqueueContended, EnqueueAgain, EnqueueRejected, StopWaiting,
       RouteChanged, RepreparePrompt, FinalUnchanged
<1>2. ASSUME NEW c \in Controllers, Lease(c)
      PROVE  \/ UNCHANGED journal \/ MarkLaunching(c) \/ BindChild(c) \/ BindFails(c)
             \/ Retain(c) \/ Release(c)
  BY <1>2 DEF Lease, LaunchIntentFails, Spawn, SpawnFails, Interrupt, Teardown, Reaped
<1>3. ASSUME NEW c \in Controllers,
             \/ Start(c) \/ Prepare(c) \/ Finish(c) \/ EditPrompt(c) \/ ReconcileRead(c) \/ Abort(c)
             \/ \E route \in Routes : EditRoute(c, route)
      PROVE  UNCHANGED journal
  BY <1>3 DEF Start, Prepare, Finish, EditPrompt, EditRoute, ReconcileRead, Abort
<1>4. ASSUME NEW i \in Invocation, LeaderExits(i) \/ Fork(i) \/ KinExit(i) \/ PidReused(i)
      PROVE  UNCHANGED journal
  BY <1>4 DEF LeaderExits, Fork, KinExit, PidReused
<1>5. ASSUME Reboot PROVE UNCHANGED journal
  BY <1>5 DEF Reboot
<1> QED
  BY <1>1, <1>2, <1>3, <1>4, <1>5 DEF Next, vars


LEMMA ChildSteps ==
  ASSUME [Next]_vars
  PROVE  \/ UNCHANGED <<child, boot>>
         \/ \E c \in Controllers : Spawn(c) \/ Teardown(c)
         \/ \E i \in Invocation : LeaderExits(i) \/ Fork(i) \/ KinExit(i) \/ PidReused(i)
         \/ Reboot
<1>1. ASSUME NEW c \in Controllers, Admission(c) PROVE UNCHANGED <<child, boot>>
  BY <1>1 DEF Admission, EnqueueContended, EnqueueNew, EnqueueAgain, EnqueueRejected,
       TryAcquire, StopWaiting, RouteChanged, Withdraw, RepreparePrompt, FinalUnchanged
<1>2. ASSUME NEW c \in Controllers, Lease(c)
      PROVE  UNCHANGED <<child, boot>> \/ Spawn(c) \/ Teardown(c)
  BY <1>2 DEF Lease, MarkLaunching, LaunchIntentFails, SpawnFails, BindChild, BindFails,
       Interrupt, Reaped, Release, Retain
<1>3. ASSUME NEW c \in Controllers,
             \/ Start(c) \/ Prepare(c) \/ Finish(c) \/ EditPrompt(c) \/ ReconcileRead(c) \/ Abort(c)
             \/ \E route \in Routes : EditRoute(c, route)
             \/ \E removed \in SUBSET Reclaimable(c) : ReconcileApply(c, removed)
      PROVE  UNCHANGED <<child, boot>>
  BY <1>3 DEF Start, Prepare, Finish, EditPrompt, EditRoute, ReconcileRead, ReconcileApply, Abort
<1> QED
  BY <1>1, <1>2, <1>3 DEF Next, vars

LEMMA PlaceSteps ==
  ASSUME TypeOK, [Next]_vars, NEW d \in Controllers
  PROVE  /\ pc'[d] = "new" => pc[d] = "new"
         /\ pc[d] = "gone" => pc'[d] = "gone"
<1> DEFINE Goal == /\ pc'[d] = "new" => pc[d] = "new"
                   /\ pc[d] = "gone" => pc'[d] = "gone"
<1>1. ASSUME NEW c \in Controllers, Admission(c) PROVE Goal
  BY <1>1 DEF Admission, EnqueueContended, EnqueueNew, EnqueueAgain, EnqueueRejected, TypeOK,
       TryAcquire, StopWaiting, RouteChanged, Withdraw, RepreparePrompt, FinalUnchanged, Goto
<1>2. ASSUME NEW c \in Controllers, Lease(c) PROVE Goal
  BY <1>2 DEF Lease, MarkLaunching, LaunchIntentFails, Spawn, SpawnFails, BindChild, BindFails, TypeOK,
       Interrupt, Reaped, Release, Retain, Teardown, Goto
<1>3. ASSUME NEW c \in Controllers,
             \/ Start(c) \/ Prepare(c) \/ Finish(c) \/ EditPrompt(c) \/ ReconcileRead(c)
             \/ \E route \in Routes : EditRoute(c, route)
             \/ \E removed \in SUBSET Reclaimable(c) : ReconcileApply(c, removed)
             \/ Abort(c)
      PROVE  Goal
  BY <1>3 DEF Start, Prepare, Finish, EditPrompt, EditRoute, ReconcileRead, ReconcileApply, Abort, Goto, TypeOK, Alive
<1>4. ASSUME NEW i \in Invocation, LeaderExits(i) \/ Fork(i) \/ KinExit(i) \/ PidReused(i)
      PROVE  Goal
  BY <1>4 DEF LeaderExits, Fork, KinExit, PidReused
<1>5. ASSUME Reboot PROVE Goal
  BY <1>5 DEF Reboot, Alive, TypeOK
<1> QED
  BY <1>1, <1>2, <1>3, <1>4, <1>5 DEF Next, vars

LEMMA MintedSteps ==
  ASSUME TypeOK, [Next]_vars, NEW d \in Controllers, cur[d] <= minted[d]
  PROVE  \/ cur'[d] \in {cur[d], 0} /\ minted'[d] = minted[d]
         \/ /\ minted'[d] = minted[d] + 1 /\ cur'[d] = minted'[d]
            /\ pc'[d] # "new"
<1> DEFINE Goal == cur'[d] \in {cur[d], 0} /\ minted'[d] = minted[d]
<1>1. ASSUME NEW c \in Controllers, Admission(c) PROVE Goal
  BY <1>1 DEF Admission, EnqueueContended, EnqueueNew, EnqueueAgain, EnqueueRejected, TypeOK,
       TryAcquire, StopWaiting, RouteChanged, Withdraw, RepreparePrompt, FinalUnchanged
<1>2. ASSUME NEW c \in Controllers, Lease(c) PROVE Goal
  BY <1>2 DEF Lease, MarkLaunching, LaunchIntentFails, Spawn, SpawnFails, BindChild, BindFails, TypeOK,
       Interrupt, Reaped, Release, Retain, Teardown
<1>3. ASSUME NEW c \in Controllers,
             \/ Start(c) \/ Finish(c) \/ EditPrompt(c) \/ ReconcileRead(c)
             \/ \E route \in Routes : EditRoute(c, route)
             \/ \E removed \in SUBSET Reclaimable(c) : ReconcileApply(c, removed)
             \/ Abort(c)
      PROVE  Goal
  BY <1>3 DEF Start, Finish, EditPrompt, EditRoute, ReconcileRead, ReconcileApply, Abort
<1>4. ASSUME NEW i \in Invocation, LeaderExits(i) \/ Fork(i) \/ KinExit(i) \/ PidReused(i)
      PROVE  Goal
  BY <1>4 DEF LeaderExits, Fork, KinExit, PidReused
<1>5. ASSUME Reboot PROVE Goal
  BY <1>5 DEF Reboot
<1>6. ASSUME NEW c \in Controllers, Prepare(c)
      PROVE  \/ Goal
             \/ /\ minted'[d] = minted[d] + 1 /\ cur'[d] = minted'[d]
                /\ pc'[d] # "new"
  BY <1>6 DEF Prepare, Goto, TypeOK
<1> QED
  BY <1>1, <1>2, <1>3, <1>4, <1>5, <1>6 DEF Next, vars

-----------------------------------------------------------------------------
(* Type correctness *)

LEMMA InitType == Init => TypeOK
BY BoundAssumption, NullAssumption, RouteAssumption DEF Init, TypeOK, Journal

\* Controllers act on the invocations and resources Control gives them, so
\* every step keeps the types.
LEMMA NextType ==
  ASSUME TypeOK, Control, [Next]_vars
  PROVE  TypeOK'
<1> USE BoundAssumption, NullAssumption
<1>1. ASSUME NEW c \in Controllers, Start(c) PROVE TypeOK'
  BY <1>1 DEF TypeOK, Start, Goto, config
<1>2. ASSUME NEW c \in Controllers, Prepare(c) PROVE TypeOK'
  BY <1>2 DEF TypeOK, Prepare, Goto, config
<1>3. ASSUME NEW c \in Controllers, Finish(c) PROVE TypeOK'
  BY <1>3 DEF TypeOK, Finish, Goto, config
<1>4. ASSUME NEW c \in Controllers, EditPrompt(c) PROVE TypeOK'
  BY <1>4 DEF TypeOK, EditPrompt, Goto, config
<1>5. ASSUME NEW c \in Controllers, EnqueueContended(c) PROVE TypeOK'
  BY <1>5 DEF TypeOK, EnqueueContended, Goto, config
<1>6. ASSUME NEW c \in Controllers, EnqueueNew(c) PROVE TypeOK'
  <2>1. Mine(c) \in Invocation /\ Res(c) \in Resources /\ prep[c] \in Routes
    BY <1>6, ActorType DEF EnqueueNew, Goto
  <2>2. journal' \in [Resources -> Journal]
    BY <1>6, <2>1, JournalType, WriteType, NewClaimType DEF EnqueueNew
  <2> QED
    BY <1>6, <2>2 DEF TypeOK, EnqueueNew, Goto, config
<1>7. ASSUME NEW c \in Controllers, EnqueueAgain(c) PROVE TypeOK'
  BY <1>7 DEF TypeOK, EnqueueAgain, Goto, config
<1>8. ASSUME NEW c \in Controllers, EnqueueRejected(c) PROVE TypeOK'
  BY <1>8 DEF TypeOK, EnqueueRejected, Goto, config
<1>9. ASSUME NEW c \in Controllers, TryAcquire(c) PROVE TypeOK'
  <2>1. Res(c) \in Resources
    BY <1>9, ActorType DEF TryAcquire, Goto
  <2>2. PICK k \in journal[Res(c)].queue :
          Write(Res(c), journal[Res(c)].next, Restated(k, "reserved", FALSE),
                journal[Res(c)].queue \ {k})
    BY <1>9 DEF TryAcquire
  <2>3. /\ Restated(k, "reserved", FALSE) \in Claim \cup {NoClaim}
        /\ journal[Res(c)].queue \ {k} \in SUBSET Claim
        /\ journal[Res(c)].next \in Nat
    BY <2>1, JournalType, RestatedType DEF OwnerStatus
  <2>4. journal' \in [Resources -> Journal]
    <3> DEFINE owner == Restated(k, "reserved", FALSE)
               queue == journal[Res(c)].queue \ {k}
    <3> HIDE DEF owner, queue
    <3>1. owner \in Claim \cup {NoClaim} /\ queue \in SUBSET Claim
      BY <2>3 DEF owner, queue
    <3>2. Write(Res(c), journal[Res(c)].next, owner, queue)
      BY <2>2 DEF owner, queue
    <3> QED
      BY <2>1, <2>3, <3>1, <3>2, WriteType
  <2> QED
    BY <1>9, <2>4 DEF TypeOK, TryAcquire, Goto, config
<1>10. ASSUME NEW c \in Controllers, StopWaiting(c) PROVE TypeOK'
  BY <1>10 DEF TypeOK, StopWaiting, Goto, config
<1>11. ASSUME NEW c \in Controllers, RouteChanged(c) PROVE TypeOK'
  BY <1>11 DEF TypeOK, RouteChanged, Goto, config
<1>12. ASSUME NEW c \in Controllers, Withdraw(c) PROVE TypeOK'
  <2>1. Mine(c) \in Invocation /\ Res(c) \in Resources /\ prep[c] \in Routes
    BY <1>12, ActorType DEF Withdraw, Goto
  <2>2. journal' \in [Resources -> Journal]
    BY <1>12, <2>1, JournalType, WriteType DEF Withdraw, Cancel, TypeOK
  <2> QED
    BY <1>12, <2>2 DEF TypeOK, Withdraw, Goto, config
<1>13. ASSUME NEW c \in Controllers, RepreparePrompt(c) PROVE TypeOK'
  BY <1>13 DEF TypeOK, RepreparePrompt, Goto, config
<1>14. ASSUME NEW c \in Controllers, FinalUnchanged(c) PROVE TypeOK'
  BY <1>14 DEF TypeOK, FinalUnchanged, Goto, config
<1>15. ASSUME NEW c \in Controllers, ReconcileRead(c) PROVE TypeOK'
  <2>1. Res(c) \in Resources
    BY <1>15, ActorType DEF ReconcileRead
  <2> QED
    BY <1>15, <2>1, JournalType DEF TypeOK, ReconcileRead, config
<1>16. ASSUME NEW c \in Controllers, MarkLaunching(c) PROVE TypeOK'
  <2>1. Mine(c) \in Invocation /\ Res(c) \in Resources /\ prep[c] \in Routes
    BY <1>16, ActorType DEF MarkLaunching, Goto
  <2>2. journal' \in [Resources -> Journal]
    BY <1>16, <2>1, JournalType, TransitionType DEF MarkLaunching, OwnerStatus, TypeOK
  <2> QED
    BY <1>16, <2>2 DEF TypeOK, MarkLaunching, Goto, config
<1>17. ASSUME NEW c \in Controllers, LaunchIntentFails(c) PROVE TypeOK'
  BY <1>17 DEF TypeOK, LaunchIntentFails, Goto, config
<1>18. ASSUME NEW c \in Controllers, Spawn(c) PROVE TypeOK'
  <2>1. Mine(c) \in Invocation /\ Res(c) \in Resources
    BY <1>18, ActorType DEF Spawn, Goto
  <2> QED
    BY <1>18, <2>1 DEF TypeOK, Spawn, Goto, config
<1>19. ASSUME NEW c \in Controllers, SpawnFails(c) PROVE TypeOK'
  BY <1>19 DEF TypeOK, SpawnFails, Goto, config
<1>20. ASSUME NEW c \in Controllers, BindChild(c) PROVE TypeOK'
  <2>1. Mine(c) \in Invocation /\ Res(c) \in Resources /\ prep[c] \in Routes
    BY <1>20, ActorType DEF BindChild, Goto
  <2>2. journal' \in [Resources -> Journal]
    BY <1>20, <2>1, JournalType, TransitionType DEF BindChild, OwnerStatus, TypeOK
  <2> QED
    BY <1>20, <2>2 DEF TypeOK, BindChild, Goto, config
<1>21. ASSUME NEW c \in Controllers, BindFails(c) PROVE TypeOK'
  <2>1. Mine(c) \in Invocation /\ Res(c) \in Resources /\ prep[c] \in Routes
    BY <1>21, ActorType DEF BindFails, Goto
  <2>2. journal' \in [Resources -> Journal]
    BY <1>21, <2>1, JournalType, TransitionType DEF BindFails, OwnerStatus, TypeOK
  <2> QED
    BY <1>21, <2>2 DEF TypeOK, BindFails, Goto, config
<1>22. ASSUME NEW c \in Controllers, Interrupt(c) PROVE TypeOK'
  BY <1>22 DEF TypeOK, Interrupt, Goto, config
<1>23. ASSUME NEW c \in Controllers, Teardown(c) PROVE TypeOK'
  <2>1. Mine(c) \in Invocation
    BY <1>23, ActorType DEF Teardown
  <2>2. child[Mine(c)].leader \in {"none", "alive", "gone", "reused"}
        /\ child[Mine(c)].kin \in BOOLEAN
    BY <2>1 DEF TypeOK
  <2>3. child' \in [Invocation -> [resource : Resources \cup {NoResource},
                       leader : {"none", "alive", "gone", "reused"}, kin : BOOLEAN]]
    <3>1. PICK leader \in {child[Mine(c)].leader, "gone"}, kin \in {child[Mine(c)].kin, FALSE} :
            Group(Mine(c), leader, kin)
      BY <1>23 DEF Teardown
    <3> QED
      BY <2>1, <2>2, <3>1, GroupType
  <2>4. pc' \in [Controllers ->
          {"new", "prepare", "enqueue", "contended", "waiting", "withdraw", "final",
           "launch", "spawn", "bind", "running", "reap", "teardown", "release",
           "retain", "gone"}]
    BY <1>23 DEF Teardown, TypeOK
  <2> QED
    BY <1>23, <2>3, <2>4 DEF TypeOK, Teardown, config
<1>24. ASSUME NEW c \in Controllers, Reaped(c) PROVE TypeOK'
  BY <1>24 DEF TypeOK, Reaped, Goto, config
<1>25. ASSUME NEW c \in Controllers, Release(c) PROVE TypeOK'
  <2>1. Mine(c) \in Invocation /\ Res(c) \in Resources /\ prep[c] \in Routes
    BY <1>25, ActorType DEF Release, Goto
  <2>2. journal' \in [Resources -> Journal]
    BY <1>25, <2>1, JournalType, WriteType DEF Release
  <2> QED
    BY <1>25, <2>2 DEF TypeOK, Release, Goto, config
<1>26. ASSUME NEW c \in Controllers, Retain(c) PROVE TypeOK'
  <2>1. Res(c) \in Resources
    BY <1>26, ActorType DEF Retain, Goto
  <2>2. journal[Res(c)].owner.bound \in BOOLEAN
    BY <1>26, <2>1, JournalType DEF Retain, Transition, Owns, Claim
  <2>3. journal' \in [Resources -> Journal]
    BY <1>26, <2>1, <2>2, TransitionType DEF Retain, OwnerStatus
  <2> QED
    BY <1>26, <2>3 DEF TypeOK, Retain, Goto, config
<1>27. ASSUME NEW c \in Controllers, Abort(c) PROVE TypeOK'
  BY <1>27 DEF TypeOK, Abort, Goto, config
<1>28. ASSUME NEW c \in Controllers, NEW route \in Routes, EditRoute(c, route) PROVE TypeOK'
  BY <1>28 DEF TypeOK, EditRoute, config
<1>29. ASSUME NEW c \in Controllers, sample[c] # NoSample,
            NEW removed \in SUBSET Reclaimable(c), ReconcileApply(c, removed)
     PROVE  TypeOK'
  <2>1. sample[c].resource \in Resources
    BY <1>29 DEF TypeOK
  <2>2. journal' \in [Resources -> Journal]
    BY <1>29, <2>1, JournalType, WriteType DEF ReconcileApply, TypeOK
  <2> QED
    BY <1>29, <2>2 DEF TypeOK, ReconcileApply, config
<1>30. ASSUME NEW i \in Invocation, LeaderExits(i) PROVE TypeOK'
  <2>1. child[i].kin \in BOOLEAN
    BY DEF TypeOK
  <2> QED
    BY <1>30, <2>1, GroupType DEF TypeOK, LeaderExits, config
<1>31. ASSUME NEW i \in Invocation, Fork(i) PROVE TypeOK'
  BY <1>31, GroupType DEF TypeOK, Fork, config
<1>32. ASSUME NEW i \in Invocation, PidReused(i) PROVE TypeOK'
  BY <1>32, GroupType DEF TypeOK, PidReused, config
<1>33. ASSUME NEW i \in Invocation, KinExit(i) PROVE TypeOK'
  <2>1. child[i].leader \in {"none", "alive", "gone", "reused"}
    BY DEF TypeOK
  <2>2. Group(i, child[i].leader, FALSE)
    BY <1>33 DEF KinExit
  <2>3. child' \in [Invocation -> [resource : Resources \cup {NoResource},
                       leader : {"none", "alive", "gone", "reused"}, kin : BOOLEAN]]
    BY <2>1, <2>2, GroupType
  <2> QED
    BY <1>33, <2>3 DEF TypeOK, KinExit, config
<1>34. ASSUME Reboot PROVE TypeOK'
  BY <1>34 DEF TypeOK, Reboot, config
<1>35. ASSUME UNCHANGED vars PROVE TypeOK'
  BY <1>35 DEF TypeOK, vars, config
<1> QED
  BY <1>1, <1>2, <1>3, <1>4, <1>5, <1>6, <1>7, <1>8, <1>9, <1>10, <1>11, <1>12, <1>13, <1>14, <1>15, <1>16, <1>17, <1>18, <1>19, <1>20, <1>21, <1>22, <1>23, <1>24, <1>25, <1>26, <1>27, <1>28, <1>29, <1>30, <1>31, <1>32, <1>33, <1>34, <1>35 DEF Next, Admission, Lease


-----------------------------------------------------------------------------
(* What a step does to the journals *)

LEMMA WriteEffect ==
  ASSUME TypeOK, NEW r \in Resources, NEW next, NEW owner, NEW queue,
         Write(r, next, owner, queue)
  PROVE  /\ journal'[r].owner = owner /\ journal'[r].queue = queue
         /\ journal'[r].revision = journal[r].revision + 1
         /\ \A q \in Resources : q # r => journal'[q] = journal[q]
BY DEF TypeOK, Write

\* The claims a write leaves are old ones, except that the owner may have
\* been taken from the queue or restated.
Shrinks(r, owner, queue) ==
  /\ queue \subseteq journal[r].queue
  /\ owner # NoClaim =>
       /\ owner.status # "queued"
       /\ \E k \in ClaimsOf(journal[r]) \ queue : k.inv = owner.inv /\ k.boot = owner.boot

ShrinkStep == \E r \in Resources : \E owner, queue :
  Write(r, journal[r].next, owner, queue) /\ Shrinks(r, owner, queue)

\* An owner is never in the queue, so it may stay while the queue shrinks.
LEMMA OwnerStays ==
  ASSUME OneClaimEach, NEW r \in Resources, NEW queue \in SUBSET journal[r].queue
  PROVE  Shrinks(r, journal[r].owner, queue)
BY DEF OneClaimEach, Shrinks, ClaimsOf

LEMMA TransitionShrinks ==
  ASSUME TypeOK, OneClaimEach, NEW c \in Controllers, Res(c) \in Resources,
         NEW from, NEW status \in OwnerStatus, NEW bound, Transition(c, from, status, bound)
  PROVE  ShrinkStep
<1> DEFINE j == journal[Res(c)]
           owner == Restated(j.owner, status, bound)
<1>1. Write(Res(c), j.next, owner, j.queue) /\ j.owner # NoClaim
  BY DEF Transition, Owns
<1>2. /\ owner.status # "queued"
      /\ owner.inv = j.owner.inv /\ owner.boot = j.owner.boot
  BY DEF Restated, OwnerStatus
<1>3. j.owner \in ClaimsOf(j) \ j.queue
  BY <1>1 DEF OneClaimEach, ClaimsOf
<1>4. Shrinks(Res(c), owner, j.queue)
  BY <1>2, <1>3 DEF Shrinks
<1> QED
  BY <1>1, <1>4 DEF ShrinkStep

JournalStep ==
  UNCHANGED journal \/ ShrinkStep \/ \E c \in Controllers : EnqueueNew(c)

\* Only enqueuing adds a claim; every other step shrinks a journal or leaves
\* all of them alone.
LEMMA JournalSteps ==
  ASSUME TypeOK, Control, OneClaimEach, [Next]_vars
  PROVE  JournalStep
<1> USE DEF JournalStep
<1>1. ASSUME NEW c \in Controllers, EnqueueNew(c) PROVE JournalStep
  BY <1>1 DEF JournalStep
<1>2. ASSUME NEW c \in Controllers, TryAcquire(c) PROVE JournalStep
  <2>1. Res(c) \in Resources
    BY <1>2, ActorType DEF TryAcquire, Goto
  <2>2. PICK k \in journal[Res(c)].queue :
          Write(Res(c), journal[Res(c)].next, Restated(k, "reserved", FALSE),
                journal[Res(c)].queue \ {k})
    BY <1>2 DEF TryAcquire
  <2>3. Shrinks(Res(c), Restated(k, "reserved", FALSE), journal[Res(c)].queue \ {k})
    BY DEF Shrinks, Restated, ClaimsOf
  <2> QED
    BY <2>1, <2>2, <2>3 DEF ShrinkStep
<1>3. ASSUME NEW c \in Controllers, Withdraw(c) PROVE JournalStep
  <2>1. Res(c) \in Resources
    BY <1>3, ActorType DEF Withdraw, Goto
  <2> DEFINE j == journal[Res(c)]
             queue == j.queue \ Found(c)
             owner == IF j.owner \in Found(c) THEN NoClaim ELSE j.owner
  <2>2. Shrinks(Res(c), owner, queue)
    BY <2>1, OwnerStays DEF Shrinks
  <2>3. UNCHANGED journal \/ Write(Res(c), j.next, owner, queue)
    BY <1>3 DEF Withdraw, Cancel
  <2> QED
    BY <2>1, <2>2, <2>3 DEF ShrinkStep
<1>4. ASSUME NEW c \in Controllers, MarkLaunching(c) PROVE JournalStep
  <2>1. Res(c) \in Resources
    BY <1>4, ActorType DEF MarkLaunching, Goto
  <2> QED
    BY <1>4, <2>1, TransitionShrinks DEF MarkLaunching, OwnerStatus
<1>5. ASSUME NEW c \in Controllers, BindChild(c) PROVE JournalStep
  <2>1. Res(c) \in Resources
    BY <1>5, ActorType DEF BindChild, Goto
  <2> QED
    BY <1>5, <2>1, TransitionShrinks DEF BindChild, OwnerStatus
<1>6. ASSUME NEW c \in Controllers, BindFails(c) PROVE JournalStep
  <2>1. Res(c) \in Resources
    BY <1>6, ActorType DEF BindFails, Goto
  <2> QED
    BY <1>6, <2>1, TransitionShrinks DEF BindFails, OwnerStatus
<1>7. ASSUME NEW c \in Controllers, Release(c) PROVE JournalStep
  <2>1. Res(c) \in Resources
    BY <1>7, ActorType DEF Release, Goto
  <2>2. Shrinks(Res(c), NoClaim, journal[Res(c)].queue)
    BY DEF Shrinks
  <2> QED
    BY <1>7, <2>1, <2>2 DEF Release, ShrinkStep
<1>8. ASSUME NEW c \in Controllers, Retain(c) PROVE JournalStep
  <2>1. Res(c) \in Resources
    BY <1>8, ActorType DEF Retain, Goto
  <2> QED
    BY <1>8, <2>1, TransitionShrinks DEF Retain, OwnerStatus
<1>9. ASSUME NEW c \in Controllers, sample[c] # NoSample,
            NEW removed \in SUBSET Reclaimable(c), ReconcileApply(c, removed)
     PROVE  JournalStep
  <2> DEFINE r == sample[c].resource
             gone == {k.inv : k \in removed}
             queue == {k \in journal[r].queue : k.inv \notin gone}
             owner == IF journal[r].owner # NoClaim /\ journal[r].owner.inv \in gone
                      THEN NoClaim ELSE journal[r].owner
  <2>1. r \in Resources
    BY <1>9 DEF TypeOK
  <2>2. Shrinks(r, owner, queue)
    BY <2>1, OwnerStays DEF Shrinks
  <2>3. UNCHANGED journal \/ Write(r, journal[r].next, owner, queue)
    BY <1>9 DEF ReconcileApply
  <2> QED
    BY <2>1, <2>2, <2>3 DEF ShrinkStep
<1> QED
  BY <1>1, <1>2, <1>3, <1>4, <1>5, <1>6, <1>7, <1>8, <1>9, Writers DEF JournalStep

-----------------------------------------------------------------------------
(* The journals stay well formed *)

LEMMA NextOneClaim ==
  ASSUME TypeOK, Control, OneClaimEach, [Next]_vars
  PROVE  OneClaimEach'
<1>1. JournalStep
  BY JournalSteps
<1>2. CASE UNCHANGED journal
  BY <1>2 DEF OneClaimEach, ClaimsOf
<1>3. CASE ShrinkStep
  <2>0. PICK r \in Resources : \E owner, queue :
          Write(r, journal[r].next, owner, queue) /\ Shrinks(r, owner, queue)
    BY <1>3 DEF ShrinkStep
  <2>1. PICK owner, queue :
          Write(r, journal[r].next, owner, queue) /\ Shrinks(r, owner, queue)
    BY <2>0
  <2>2. /\ journal'[r].owner = owner /\ journal'[r].queue = queue
        /\ \A q \in Resources : q # r => journal'[q] = journal[q]
    BY <2>1, WriteEffect
  <2>3. ASSUME NEW q \in Resources, q # r
        PROVE  /\ \A k \in journal'[q].queue : k.status = "queued"
               /\ journal'[q].owner # NoClaim => journal'[q].owner.status # "queued"
               /\ \A k, other \in ClaimsOf(journal'[q]) : k.inv = other.inv => k = other
    BY <2>2, <2>3 DEF OneClaimEach
  <2>4. \A k \in queue : k.status = "queued"
    BY <2>1 DEF Shrinks, OneClaimEach
  <2>5. owner # NoClaim => owner.status # "queued" /\ \A k \in queue : k.inv # owner.inv
    BY <2>1 DEF Shrinks, OneClaimEach, ClaimsOf
  <2>6. \A k, other \in queue : k.inv = other.inv => k = other
    BY <2>1 DEF Shrinks, OneClaimEach, ClaimsOf
  <2>7. \A k, other \in ClaimsOf(journal'[r]) : k.inv = other.inv => k = other
    BY <2>2, <2>5, <2>6 DEF ClaimsOf
  <2> QED
    BY <2>2, <2>3, <2>4, <2>5, <2>7 DEF OneClaimEach
<1>4. ASSUME NEW c \in Controllers, EnqueueNew(c) PROVE OneClaimEach'
  <2> DEFINE r == Res(c)
             j == journal[r]
  <2>1. r \in Resources
    BY <1>4, ActorType DEF EnqueueNew, Goto
  <2>2. /\ journal'[r].owner = j.owner
        /\ journal'[r].queue = j.queue \cup {NewClaim(c)}
        /\ \A q \in Resources : q # r => journal'[q] = journal[q]
    BY <1>4, <2>1, WriteEffect DEF EnqueueNew
  <2>3. NewClaim(c).status = "queued" /\ NewClaim(c).inv = Mine(c)
    BY DEF NewClaim
  <2>4. \A k \in ClaimsOf(j) : k.inv # Mine(c)
    BY <1>4 DEF EnqueueNew, Found
  <2>5. /\ \A k \in journal'[r].queue : k.status = "queued"
        /\ journal'[r].owner # NoClaim => journal'[r].owner.status # "queued"
    BY <2>1, <2>2, <2>3 DEF OneClaimEach
  <2>6. ClaimsOf(journal'[r]) = ClaimsOf(j) \cup {NewClaim(c)}
    BY <2>2 DEF ClaimsOf
  <2>7. \A k, other \in ClaimsOf(journal'[r]) : k.inv = other.inv => k = other
    BY <2>1, <2>3, <2>4, <2>6 DEF OneClaimEach
  <2> QED
    BY <2>2, <2>5, <2>7 DEF OneClaimEach
<1> QED
  BY <1>1, <1>2, <1>3, <1>4 DEF JournalStep

\* Every journal is either untouched or has moved on by one revision.
LEMMA RevisionGrows ==
  ASSUME TypeOK, Control, OneClaimEach, [Next]_vars, NEW r \in Resources
  PROVE  journal'[r] = journal[r] \/ journal'[r].revision = journal[r].revision + 1
<1>1. JournalStep
  BY JournalSteps
<1>2. CASE UNCHANGED journal
  BY <1>2
<1>3. CASE ShrinkStep
  BY <1>3, WriteEffect DEF ShrinkStep
<1>4. ASSUME NEW c \in Controllers, EnqueueNew(c)
      PROVE  journal'[r] = journal[r] \/ journal'[r].revision = journal[r].revision + 1
  <2>1. Res(c) \in Resources
    BY <1>4, ActorType DEF EnqueueNew, Goto
  <2> QED
    BY <1>4, <2>1, WriteEffect DEF EnqueueNew
<1> QED
  BY <1>1, <1>2, <1>3, <1>4 DEF JournalStep

\* A controller's sample is dropped, kept, or taken from the journal as it is.
LEMMA SampleSteps ==
  ASSUME TypeOK, Control, [Next]_vars, NEW d \in Controllers
  PROVE  \/ sample'[d] = sample[d]
         \/ sample'[d] = NoSample
         \/ /\ UNCHANGED journal /\ Res(d) \in Resources
            /\ sample'[d] = [resource |-> Res(d), revision |-> journal[Res(d)].revision,
                             claims |-> ClaimsOf(journal[Res(d)])]
<1> DEFINE Goal ==
      \/ sample'[d] = sample[d]
      \/ sample'[d] = NoSample
      \/ /\ UNCHANGED journal /\ Res(d) \in Resources
         /\ sample'[d] = [resource |-> Res(d), revision |-> journal[Res(d)].revision,
                          claims |-> ClaimsOf(journal[Res(d)])]
<1>1. ASSUME NEW c \in Controllers, Admission(c) PROVE Goal
  BY <1>1 DEF Admission, EnqueueContended, EnqueueNew, EnqueueAgain, EnqueueRejected, TypeOK,
       TryAcquire, StopWaiting, RouteChanged, Withdraw, RepreparePrompt, FinalUnchanged
<1>2. ASSUME NEW c \in Controllers, Lease(c) PROVE Goal
  BY <1>2 DEF Lease, MarkLaunching, LaunchIntentFails, Spawn, SpawnFails, BindChild, BindFails,
       Interrupt, Reaped, Release, Retain, Teardown
<1>3. ASSUME NEW c \in Controllers,
             \/ Start(c) \/ Prepare(c) \/ Finish(c) \/ EditPrompt(c)
             \/ \E route \in Routes : EditRoute(c, route)
             \/ \E removed \in SUBSET Reclaimable(c) : ReconcileApply(c, removed)
             \/ Abort(c)
      PROVE  Goal
  BY <1>3 DEF Start, Prepare, Finish, EditPrompt, EditRoute, ReconcileApply, Abort, TypeOK
<1>4. ASSUME NEW c \in Controllers, ReconcileRead(c) PROVE Goal
  <2>1. Res(c) \in Resources
    BY <1>4, ActorType DEF ReconcileRead
  <2> QED
    BY <1>4, <2>1 DEF ReconcileRead, TypeOK
<1>5. ASSUME NEW i \in Invocation, LeaderExits(i) \/ Fork(i) \/ KinExit(i) \/ PidReused(i)
      PROVE  Goal
  BY <1>5 DEF LeaderExits, Fork, KinExit, PidReused
<1>6. ASSUME Reboot PROVE Goal
  BY <1>6 DEF Reboot
<1> QED
  BY <1>1, <1>2, <1>3, <1>4, <1>5, <1>6 DEF Next, vars

LEMMA NextSample ==
  ASSUME TypeOK, Control, OneClaimEach, SampleCurrent, [Next]_vars
  PROVE  SampleCurrent'
<1> SUFFICES ASSUME NEW d \in Controllers, sample'[d] # NoSample
             PROVE  LET j == journal'[sample'[d].resource]
                    IN  /\ sample'[d].revision <= j.revision
                        /\ sample'[d].revision = j.revision
                             => sample'[d].claims = ClaimsOf(j)
  BY DEF SampleCurrent, ClaimsOf
<1>1. CASE sample'[d] = sample[d]
  <2> DEFINE r == sample[d].resource
  <2>1. /\ sample[d] # NoSample /\ r \in Resources /\ sample[d].revision \in Nat
        /\ journal[r].revision \in Nat
    BY <1>1, JournalType DEF TypeOK
  <2>2. journal'[r] = journal[r] \/ journal'[r].revision = journal[r].revision + 1
    BY <2>1, RevisionGrows
  <2>3. /\ sample[d].revision <= journal[r].revision
        /\ sample[d].revision = journal[r].revision => sample[d].claims = ClaimsOf(journal[r])
    BY <2>1 DEF SampleCurrent
  <2> QED
    BY <1>1, <2>1, <2>2, <2>3
<1>2. CASE /\ UNCHANGED journal /\ Res(d) \in Resources
           /\ sample'[d] = [resource |-> Res(d), revision |-> journal[Res(d)].revision,
                            claims |-> ClaimsOf(journal[Res(d)])]
  BY <1>2, JournalType
<1> QED
  BY <1>1, <1>2, SampleSteps

-----------------------------------------------------------------------------
(* Minting, and what a live controller counts on *)

\* The claims of live controllers: which of them a step may change.
KeepsClaims(d) == \A q \in Resources :
  /\ \A k \in journal[q].queue : k.inv.by = d => k \in journal'[q].queue
  /\ \A k \in journal'[q].queue : k.inv.by = d => k \in journal[q].queue
  /\ journal[q].owner # NoClaim /\ journal[q].owner.inv.by = d
       => journal'[q].owner = journal[q].owner
  /\ journal'[q].owner # NoClaim /\ journal'[q].owner.inv.by = d
       => journal'[q].owner = journal[q].owner

\* What a controller counts on survives a step that leaves its place, its
\* claims and its child alone.
LEMMA ControlFrame ==
  ASSUME TypeOK, TypeOK', NEW d \in Controllers, ControlAt(d),
         pc'[d] = pc[d], cur'[d] = cur[d], prep'[d] = prep[d], KeepsClaims(d),
         child[Mine(d)].leader = "none" => child'[Mine(d)].leader = "none",
         ~Providing(Mine(d))
           => child'[Mine(d)].leader # "alive" /\ ~child'[Mine(d)].kin
  PROVE  ControlAt(d)'
<1>1. Mine(d)' = Mine(d) /\ Res(d)' = Res(d) /\ Mine(d).by = d
  BY DEF Mine, Res
<1>2. Unlaunched(d) => Unlaunched(d)'
  BY <1>1 DEF Unlaunched, KeepsClaims, ClaimsOf
<1>3. pc[d] \notin {"new", "prepare", "gone"} => Res(d) \in Resources /\ Mine(d) \in Invocation
  <2>1. ASSUME pc[d] \notin {"new", "prepare", "gone"}
        PROVE  cur[d] \in 1..MaxInvocations /\ prep[d] \in Routes
    BY <2>1, BoundAssumption DEF TypeOK, ControlAt
  <2> QED
    BY <2>1, RouteAssumption DEF Mine, Res, Invocation
<1>4. ASSUME NEW statuses, Owns(d, statuses), Res(d) \in Resources PROVE Owns(d, statuses)'
  BY <1>1, <1>4 DEF Owns, KeepsClaims
<1>5. pc[d] = "waiting" => \E k \in journal'[Res(d)].queue : k.inv = Mine(d)
  BY <1>1, <1>3 DEF ControlAt, KeepsClaims
<1>6. ~Providing(Mine(d)) => ~Providing(Mine(d))'
  BY <1>1 DEF Providing
<1> QED
  BY <1>1, <1>2, <1>3, <1>4, <1>5, <1>6 DEF ControlAt

LEMMA QuietStep ==
  ASSUME TypeOK, TypeOK', Control, NEW d \in Controllers, UNCHANGED <<journal, child>>,
         pc'[d] = pc[d], cur'[d] = cur[d], prep'[d] = prep[d]
  PROVE  ControlAt(d)'
<1>1. KeepsClaims(d)
  BY DEF KeepsClaims
<1> QED
  BY <1>1, ControlFrame DEF Control, Providing

LEMMA WriteStep ==
  ASSUME TypeOK, TypeOK', Control, UNCHANGED child,
         NEW d \in Controllers, pc'[d] = pc[d], cur'[d] = cur[d], prep'[d] = prep[d],
         NEW r \in Resources, NEW next, NEW owner, NEW queue, Write(r, next, owner, queue),
         \A k \in (journal[r].queue \ queue) \cup (queue \ journal[r].queue) : k.inv.by # d,
         owner # journal[r].owner =>
           /\ owner # NoClaim => owner.inv.by # d
           /\ journal[r].owner # NoClaim => journal[r].owner.inv.by # d
  PROVE  ControlAt(d)'
<1>1. /\ journal'[r].owner = owner /\ journal'[r].queue = queue
      /\ \A q \in Resources : q # r => journal'[q] = journal[q]
  BY WriteEffect
<1>2. KeepsClaims(d)
  <2> SUFFICES ASSUME NEW q \in Resources
               PROVE  /\ \A k \in journal[q].queue : k.inv.by = d => k \in journal'[q].queue
                      /\ \A k \in journal'[q].queue : k.inv.by = d => k \in journal[q].queue
                      /\ journal[q].owner # NoClaim /\ journal[q].owner.inv.by = d
                           => journal'[q].owner = journal[q].owner
                      /\ journal'[q].owner # NoClaim /\ journal'[q].owner.inv.by = d
                           => journal'[q].owner = journal[q].owner
    BY DEF KeepsClaims
  <2> QED
    BY <1>1
<1> QED
  BY <1>2, ControlFrame DEF Control, Providing

\* The invocation that a controller is about to admit or launch has no process.
LEMMA IdleGroup ==
  ASSUME TypeOK, Minting, NEW i \in Invocation, child[i].leader = "none"
  PROVE  ~Providing(i)
BY DEF Minting, Providing

\* A transition concerns only its controller.
LEMMA TransitionOthers ==
  ASSUME TypeOK, TypeOK', Control, UNCHANGED child, NEW c \in Controllers,
         Res(c) \in Resources, NEW from, NEW status, NEW bound,
         Transition(c, from, status, bound),
         NEW d \in Controllers, d # c, pc'[d] = pc[d], cur'[d] = cur[d], prep'[d] = prep[d]
  PROVE  ControlAt(d)'
<1> DEFINE j == journal[Res(c)]
           owner == Restated(j.owner, status, bound)
<1>1. Write(Res(c), j.next, owner, j.queue) /\ j.owner.inv = Mine(c)
  BY DEF Transition, Owns
<1>2. owner.inv.by # d /\ j.owner.inv.by # d
  BY <1>1 DEF Restated, Mine
<1> QED
  BY <1>1, <1>2, WriteStep

\* and leaves it the owner, with the new status.
LEMMA TransitionOwner ==
  ASSUME TypeOK, NEW c \in Controllers, Res(c) \in Resources, UNCHANGED <<cur, prep>>,
         NEW from, NEW status \in OwnerStatus, NEW bound \in BOOLEAN,
         Transition(c, from, status, bound)
  PROVE  Owns(c, {status})'
<1> DEFINE j == journal[Res(c)]
           owner == Restated(j.owner, status, bound)
<1>1. Write(Res(c), j.next, owner, j.queue) /\ j.owner # NoClaim /\ j.owner.inv = Mine(c)
  BY DEF Transition, Owns
<1>2. owner \in Claim /\ owner.inv = Mine(c) /\ owner.status = status
  BY <1>1, JournalType, RestatedType DEF Restated
<1>3. journal'[Res(c)].owner = owner
  BY <1>1, WriteEffect
<1> QED
  BY <1>2, <1>3, NullAssumption DEF Owns, Mine, Res


\* What reconciliation takes from the journal it sampled belonged to
\* controllers that are dead.
LEMMA ReclaimedDead ==
  ASSUME TypeOK, Minting, SampleCurrent, NEW c \in Controllers, sample[c] # NoSample,
         journal[sample[c].resource].revision = sample[c].revision,
         NEW removed \in SUBSET Reclaimable(c)
  PROVE  \A k \in removed : ~Alive(k.inv.by)
<1> SUFFICES ASSUME NEW k \in removed PROVE ~Alive(k.inv.by)
  OBVIOUS
<1>1. sample[c].resource \in Resources
  BY DEF TypeOK
<1>2. k \in ClaimsOf(journal[sample[c].resource]) /\ Removable(k)
  BY DEF SampleCurrent, Reclaimable
<1>3. Alive(k.inv.by) => k.boot = boot
  BY <1>1, <1>2 DEF Minting
<1> QED
  BY <1>2, <1>3 DEF Removable

LEMMA NextControl ==
  ASSUME TypeOK, TypeOK', OneClaimEach, Minting, Control, SampleCurrent,
         [Next]_vars
  PROVE  Control'
<1>1. ASSUME NEW c \in Controllers, Start(c) PROVE Control'
  <2>1. \A d \in Controllers : d # c => ControlAt(d)'
    BY <1>1, QuietStep DEF Start, Goto, config, TypeOK
  <2>2. ControlAt(c)'
    BY <1>1 DEF Start, Goto, config, TypeOK, Control, ControlAt, Unlaunched, Owns, Mine, Res, Minting
  <2> QED
    BY <2>1, <2>2 DEF Control
<1>2. ASSUME NEW c \in Controllers, Prepare(c) PROVE Control'
  <2>1. \A d \in Controllers : d # c => ControlAt(d)'
    BY <1>2, QuietStep DEF Prepare, Goto, config, TypeOK
  <2>2. CASE cur[c] # 0 /\ UNCHANGED <<cur, minted>>
    <3>1. Unlaunched(c)'
      BY <1>2, <2>2 DEF Prepare, Goto, config, TypeOK, Control, ControlAt, Unlaunched, Mine
    <3>2. pc'[c] = "enqueue" /\ cur'[c] # 0 /\ prep'[c] \in Routes
      BY <1>2, <2>2 DEF Prepare, Goto, config, TypeOK
    <3> QED
      BY <2>1, <3>1, <3>2 DEF Control, ControlAt
  <2>3. CASE cur[c] = 0 /\ minted[c] < MaxInvocations /\ cur' = [cur EXCEPT ![c] = minted[c] + 1]
    <3> DEFINE fresh == [by |-> c, n |-> minted[c] + 1]
    <3>1. Mine(c)' = fresh /\ fresh \in Invocation /\ ~(fresh.n <= minted[fresh.by])
      BY <2>3, BoundAssumption DEF TypeOK, Mine, Invocation
    <3>2. child[fresh].leader = "none"
      BY <3>1, BoundAssumption DEF Minting, TypeOK
    <3>3. \A r \in Resources : \A k \in ClaimsOf(journal[r]) : k.inv # fresh
      BY <3>1 DEF Minting
    <3>4. Unlaunched(c)'
      BY <1>2, <3>1, <3>2, <3>3 DEF Prepare, Unlaunched, ClaimsOf
    <3>5. pc'[c] = "enqueue" /\ cur'[c] # 0 /\ prep'[c] \in Routes
      BY <1>2, <2>3, BoundAssumption DEF Prepare, Goto, config, TypeOK
    <3> QED
      BY <2>1, <3>4, <3>5 DEF Control, ControlAt
  <2> QED
    BY <1>2, <2>2, <2>3 DEF Prepare
<1>3. ASSUME NEW c \in Controllers, Finish(c) PROVE Control'
  <2>1. \A d \in Controllers : d # c => ControlAt(d)'
    BY <1>3, QuietStep DEF Finish, Goto, config, TypeOK
  <2>2. ControlAt(c)'
    BY <1>3 DEF Finish, Goto, config, TypeOK, Control, ControlAt, Unlaunched, Owns, Mine, Res
  <2> QED
    BY <2>1, <2>2 DEF Control
<1>4. ASSUME NEW c \in Controllers, EditPrompt(c) PROVE Control'
  BY <1>4, QuietStep DEF EditPrompt, Control
<1>5. ASSUME NEW c \in Controllers, EnqueueContended(c) PROVE Control'
  <2>1. \A d \in Controllers : d # c => ControlAt(d)'
    BY <1>5, QuietStep DEF EnqueueContended, Goto, config, TypeOK
  <2>2. ControlAt(c)'
    BY <1>5 DEF EnqueueContended, Goto, config, TypeOK, Control, ControlAt, Unlaunched, Owns, Mine, Res
  <2> QED
    BY <2>1, <2>2 DEF Control
<1>6. ASSUME NEW c \in Controllers, EnqueueNew(c) PROVE Control'
  <2> DEFINE r == Res(c)
             j == journal[r]
  <2>1. /\ r \in Resources /\ Mine(c) \in Invocation
        /\ Unlaunched(c) /\ cur[c] # 0 /\ prep[c] \in Routes
    BY <1>6, ActorType DEF EnqueueNew, Goto, Control, ControlAt
  <2>2. /\ NewClaim(c).inv = Mine(c) /\ NewClaim(c).inv.by = c
        /\ NewClaim(c).status = "queued"
    BY DEF NewClaim, Mine
  <2>3. Write(r, j.next + 1, j.owner, j.queue \cup {NewClaim(c)})
    BY <1>6 DEF EnqueueNew
  <2>4. \A d \in Controllers : d # c => ControlAt(d)'
    <3> SUFFICES ASSUME NEW d \in Controllers, d # c PROVE ControlAt(d)'
      OBVIOUS
    <3>1. /\ UNCHANGED child
          /\ pc'[d] = pc[d] /\ cur'[d] = cur[d] /\ prep'[d] = prep[d]
      BY <1>6 DEF EnqueueNew, Goto, config, TypeOK
    <3>2. \A k \in (j.queue \ (j.queue \cup {NewClaim(c)}))
                    \cup ((j.queue \cup {NewClaim(c)}) \ j.queue) : k.inv.by # d
      BY <2>2
    <3> QED
      BY <1>6, <2>1, <2>3, <3>1, <3>2, WriteStep
  <2>5. /\ journal'[r].queue = j.queue \cup {NewClaim(c)} /\ journal'[r].owner = j.owner
        /\ \A q \in Resources : q # r => journal'[q] = journal[q]
    BY <2>1, <2>3, WriteEffect
  <2>6. UNCHANGED <<child, cur, prep>> /\ pc'[c] = "waiting"
    BY <1>6 DEF EnqueueNew, Goto, config, TypeOK
  <2>7. Unlaunched(c)'
    BY <2>1, <2>2, <2>5, <2>6 DEF Unlaunched, ClaimsOf, Mine
  <2>8. \E k \in journal'[r].queue : k.inv = Mine(c)
    BY <2>2, <2>5
  <2>9. ControlAt(c)'
    BY <2>1, <2>6, <2>7, <2>8 DEF ControlAt, Mine, Res
  <2> QED
    BY <2>4, <2>9 DEF Control
<1>7. ASSUME NEW c \in Controllers, EnqueueAgain(c) PROVE Control'
  <2>1. \A d \in Controllers : d # c => ControlAt(d)'
    BY <1>7, QuietStep DEF EnqueueAgain, config, TypeOK
  <2>2. ControlAt(c)'
    <3>1. PICK k \in ClaimsOf(journal[Res(c)]) :
            /\ k.inv = Mine(c)
            /\ pc' = [pc EXCEPT ![c] = IF k.status = "reserved" THEN "final" ELSE "waiting"]
      BY <1>7 DEF EnqueueAgain, Found
    <3>2. Unlaunched(c) /\ Res(c) \in Resources /\ cur[c] # 0 /\ prep[c] \in Routes
      BY <1>7, ActorType DEF EnqueueAgain, Control, ControlAt
    <3>3. k.status \in {"queued", "reserved"}
      BY <3>1, <3>2 DEF Unlaunched
    <3>4. k.status = "reserved" => Owns(c, {"reserved"})
      BY <3>1, <3>2 DEF OneClaimEach, ClaimsOf, Owns
    <3>5. k.status # "reserved" => k \in journal[Res(c)].queue
      BY <3>1, <3>2, <3>3 DEF OneClaimEach, ClaimsOf
    <3>6. UNCHANGED <<journal, child, cur, prep>>
      BY <1>7 DEF EnqueueAgain, config
    <3> QED
      BY <3>1, <3>2, <3>4, <3>5, <3>6 DEF TypeOK, ControlAt, Unlaunched, Owns, Mine, Res
  <2> QED
    BY <2>1, <2>2 DEF Control
<1>8. ASSUME NEW c \in Controllers, EnqueueRejected(c) PROVE Control'
  <2>1. \A d \in Controllers : d # c => ControlAt(d)'
    BY <1>8, QuietStep DEF EnqueueRejected, Goto, config, TypeOK
  <2>2. ControlAt(c)'
    BY <1>8 DEF EnqueueRejected, Goto, config, TypeOK, Control, ControlAt, Unlaunched, Owns, Mine, Res
  <2> QED
    BY <2>1, <2>2 DEF Control
<1>9. ASSUME NEW c \in Controllers, TryAcquire(c) PROVE Control'
  <2> DEFINE r == Res(c)
             j == journal[r]
  <2>1. /\ r \in Resources /\ Mine(c) \in Invocation
        /\ Unlaunched(c) /\ cur[c] # 0 /\ prep[c] \in Routes
    BY <1>9, ActorType DEF TryAcquire, Goto, Control, ControlAt
  <2>2. j.owner = NoClaim /\ UNCHANGED <<child, cur, prep>>
    BY <1>9 DEF TryAcquire, config
  <2>3. Goto(c, {"waiting"}, "final")
    BY <1>9 DEF TryAcquire
  <2>4. PICK k \in j.queue :
          /\ k.inv = Mine(c)
          /\ Write(r, j.next, Restated(k, "reserved", FALSE), j.queue \ {k})
    BY <1>9 DEF TryAcquire
  <2>5. PICK o \in Claim : o = Restated(k, "reserved", FALSE)
    BY <2>1, JournalType, RestatedType DEF OwnerStatus
  <2>6. o.inv = Mine(c) /\ Mine(c).by = c /\ o.status = "reserved"
    BY <2>4, <2>5 DEF Restated, Mine
  <2>7. Write(r, j.next, o, j.queue \ {k})
    BY <2>4, <2>5
  <2>8. \A d \in Controllers : d # c => ControlAt(d)'
    BY <2>1, <2>2, <2>3, <2>4, <2>6, <2>7, WriteStep DEF Goto, TypeOK
  <2>9. /\ journal'[r].queue = j.queue \ {k} /\ journal'[r].owner = o
        /\ \A q \in Resources : q # r => journal'[q] = journal[q]
    BY <2>1, <2>7, WriteEffect
  <2>10. Unlaunched(c)'
    BY <2>1, <2>2, <2>6, <2>9 DEF Unlaunched, ClaimsOf, Mine
  <2>11. Owns(c, {"reserved"})'
    BY <2>1, <2>2, <2>6, <2>9, NullAssumption DEF Owns, Mine, Res
  <2>12. pc'[c] = "final"
    BY <2>3 DEF Goto, TypeOK
  <2>13. ControlAt(c)'
    BY <2>1, <2>2, <2>10, <2>11, <2>12 DEF ControlAt
  <2> QED
    BY <2>8, <2>13 DEF Control
<1>10. ASSUME NEW c \in Controllers, StopWaiting(c) PROVE Control'
  <2>1. \A d \in Controllers : d # c => ControlAt(d)'
    BY <1>10, QuietStep DEF StopWaiting, Goto, config, TypeOK
  <2>2. ControlAt(c)'
    BY <1>10 DEF StopWaiting, Goto, config, TypeOK, Control, ControlAt, Unlaunched, Owns, Mine, Res
  <2> QED
    BY <2>1, <2>2 DEF Control
<1>11. ASSUME NEW c \in Controllers, RouteChanged(c) PROVE Control'
  <2>1. \A d \in Controllers : d # c => ControlAt(d)'
    BY <1>11, QuietStep DEF RouteChanged, Goto, config, TypeOK
  <2>2. ControlAt(c)'
    BY <1>11 DEF RouteChanged, Goto, config, TypeOK, Control, ControlAt, Unlaunched, Owns, Mine, Res
  <2> QED
    BY <2>1, <2>2 DEF Control
<1>12. ASSUME NEW c \in Controllers, Withdraw(c) PROVE Control'
  <2> DEFINE r == Res(c)
             j == journal[r]
             queue == j.queue \ Found(c)
             owner == IF j.owner \in Found(c) THEN NoClaim ELSE j.owner
  <2>1. r \in Resources
    BY <1>12, ActorType DEF Withdraw, Goto
  <2>2. UNCHANGED journal \/ Write(r, j.next, owner, queue)
    BY <1>12 DEF Withdraw, Cancel
  <2>3. \A k \in Found(c) : k.inv.by = c
    BY DEF Found, Mine
  <2>4. UNCHANGED <<child, prep>> /\ cur'[c] = 0 /\ pc'[c] \in {"prepare", "gone"}
    BY <1>12 DEF Withdraw, Goto, config, TypeOK
  <2>5. ASSUME NEW d \in Controllers, d # c PROVE ControlAt(d)'
    <3>1. pc'[d] = pc[d] /\ cur'[d] = cur[d] /\ prep'[d] = prep[d]
      BY <1>12, <2>5 DEF Withdraw, Goto, config, TypeOK
    <3>2. CASE UNCHANGED journal
      BY <2>4, <3>1, <3>2, QuietStep
    <3>3. CASE Write(r, j.next, owner, queue)
      <4>1. \A k \in (j.queue \ queue) \cup (queue \ j.queue) : k.inv.by # d
        BY <2>3, <2>5
      <4>2. owner # j.owner => owner = NoClaim /\ j.owner.inv.by # d
        BY <2>3, <2>5
      <4> QED
        BY <2>1, <2>4, <3>1, <3>3, <4>1, <4>2, WriteStep
    <3> QED
      BY <2>2, <3>2, <3>3
  <2>6. ControlAt(c)'
    BY <2>4 DEF ControlAt
  <2> QED
    BY <2>5, <2>6 DEF Control
<1>13. ASSUME NEW c \in Controllers, RepreparePrompt(c) PROVE Control'
  <2>1. \A d \in Controllers : d # c => ControlAt(d)'
    BY <1>13, QuietStep DEF RepreparePrompt, Goto, config, TypeOK
  <2>2. ControlAt(c)'
    BY <1>13 DEF RepreparePrompt, Goto, config, TypeOK, Control, ControlAt, Unlaunched, Owns, Mine, Res
  <2> QED
    BY <2>1, <2>2 DEF Control
<1>14. ASSUME NEW c \in Controllers, FinalUnchanged(c) PROVE Control'
  <2>1. \A d \in Controllers : d # c => ControlAt(d)'
    BY <1>14, QuietStep DEF FinalUnchanged, Goto, config, TypeOK
  <2>2. ControlAt(c)'
    BY <1>14 DEF FinalUnchanged, Goto, config, TypeOK, Control, ControlAt, Unlaunched, Owns, Mine, Res
  <2> QED
    BY <2>1, <2>2 DEF Control
<1>15. ASSUME NEW c \in Controllers, ReconcileRead(c) PROVE Control'
  <2>1. \A d \in Controllers : d # c => ControlAt(d)'
    BY <1>15, QuietStep DEF ReconcileRead, config, TypeOK
  <2>2. ControlAt(c)'
    BY <1>15 DEF ReconcileRead, config, TypeOK, Control, ControlAt, Unlaunched, Owns, Mine, Res
  <2> QED
    BY <2>1, <2>2 DEF Control
<1>16. ASSUME NEW c \in Controllers, MarkLaunching(c) PROVE Control'
  <2>1. Res(c) \in Resources /\ Mine(c) \in Invocation /\ cur[c] # 0 /\ prep[c] \in Routes
    BY <1>16, ActorType DEF MarkLaunching, Goto, Control, ControlAt
  <2>2. \A d \in Controllers : d # c => ControlAt(d)'
    BY <1>16, <2>1, TransitionOthers DEF MarkLaunching, Goto, config, TypeOK
  <2>3. UNCHANGED <<child, prep>> /\ cur' = cur /\ pc'[c] = "spawn"
    BY <1>16 DEF MarkLaunching, Goto, config, TypeOK
  <2>4. Owns(c, {"launching"})' /\ child[Mine(c)].leader = "none"
    <3>1. child[Mine(c)].leader = "none"
      BY <1>16 DEF MarkLaunching, Goto, Control, ControlAt, Unlaunched
    <3>2. Owns(c, {"launching"})'
      BY <1>16, <2>1, <2>3, TransitionOwner DEF MarkLaunching, OwnerStatus
    <3> QED
      BY <3>1, <3>2
  <2>5. ControlAt(c)'
    BY <2>1, <2>3, <2>4 DEF ControlAt, Mine
  <2> QED
    BY <2>2, <2>5 DEF Control
<1>17. ASSUME NEW c \in Controllers, LaunchIntentFails(c) PROVE Control'
  <2>1. \A d \in Controllers : d # c => ControlAt(d)'
    BY <1>17, QuietStep DEF LaunchIntentFails, Goto, config, TypeOK
  <2>2. ControlAt(c)'
    <3>1. Mine(c) \in Invocation /\ child[Mine(c)].leader = "none"
      BY <1>17, ActorType DEF LaunchIntentFails, Goto, Control, ControlAt, Unlaunched
    <3>2. ~Providing(Mine(c))
      BY <3>1, IdleGroup
    <3>3. ~Providing(Mine(c))'
      BY <1>17, <3>2 DEF LaunchIntentFails, Providing, Mine
    <3> QED
      BY <1>17, <3>3 DEF LaunchIntentFails, Goto, config, TypeOK, Control, ControlAt, Mine
  <2> QED
    BY <2>1, <2>2 DEF Control
<1>18. ASSUME NEW c \in Controllers, Spawn(c) PROVE Control'
  <2>1. /\ Res(c) \in Resources /\ Mine(c) \in Invocation
        /\ cur[c] # 0 /\ prep[c] \in Routes /\ Owns(c, {"launching"})
    BY <1>18, ActorType DEF Spawn, Goto, Control, ControlAt
  <2>2. UNCHANGED <<journal, cur, prep>> /\ pc'[c] = "bind"
    BY <1>18 DEF Spawn, Goto, config, TypeOK
  <2>3. ASSUME NEW d \in Controllers, d # c PROVE ControlAt(d)'
    <3>1. pc'[d] = pc[d] /\ Mine(d) # Mine(c) /\ KeepsClaims(d)
      BY <1>18, <2>2, <2>3 DEF Spawn, Goto, TypeOK, Mine, KeepsClaims
    <3>2. child'[Mine(d)] = child[Mine(d)]
      BY <1>18, <3>1 DEF Spawn
    <3> QED
      BY <2>2, <3>1, <3>2, ControlFrame DEF Control, Providing
  <2>4. ControlAt(c)'
    BY <2>1, <2>2 DEF ControlAt, Owns, Mine, Res
  <2> QED
    BY <2>3, <2>4 DEF Control
<1>19. ASSUME NEW c \in Controllers, SpawnFails(c) PROVE Control'
  <2>1. \A d \in Controllers : d # c => ControlAt(d)'
    BY <1>19, QuietStep DEF SpawnFails, Goto, config, TypeOK
  <2>2. ControlAt(c)'
    <3>1. Mine(c) \in Invocation /\ child[Mine(c)].leader = "none"
      BY <1>19, ActorType DEF SpawnFails, Goto, Control, ControlAt, Unlaunched
    <3>2. ~Providing(Mine(c))
      BY <3>1, IdleGroup
    <3>3. ~Providing(Mine(c))'
      BY <1>19, <3>2 DEF SpawnFails, Providing, Mine
    <3> QED
      BY <1>19, <3>3 DEF SpawnFails, Goto, config, TypeOK, Control, ControlAt, Mine
  <2> QED
    BY <2>1, <2>2 DEF Control
<1>20. ASSUME NEW c \in Controllers, BindChild(c) PROVE Control'
  <2>1. Res(c) \in Resources /\ Mine(c) \in Invocation /\ cur[c] # 0 /\ prep[c] \in Routes
    BY <1>20, ActorType DEF BindChild, Goto, Control, ControlAt
  <2>2. \A d \in Controllers : d # c => ControlAt(d)'
    BY <1>20, <2>1, TransitionOthers DEF BindChild, Goto, config, TypeOK
  <2>3. UNCHANGED <<child, prep>> /\ cur' = cur /\ pc'[c] = "running"
    BY <1>20 DEF BindChild, Goto, config, TypeOK
  <2>5. ControlAt(c)'
    BY <2>1, <2>3 DEF ControlAt
  <2> QED
    BY <2>2, <2>5 DEF Control
<1>21. ASSUME NEW c \in Controllers, BindFails(c) PROVE Control'
  <2>1. Res(c) \in Resources /\ Mine(c) \in Invocation /\ cur[c] # 0 /\ prep[c] \in Routes
    BY <1>21, ActorType DEF BindFails, Goto, Control, ControlAt
  <2>2. UNCHANGED <<child, cur, prep>> /\ pc'[c] = "reap"
    BY <1>21 DEF BindFails, Goto, config, TypeOK
  <2>3. ASSUME NEW d \in Controllers, d # c PROVE ControlAt(d)'
    <3>1. pc'[d] = pc[d]
      BY <1>21, <2>3 DEF BindFails, Goto, TypeOK
    <3> QED
      BY <1>21, <2>1, <2>2, <2>3, <3>1, QuietStep, TransitionOthers DEF BindFails
  <2>4. ControlAt(c)'
    BY <2>1, <2>2 DEF ControlAt
  <2> QED
    BY <2>3, <2>4 DEF Control
<1>22. ASSUME NEW c \in Controllers, Interrupt(c) PROVE Control'
  <2>1. \A d \in Controllers : d # c => ControlAt(d)'
    BY <1>22, QuietStep DEF Interrupt, Goto, config, TypeOK
  <2>2. ControlAt(c)'
    BY <1>22 DEF Interrupt, Goto, config, TypeOK, Control, ControlAt, Unlaunched, Owns, Mine, Res
  <2> QED
    BY <2>1, <2>2 DEF Control
<1>23. ASSUME NEW c \in Controllers, Teardown(c) PROVE Control'
  <2>1. PICK leader \in {child[Mine(c)].leader, "gone"}, kin \in {child[Mine(c)].kin, FALSE} :
          /\ Group(Mine(c), leader, kin)
          /\ \E to \in {"release", "retain"} :
               /\ to = "release" => leader = "gone" /\ ~kin
               /\ pc' = [pc EXCEPT ![c] = IF pc[c] = "reap" THEN "gone" ELSE to]
    BY <1>23 DEF Teardown
  <2>2. /\ Mine(c) \in Invocation /\ cur[c] # 0 /\ prep[c] \in Routes
        /\ UNCHANGED <<journal, cur, prep>>
    BY <1>23, ActorType DEF Teardown, Control, ControlAt, config
  <2>3. child'[Mine(c)].leader = leader /\ child'[Mine(c)].kin = kin
    BY <2>1, <2>2 DEF Group, TypeOK
  <2>4. ASSUME NEW d \in Controllers, d # c PROVE ControlAt(d)'
    <3>1. pc'[d] = pc[d] /\ Mine(d) # Mine(c) /\ KeepsClaims(d)
      BY <2>1, <2>2, <2>4 DEF TypeOK, Mine, KeepsClaims
    <3>2. child'[Mine(d)] = child[Mine(d)]
      BY <2>1, <3>1 DEF Group
    <3> QED
      BY <2>2, <3>1, <3>2, ControlFrame DEF Control, Providing
  <2>5. \/ pc'[c] \in {"gone", "retain"}
        \/ pc'[c] = "release" /\ leader = "gone" /\ ~kin
    BY <2>1 DEF TypeOK
  <2>6. ControlAt(c)'
    BY <2>2, <2>3, <2>5 DEF ControlAt, Providing, Mine
  <2> QED
    BY <2>4, <2>6 DEF Control
<1>24. ASSUME NEW c \in Controllers, Reaped(c) PROVE Control'
  <2>1. \A d \in Controllers : d # c => ControlAt(d)'
    BY <1>24, QuietStep DEF Reaped, Goto, config, TypeOK
  <2>2. ControlAt(c)'
    BY <1>24 DEF Reaped, Goto, config, TypeOK, Control, ControlAt, Unlaunched, Owns, Mine, Res, Providing
  <2> QED
    BY <2>1, <2>2 DEF Control
<1>25. ASSUME NEW c \in Controllers, Release(c) PROVE Control'
  <2> DEFINE j == journal[Res(c)]
  <2>1. Res(c) \in Resources
    BY <1>25, ActorType DEF Release, Goto
  <2>2. Write(Res(c), j.next, NoClaim, j.queue) /\ j.owner.inv.by = c
    BY <1>25 DEF Release, Owns, Mine
  <2>3. UNCHANGED <<child, prep>> /\ cur'[c] = 0 /\ pc'[c] \in {"prepare", "gone"}
    BY <1>25 DEF Release, Goto, config, TypeOK
  <2>4. ASSUME NEW d \in Controllers, d # c PROVE ControlAt(d)'
    <3>1. pc'[d] = pc[d] /\ cur'[d] = cur[d]
      BY <1>25, <2>4 DEF Release, Goto, TypeOK
    <3> QED
      BY <2>1, <2>2, <2>3, <2>4, <3>1, WriteStep
  <2>5. ControlAt(c)'
    BY <2>3 DEF ControlAt
  <2> QED
    BY <2>4, <2>5 DEF Control
<1>26. ASSUME NEW c \in Controllers, Retain(c) PROVE Control'
  <2>1. Res(c) \in Resources /\ Mine(c) \in Invocation /\ cur[c] # 0 /\ prep[c] \in Routes
    BY <1>26, ActorType DEF Retain, Goto, Control, ControlAt
  <2>2. \A d \in Controllers : d # c => ControlAt(d)'
    BY <1>26, <2>1, TransitionOthers DEF Retain, Goto, config, TypeOK
  <2>3. UNCHANGED <<child, prep>> /\ cur'[c] = 0 /\ pc'[c] \in {"prepare", "gone"}
    BY <1>26 DEF Retain, Goto, config, TypeOK
  <2>5. ControlAt(c)'
    BY <2>3 DEF ControlAt
  <2> QED
    BY <2>2, <2>5 DEF Control
<1>27. ASSUME NEW c \in Controllers, Abort(c) PROVE Control'
  <2>1. \A d \in Controllers : d # c => ControlAt(d)'
    BY <1>27, QuietStep DEF Abort, config, TypeOK
  <2>2. ControlAt(c)'
    BY <1>27 DEF Abort, config, TypeOK, Control, ControlAt, Unlaunched, Owns, Mine, Res
  <2> QED
    BY <2>1, <2>2 DEF Control
<1>28. ASSUME NEW c \in Controllers, NEW route \in Routes, EditRoute(c, route) PROVE Control'
  BY <1>28, QuietStep DEF EditRoute, Control
<1>29. ASSUME NEW c \in Controllers, sample[c] # NoSample,
            NEW removed \in SUBSET Reclaimable(c), ReconcileApply(c, removed)
     PROVE  Control'
  <2> DEFINE r == sample[c].resource
             j == journal[r]
             gone == {k.inv : k \in removed}
             queue == {k \in j.queue : k.inv \notin gone}
             owner == IF j.owner # NoClaim /\ j.owner.inv \in gone THEN NoClaim ELSE j.owner
  <2>1. r \in Resources /\ UNCHANGED <<child, pc, cur, prep>>
    BY <1>29 DEF ReconcileApply, config, TypeOK
  <2>2. \/ UNCHANGED journal
        \/ j.revision = sample[c].revision /\ Write(r, j.next, owner, queue)
    BY <1>29 DEF ReconcileApply
  <2>3. CASE UNCHANGED journal
    BY <2>1, <2>3, QuietStep DEF Control
  <2>4. CASE j.revision = sample[c].revision /\ Write(r, j.next, owner, queue)
    <3>1. \A i \in gone : ~Alive(i.by)
      BY <1>29, <2>1, <2>4, ReclaimedDead
    <3>2. ASSUME NEW d \in Controllers, Alive(d) PROVE ControlAt(d)'
      <4>1. \A k \in (j.queue \ queue) \cup (queue \ j.queue) : k.inv.by # d
        BY <3>1, <3>2
      <4>2. owner # j.owner => owner = NoClaim /\ j.owner.inv.by # d
        BY <3>1, <3>2
      <4> QED
        BY <2>1, <2>4, <4>1, <4>2, WriteStep
    <3>3. ASSUME NEW d \in Controllers, ~Alive(d) PROVE ControlAt(d)'
      BY <2>1, <3>3 DEF Alive, ControlAt
    <3> QED
      BY <3>2, <3>3 DEF Control
  <2> QED
    BY <2>2, <2>3, <2>4
<1>30. ASSUME NEW i \in Invocation, LeaderExits(i) PROVE Control'
  <2> SUFFICES ASSUME NEW d \in Controllers PROVE ControlAt(d)'
    BY DEF Control
  <2>1. /\ UNCHANGED <<journal, pc, cur, prep>> /\ KeepsClaims(d)
    BY <1>30 DEF LeaderExits, config, KeepsClaims
  <2>2. CASE Mine(d) = i
    <3>1. /\ child[i].leader = "none" => child'[i].leader = "none"
          /\ ~Providing(i) => child'[i].leader # "alive" /\ ~child'[i].kin
      BY <1>30 DEF LeaderExits, Group, TypeOK, Providing, Minting
    <3> QED
      BY <2>1, <2>2, <3>1, ControlFrame DEF Control
  <2>3. CASE Mine(d) # i
    <3>1. child'[Mine(d)] = child[Mine(d)]
      BY <1>30, <2>3 DEF LeaderExits, Group
    <3> QED
      BY <2>1, <3>1, ControlFrame DEF Control, Providing
  <2> QED
    BY <2>2, <2>3
<1>31. ASSUME NEW i \in Invocation, Fork(i) PROVE Control'
  <2> SUFFICES ASSUME NEW d \in Controllers PROVE ControlAt(d)'
    BY DEF Control
  <2>1. /\ UNCHANGED <<journal, pc, cur, prep>> /\ KeepsClaims(d)
    BY <1>31 DEF Fork, config, KeepsClaims
  <2>2. CASE Mine(d) = i
    <3>1. /\ child[i].leader = "none" => child'[i].leader = "none"
          /\ ~Providing(i) => child'[i].leader # "alive" /\ ~child'[i].kin
      BY <1>31 DEF Fork, Group, TypeOK, Providing, Minting
    <3> QED
      BY <2>1, <2>2, <3>1, ControlFrame DEF Control
  <2>3. CASE Mine(d) # i
    <3>1. child'[Mine(d)] = child[Mine(d)]
      BY <1>31, <2>3 DEF Fork, Group
    <3> QED
      BY <2>1, <3>1, ControlFrame DEF Control, Providing
  <2> QED
    BY <2>2, <2>3
<1>32. ASSUME NEW i \in Invocation, PidReused(i) PROVE Control'
  <2> SUFFICES ASSUME NEW d \in Controllers PROVE ControlAt(d)'
    BY DEF Control
  <2>1. /\ UNCHANGED <<journal, pc, cur, prep>> /\ KeepsClaims(d)
    BY <1>32 DEF PidReused, config, KeepsClaims
  <2>2. CASE Mine(d) = i
    <3>1. /\ child[i].leader = "none" => child'[i].leader = "none"
          /\ ~Providing(i) => child'[i].leader # "alive" /\ ~child'[i].kin
      BY <1>32 DEF PidReused, Group, TypeOK, Providing, Minting
    <3> QED
      BY <2>1, <2>2, <3>1, ControlFrame DEF Control
  <2>3. CASE Mine(d) # i
    <3>1. child'[Mine(d)] = child[Mine(d)]
      BY <1>32, <2>3 DEF PidReused, Group
    <3> QED
      BY <2>1, <3>1, ControlFrame DEF Control, Providing
  <2> QED
    BY <2>2, <2>3
<1>33. ASSUME NEW i \in Invocation, KinExit(i) PROVE Control'
  <2> SUFFICES ASSUME NEW d \in Controllers PROVE ControlAt(d)'
    BY DEF Control
  <2>1. /\ UNCHANGED <<journal, pc, cur, prep>> /\ KeepsClaims(d)
    BY <1>33 DEF KinExit, config, KeepsClaims
  <2>2. CASE Mine(d) = i
    <3>1. /\ child[i].leader = "none" => child'[i].leader = "none"
          /\ ~Providing(i) => child'[i].leader # "alive" /\ ~child'[i].kin
      BY <1>33 DEF KinExit, Group, TypeOK, Providing, Minting
    <3> QED
      BY <2>1, <2>2, <3>1, ControlFrame DEF Control
  <2>3. CASE Mine(d) # i
    <3>1. child'[Mine(d)] = child[Mine(d)]
      BY <1>33, <2>3 DEF KinExit, Group
    <3> QED
      BY <2>1, <3>1, ControlFrame DEF Control, Providing
  <2> QED
    BY <2>2, <2>3
<1>34. ASSUME Reboot PROVE Control'
  <2> SUFFICES ASSUME NEW d \in Controllers PROVE ControlAt(d)'
    BY DEF Control
  <2>1. pc'[d] = "gone" \/ (pc'[d] = "new" /\ pc[d] = "new")
    BY <1>34 DEF Reboot, Alive, TypeOK
  <2> QED
    BY <2>1 DEF ControlAt
<1>35. ASSUME UNCHANGED vars PROVE Control'
  BY <1>35, QuietStep DEF Control, vars, config
<1> QED
  BY <1>1, <1>2, <1>3, <1>4, <1>5, <1>6, <1>7, <1>8, <1>9, <1>10, <1>11, <1>12, <1>13, <1>14, <1>15, <1>16, <1>17, <1>18, <1>19, <1>20, <1>21, <1>22, <1>23, <1>24, <1>25, <1>26, <1>27, <1>28, <1>29, <1>30, <1>31, <1>32, <1>33, <1>34, <1>35 DEF Next, Admission, Lease

\* A controller that lives after a step was started under the boot it sees.
LEMMA AliveSameBoot ==
  ASSUME TypeOK, [Next]_vars, NEW d \in Controllers, Alive(d)'
  PROVE  boot' = boot
<1>1. ASSUME NEW c \in Controllers, Spawn(c) \/ Teardown(c) PROVE boot' = boot
  BY <1>1 DEF Spawn, Teardown
<1>2. ASSUME NEW i \in Invocation, LeaderExits(i) \/ Fork(i) \/ KinExit(i) \/ PidReused(i)
      PROVE  boot' = boot
  BY <1>2 DEF LeaderExits, Fork, KinExit, PidReused
<1>3. CASE Reboot
  BY <1>3 DEF Reboot, Alive, TypeOK
<1> QED
  BY <1>1, <1>2, <1>3, ChildSteps

\* A claim is one that was there, perhaps promoted or restated, or a new one.
LEMMA ClaimSteps ==
  ASSUME TypeOK, Control, OneClaimEach, [Next]_vars, NEW r \in Resources,
         NEW k \in ClaimsOf(journal'[r])
  PROVE  \/ \E old \in ClaimsOf(journal[r]) : old.inv = k.inv /\ old.boot = k.boot
         \/ \E c \in Controllers : EnqueueNew(c) /\ k = NewClaim(c)
<1>1. CASE UNCHANGED journal
  BY <1>1
<1>2. CASE ShrinkStep
  <2>0. PICK q \in Resources : \E owner, queue :
          Write(q, journal[q].next, owner, queue) /\ Shrinks(q, owner, queue)
    BY <1>2 DEF ShrinkStep
  <2>1. PICK owner, queue :
          Write(q, journal[q].next, owner, queue) /\ Shrinks(q, owner, queue)
    BY <2>0
  <2>2. /\ journal'[q].owner = owner /\ journal'[q].queue = queue
        /\ \A p \in Resources : p # q => journal'[p] = journal[p]
    BY <2>1, WriteEffect
  <2>3. CASE r = q /\ k \in queue
    BY <2>1, <2>3 DEF Shrinks, ClaimsOf
  <2>4. CASE r = q /\ k \notin queue
    <3>1. k = owner /\ owner # NoClaim
      BY <2>2, <2>4 DEF ClaimsOf
    <3> QED
      BY <2>1, <2>4, <3>1 DEF Shrinks
  <2> QED
    BY <2>2, <2>3, <2>4
<1>3. ASSUME NEW c \in Controllers, EnqueueNew(c)
      PROVE  \/ \E old \in ClaimsOf(journal[r]) : old.inv = k.inv /\ old.boot = k.boot
             \/ k = NewClaim(c)
  <2>1. Res(c) \in Resources
    BY <1>3, ActorType DEF EnqueueNew, Goto
  <2>2. /\ journal'[Res(c)].owner = journal[Res(c)].owner
        /\ journal'[Res(c)].queue = journal[Res(c)].queue \cup {NewClaim(c)}
        /\ \A p \in Resources : p # Res(c) => journal'[p] = journal[p]
    BY <1>3, <2>1, WriteEffect DEF EnqueueNew
  <2> QED
    BY <2>2 DEF ClaimsOf
<1> QED
  BY <1>1, <1>2, <1>3, JournalSteps DEF JournalStep

LEMMA NextMinting ==
  ASSUME TypeOK, TypeOK', Control, OneClaimEach, Minting, [Next]_vars
  PROVE  Minting'
<1>1. ASSUME NEW c \in Controllers
      PROVE  /\ cur'[c] <= minted'[c]
             /\ pc'[c] = "new" => minted'[c] = 0
             /\ minted[c] <= minted'[c]
  <2>1. cur[c] <= minted[c] /\ minted[c] \in Nat /\ cur[c] \in Nat
    BY DEF Minting, TypeOK
  <2>2. \/ cur'[c] \in {cur[c], 0} /\ minted'[c] = minted[c]
        \/ minted'[c] = minted[c] + 1 /\ cur'[c] = minted'[c] /\ pc'[c] # "new"
    BY <2>1, MintedSteps
  <2>3. pc'[c] = "new" => minted[c] = 0
    BY PlaceSteps DEF Minting
  <2> QED
    BY <2>1, <2>2, <2>3
\* A claim's controller has minted it, so it is not new; its boot is the
\* current one while it lives, since a reboot ends every controller.
<1>2. ASSUME NEW r \in Resources, NEW k \in Claim, k.inv.n <= minted[k.inv.by],
             Alive(k.inv.by) => k.boot = boot
      PROVE  k.inv.n <= minted'[k.inv.by] /\ (Alive(k.inv.by)' => k.boot = boot')
  <2>1. /\ k.inv.by \in Controllers /\ k.inv.n \in Nat /\ k.inv.n >= 1
        /\ minted[k.inv.by] \in Nat /\ minted'[k.inv.by] \in Nat
    BY BoundAssumption DEF Claim, Invocation, TypeOK
  <2>2. k.inv.n <= minted'[k.inv.by]
    BY <1>1, <1>2, <2>1
  <2>3. Alive(k.inv.by)' => Alive(k.inv.by)
    BY <1>2, <2>1, PlaceSteps DEF Alive, Minting
  <2>4. Alive(k.inv.by)' => boot' = boot
    BY <2>1, AliveSameBoot
  <2> QED
    BY <1>2, <2>2, <2>3, <2>4
<1>3. ASSUME NEW r \in Resources, NEW k \in ClaimsOf(journal'[r])
      PROVE  k.inv.n <= minted'[k.inv.by] /\ (Alive(k.inv.by)' => k.boot = boot')
  <2>1. CASE \E old \in ClaimsOf(journal[r]) : old.inv = k.inv /\ old.boot = k.boot
    <3>1. PICK old \in ClaimsOf(journal[r]) : old.inv = k.inv /\ old.boot = k.boot
      BY <2>1
    <3>2. old \in Claim
      BY JournalType
    <3>3. old.inv.n <= minted[old.inv.by] /\ (Alive(old.inv.by) => old.boot = boot)
      BY DEF Minting
    <3> QED
      BY <1>2, <3>1, <3>2, <3>3
  <2>2. CASE \E c \in Controllers : EnqueueNew(c) /\ k = NewClaim(c)
    <3>1. PICK c \in Controllers : EnqueueNew(c) /\ k = NewClaim(c)
      BY <2>2
    <3>2. k.inv = Mine(c) /\ k.boot = boot /\ UNCHANGED <<boot, minted>>
      BY <3>1 DEF NewClaim, EnqueueNew
    <3> QED
      BY <3>2 DEF Mine, Minting
  <2> QED
    BY <2>1, <2>2, ClaimSteps
<1>4. ASSUME NEW i \in Invocation
      PROVE  /\ i.n > minted'[i.by] => child'[i].leader = "none"
             /\ child'[i].leader = "none" => ~child'[i].kin
             /\ Providing(i)' => child'[i].resource \in Resources
  <2>1. i.n > minted'[i.by] => child[i].leader = "none" /\ i.n > minted[i.by]
    <3>1. i.by \in Controllers /\ i.n \in Nat /\ minted[i.by] \in Nat /\ minted'[i.by] \in Nat
      BY BoundAssumption DEF Invocation, TypeOK
    <3> QED
      BY <1>1, <3>1 DEF Minting
  <2>2. /\ child[i].leader = "none" => ~child[i].kin
        /\ Providing(i) => child[i].resource \in Resources
    BY DEF Minting
  <2>3. CASE UNCHANGED <<child, boot>>
    BY <2>1, <2>2, <2>3 DEF Providing
  <2>4. ASSUME NEW c \in Controllers, Spawn(c)
        PROVE  /\ i.n > minted'[i.by] => child'[i].leader = "none"
               /\ child'[i].leader = "none" => ~child'[i].kin
               /\ Providing(i)' => child'[i].resource \in Resources
    <3>1. Res(c) \in Resources /\ Mine(c).n <= minted[Mine(c).by] /\ UNCHANGED minted
      BY <2>4, ActorType DEF Spawn, Goto, Mine, Minting
    <3>2. CASE i = Mine(c)
      <4>1. child'[i] = [resource |-> Res(c), leader |-> "alive", kin |-> FALSE]
        BY <2>4, <3>2 DEF Spawn, TypeOK
      <4>2. ~(i.n > minted'[i.by])
        BY <3>1, <3>2, BoundAssumption DEF TypeOK, Invocation
      <4> QED
        BY <3>1, <4>1, <4>2
    <3>3. CASE i # Mine(c)
      BY <2>1, <2>2, <2>4, <3>3 DEF Spawn, Providing
    <3> QED
      BY <3>2, <3>3
  <2>5. ASSUME NEW c \in Controllers, Teardown(c)
        PROVE  /\ i.n > minted'[i.by] => child'[i].leader = "none"
               /\ child'[i].leader = "none" => ~child'[i].kin
               /\ Providing(i)' => child'[i].resource \in Resources
    <3>1. Mine(c) \in Invocation /\ Mine(c).n <= minted[Mine(c).by] /\ UNCHANGED minted
      BY <2>5, ActorType DEF Teardown, Mine, Minting
    <3>2. PICK leader \in {child[Mine(c)].leader, "gone"}, kin \in {child[Mine(c)].kin, FALSE} :
            Group(Mine(c), leader, kin)
      BY <2>5 DEF Teardown
    <3>3. CASE i = Mine(c)
      <4>1. ~(i.n > minted'[i.by])
        BY <3>1, <3>3, BoundAssumption DEF TypeOK, Invocation
      <4> QED
        BY <2>2, <3>2, <3>3, <4>1 DEF Group, Providing, TypeOK
    <3>4. CASE i # Mine(c)
      BY <2>1, <2>2, <3>2, <3>4 DEF Group, Providing
    <3> QED
      BY <3>3, <3>4
  <2>6. ASSUME NEW x \in Invocation, LeaderExits(x) \/ Fork(x) \/ KinExit(x) \/ PidReused(x)
        PROVE  /\ i.n > minted'[i.by] => child'[i].leader = "none"
               /\ child'[i].leader = "none" => ~child'[i].kin
               /\ Providing(i)' => child'[i].resource \in Resources
    BY <2>1, <2>2, <2>6 DEF LeaderExits, Fork, KinExit, PidReused, Group, Providing, TypeOK
  <2>7. CASE Reboot
    BY <2>1, <2>2, <2>7 DEF Reboot, Providing, TypeOK
  <2> QED
    BY <2>3, <2>4, <2>5, <2>6, <2>7, ChildSteps
<1> QED
  BY <1>1, <1>3, <1>4 DEF Minting

-----------------------------------------------------------------------------
(* A provider's invocation holds its resource *)

Held(r, i) ==
  LET o == journal[r].owner
  IN  /\ o # NoClaim /\ o.inv = i /\ o.boot = boot
      /\ o.status \in OwnerStatus \ {"reserved"}

\* Nothing takes the resource from a running provider.
LEMMA HolderKept ==
  ASSUME TypeOK, OneClaimEach, Control, SampleCurrent, [Next]_vars, UNCHANGED boot,
         NEW r \in Resources, NEW i \in Invocation, Providing(i), Held(r, i)
  PROVE  Held(r, i)'
<1> DEFINE o == journal[r].owner
<1>1. /\ o # NoClaim /\ o \in Claim /\ o.inv = i /\ o.boot = boot
      /\ o.status \in {"launching", "running", "unconfirmed"}
  BY JournalType DEF Held, OwnerStatus
<1>2. ASSUME journal'[r].owner = o PROVE Held(r, i)'
  BY <1>1, <1>2 DEF Held, OwnerStatus
\* A write to another resource, or one that keeps the owner, is harmless.
<1>3. ASSUME NEW q \in Resources, NEW next, NEW owner, NEW queue,
             Write(q, next, owner, queue), q = r => owner = o
      PROVE  Held(r, i)'
  BY <1>2, <1>3, WriteEffect
<1>4. ASSUME NEW c \in Controllers, Res(c) \in Resources, NEW from,
             NEW status \in {"running", "unconfirmed"}, NEW bound \in BOOLEAN,
             Transition(c, from, status, bound)
      PROVE  Held(r, i)'
  <2>1. Write(Res(c), journal[Res(c)].next, Restated(journal[Res(c)].owner, status, bound),
              journal[Res(c)].queue)
    BY <1>4 DEF Transition
  <2>2. CASE Res(c) # r
    BY <1>3, <2>1, <2>2, <1>4
  <2>3. CASE Res(c) = r
    <3>1. journal'[r].owner = Restated(o, status, bound)
      BY <2>1, <2>3, WriteEffect
    <3>2. Restated(o, status, bound) \in Claim
      BY <1>1, RestatedType, <1>4 DEF OwnerStatus
    <3>3. /\ Restated(o, status, bound).inv = i /\ Restated(o, status, bound).boot = boot
          /\ Restated(o, status, bound).status = status
      BY <1>1 DEF Restated
    <3> QED
      BY <3>1, <3>2, <3>3, <1>4, NullAssumption DEF Held, OwnerStatus
  <2> QED
    BY <2>2, <2>3
<1>5. ASSUME NEW c \in Controllers, EnqueueNew(c) PROVE Held(r, i)'
  BY <1>3, <1>5, ActorType DEF EnqueueNew, Goto
<1>6. ASSUME NEW c \in Controllers, TryAcquire(c) PROVE Held(r, i)'
  <2>1. Res(c) \in Resources /\ journal[Res(c)].owner = NoClaim
    BY <1>6, ActorType DEF TryAcquire, Goto
  <2> QED
    BY <1>1, <1>3, <1>6, <2>1 DEF TryAcquire
<1>7. ASSUME NEW c \in Controllers, Withdraw(c) PROVE Held(r, i)'
  <2>1. Res(c) \in Resources
    BY <1>7, ActorType DEF Withdraw, Goto
  <2>2. CASE UNCHANGED journal
    BY <1>2, <2>2
  <2>3. CASE Cancel(c)
    <3>1. Res(c) = r => o \notin Found(c)
      BY <1>1, <2>3 DEF Cancel
    <3> QED
      BY <1>3, <2>1, <2>3, <3>1 DEF Cancel
  <2> QED
    BY <1>7, <2>2, <2>3 DEF Withdraw
<1>8. ASSUME NEW c \in Controllers, MarkLaunching(c) PROVE Held(r, i)'
  <2>1. Res(c) \in Resources /\ Owns(c, {"reserved"})
    BY <1>8, ActorType DEF MarkLaunching, Goto, Transition
  <2>2. Res(c) # r
    BY <1>1, <2>1 DEF Owns
  <2> QED
    BY <1>3, <1>8, <2>1, <2>2 DEF MarkLaunching, Transition
<1>9. ASSUME NEW c \in Controllers, BindChild(c) PROVE Held(r, i)'
  BY <1>4, <1>9, ActorType DEF BindChild, Goto
<1>10. ASSUME NEW c \in Controllers, BindFails(c) PROVE Held(r, i)'
  BY <1>2, <1>4, <1>10, ActorType DEF BindFails, Goto
<1>11. ASSUME NEW c \in Controllers, Retain(c) PROVE Held(r, i)'
  <2>1. Res(c) \in Resources /\ journal[Res(c)].owner \in Claim
    BY <1>11, ActorType, JournalType DEF Retain, Goto, Transition, Owns
  <2>2. journal[Res(c)].owner.bound \in BOOLEAN
    BY <2>1 DEF Claim
  <2> QED
    BY <1>4, <1>11, <2>1, <2>2 DEF Retain
\* A release comes after the group was observed gone.
<1>12. ASSUME NEW c \in Controllers, Release(c) PROVE Held(r, i)'
  <2>1. Res(c) \in Resources /\ ~Providing(Mine(c))
    BY <1>12, ActorType DEF Release, Goto, Control, ControlAt
  <2>2. Res(c) # r
    BY <1>1, <1>12, <2>1 DEF Release, Owns
  <2> QED
    BY <1>3, <1>12, <2>1, <2>2 DEF Release
\* Reconciliation takes no owner whose group it saw alive.
<1>13. ASSUME NEW c \in Controllers, sample[c] # NoSample,
              NEW removed \in SUBSET Reclaimable(c), ReconcileApply(c, removed)
       PROVE  Held(r, i)'
  <2> DEFINE q == sample[c].resource
             j == journal[q]
             gone == {k.inv : k \in removed}
             queue == {k \in j.queue : k.inv \notin gone}
             owner == IF j.owner # NoClaim /\ j.owner.inv \in gone THEN NoClaim ELSE j.owner
  <2>1. q \in Resources
    BY <1>13 DEF TypeOK
  <2>2. \/ UNCHANGED journal
        \/ j.revision = sample[c].revision /\ Write(q, j.next, owner, queue)
    BY <1>13 DEF ReconcileApply
  <2>3. CASE j.revision = sample[c].revision /\ Write(q, j.next, owner, queue)
    <3>1. ASSUME q = r PROVE i \notin gone
      <4>1. ~Removable(o)
        BY <1>1 DEF Removable, Providing
      <4>2. \A k \in removed : k \in ClaimsOf(j) /\ Removable(k)
        BY <1>13, <2>3 DEF SampleCurrent, Reclaimable
      <4>3. \A k \in ClaimsOf(j) : k.inv = i => k = o
        BY <1>1, <2>1, <3>1 DEF OneClaimEach, ClaimsOf
      <4> QED
        BY <4>1, <4>2, <4>3
    <3>2. q = r => owner = o
      BY <1>1, <3>1
    <3> QED
      BY <1>3, <2>1, <2>3, <3>2
  <2> QED
    BY <1>2, <2>2, <2>3
<1>14. ASSUME UNCHANGED journal PROVE Held(r, i)'
  BY <1>2, <1>14
<1> QED
  BY <1>5, <1>6, <1>7, <1>8, <1>9, <1>10, <1>11, <1>12, <1>13, <1>14, Writers

LEMMA NextProvider ==
  ASSUME TypeOK, TypeOK', Control, OneClaimEach, Minting, SampleCurrent,
         ProviderHoldsResource, [Next]_vars
  PROVE  ProviderHoldsResource'
<1> SUFFICES ASSUME NEW i \in Invocation, Providing(i)'
             PROVE  Held(child[i].resource, i)'
  BY DEF ProviderHoldsResource, Held
<1>1. ASSUME Providing(i), child'[i].resource = child[i].resource, UNCHANGED boot
      PROVE  Held(child[i].resource, i)'
  <2>1. child[i].resource \in Resources /\ Held(child[i].resource, i)
    BY <1>1 DEF Minting, ProviderHoldsResource, Held
  <2>2. Held(child[i].resource, i)'
    BY <1>1, <2>1, HolderKept
  <2> QED
    BY <1>1, <2>2
<1>2. CASE UNCHANGED <<child, boot>>
  BY <1>1, <1>2 DEF Providing
<1>3. ASSUME NEW c \in Controllers, Spawn(c) PROVE Held(child[i].resource, i)'
  <2>1. UNCHANGED <<journal, boot>>
    BY <1>3 DEF Spawn
  <2>2. CASE i = Mine(c)
    <3>1. child'[i].resource = Res(c)
      BY <1>3, <2>2 DEF Spawn, TypeOK
    <3>2. Owns(c, {"launching"}) /\ Res(c) \in Resources
      BY <1>3, ActorType DEF Spawn, Goto, Control, ControlAt
    <3>3. journal[Res(c)].owner.boot = boot
      <4>1. journal[Res(c)].owner \in ClaimsOf(journal[Res(c)]) /\ Alive(c)
        BY <1>3, <3>2 DEF ClaimsOf, Owns, Spawn, Goto, Alive
      <4> QED
        BY <3>2, <4>1 DEF Minting, Owns, Mine
    <3> QED
      BY <2>1, <2>2, <3>1, <3>2, <3>3 DEF Held, Owns, OwnerStatus
  <2>3. CASE i # Mine(c)
    BY <1>1, <1>3, <2>1, <2>3 DEF Spawn, Providing
  <2> QED
    BY <2>2, <2>3
<1>4. ASSUME NEW c \in Controllers, Teardown(c) PROVE Held(child[i].resource, i)'
  <2>1. PICK leader \in {child[Mine(c)].leader, "gone"}, kin \in {child[Mine(c)].kin, FALSE} :
          Group(Mine(c), leader, kin)
    BY <1>4 DEF Teardown
  <2>2. UNCHANGED boot
    BY <1>4 DEF Teardown
  <2>3. Providing(i) /\ child'[i].resource = child[i].resource
    BY <2>1 DEF Group, Providing, TypeOK
  <2> QED
    BY <1>1, <2>2, <2>3
<1>5. ASSUME NEW x \in Invocation, LeaderExits(x) \/ Fork(x) \/ KinExit(x) \/ PidReused(x)
      PROVE  Held(child[i].resource, i)'
  <2>1. Providing(i) /\ child'[i].resource = child[i].resource /\ UNCHANGED boot
    BY <1>5 DEF LeaderExits, Fork, KinExit, PidReused, Group, Providing, TypeOK
  <2> QED
    BY <1>1, <2>1
<1>6. CASE Reboot
  BY <1>6 DEF Reboot, Providing, TypeOK
<1> QED
  BY <1>2, <1>3, <1>4, <1>5, <1>6, ChildSteps

-----------------------------------------------------------------------------
(* The theorems *)

LEMMA InitInv == Init => Inv
<1> SUFFICES ASSUME Init PROVE Inv
  OBVIOUS
<1>1. TypeOK
  BY InitType
<1>2. OneClaimEach /\ SampleCurrent
  BY DEF Init, OneClaimEach, ClaimsOf, SampleCurrent
<1>3. \A i \in Invocation : ~Providing(i) /\ child[i].leader = "none" /\ ~child[i].kin
  BY DEF Init, Providing
<1>4. Minting
  BY <1>3 DEF Init, Minting, ClaimsOf
<1>5. Control
  BY DEF Init, Control, ControlAt
<1>6. ProviderHoldsResource
  BY <1>3 DEF ProviderHoldsResource
<1> QED
  BY <1>1, <1>2, <1>4, <1>5, <1>6 DEF Inv

\* The broker's invariant: the journals stay well formed, a controller has
\* the claim it counts on, an unlocked sample is only trusted while it is
\* current, and a running provider's invocation owns its resource.
THEOREM Invariant == Spec => []Inv
<1>1. ASSUME Inv, [Next]_vars PROVE Inv'
  <2>1. TypeOK /\ OneClaimEach /\ Minting /\ Control /\ SampleCurrent /\ ProviderHoldsResource
    BY <1>1 DEF Inv
  <2>2. TypeOK'
    BY <1>1, <2>1, NextType
  <2>3. OneClaimEach' /\ SampleCurrent'
    BY <1>1, <2>1, NextOneClaim, NextSample
  <2>4. Minting' /\ Control' /\ ProviderHoldsResource'
    BY <1>1, <2>1, <2>2, NextMinting, NextControl, NextProvider
  <2> QED
    BY <2>2, <2>3, <2>4 DEF Inv
<1> QED
  BY <1>1, InitInv, PTL DEF Spec

\* Every state of the broker and its controllers is well typed.
THEOREM TypeCorrect == Spec => []TypeOK
<1>1. Inv => TypeOK
  BY DEF Inv
<1> QED
  BY <1>1, Invariant, PTL

\* While any process of an invocation's group runs, its resource's journal
\* names that invocation as the owner.
THEOREM ProvidersHold == Spec => []ProviderHoldsResource
<1>1. Inv => ProviderHoldsResource
  BY DEF Inv
<1> QED
  BY <1>1, Invariant, PTL

\* Two providers of one exclusive resource never run at once.
THEOREM MutualExclusion == Spec => []AtMostOneProvider
<1>1. ProviderHoldsResource => AtMostOneProvider
  BY DEF ProviderHoldsResource, AtMostOneProvider
<1> QED
  BY <1>1, ProvidersHold, PTL

\* Nobody's reconciliation takes the claim of a live controller.
THEOREM ClaimsKept == Spec => []ClaimKept
<1>1. ASSUME Inv PROVE ClaimKept
  <2> SUFFICES ASSUME NEW c \in Controllers, pc[c] \in {"waiting", "final", "launch", "spawn"}
               PROVE  /\ pc[c] = "waiting" =>
                           \E k \in journal[Res(c)].queue : k.inv = Mine(c) /\ k.boot = boot
                      /\ pc[c] \in {"final", "launch"} =>
                           Owns(c, {"reserved"}) /\ journal[Res(c)].owner.boot = boot
                      /\ pc[c] = "spawn" =>
                           Owns(c, {"launching"}) /\ journal[Res(c)].owner.boot = boot
    BY DEF ClaimKept
  <2>1. TypeOK /\ Control /\ Minting
    BY <1>1 DEF Inv
  <2>2. Res(c) \in Resources /\ Alive(c)
    BY <2>1, ActorType DEF Alive
  <2>3. \A k \in ClaimsOf(journal[Res(c)]) : k.inv = Mine(c) => k.boot = boot
    BY <2>1, <2>2 DEF Minting, Mine
  <2>4. ASSUME NEW statuses, Owns(c, statuses) PROVE journal[Res(c)].owner.boot = boot
    BY <2>3, <2>4 DEF Owns, ClaimsOf
  <2>5. ControlAt(c)
    BY <2>1 DEF Control
  <2> QED
    BY <2>3, <2>4, <2>5 DEF ControlAt, ClaimsOf
<1> QED
  BY <1>1, Invariant, PTL

-----------------------------------------------------------------------------
(* The broker implements the abstract resource *)

\* How a journal write appears to the abstract resource.
LEMMA HolderWrite ==
  ASSUME TypeOK, NEW r \in Resources, NEW next, NEW owner, NEW queue,
         Write(r, next, owner, queue)
  PROVE  Holder' = [Holder EXCEPT ![r] = IF owner = NoClaim THEN NoClaim ELSE owner.inv]
<1>1. ASSUME NEW q \in Resources
      PROVE  (IF journal'[q].owner = NoClaim THEN NoClaim ELSE journal'[q].owner.inv)
               = IF q = r THEN (IF owner = NoClaim THEN NoClaim ELSE owner.inv) ELSE Holder[q]
  BY WriteEffect DEF Holder
<1> QED
  BY <1>1 DEF Holder

\* A write that only restates the owner leaves the holder alone.
LEMMA HolderSame ==
  ASSUME TypeOK, NEW r \in Resources, NEW next, NEW owner, NEW queue,
         Write(r, next, owner, queue), (owner = NoClaim) <=> (journal[r].owner = NoClaim),
         owner # NoClaim => owner.inv = journal[r].owner.inv
  PROVE  UNCHANGED Holder
BY WriteEffect DEF Holder

\* Clearing an owner that provides nothing frees the resource.
LEMMA HolderFreed ==
  ASSUME TypeOK, ProviderHoldsResource, NEW r \in Resources, NEW next, NEW queue,
         Write(r, next, NoClaim, queue), UNCHANGED Using, journal[r].owner # NoClaim,
         ~(Providing(journal[r].owner.inv) /\ child[journal[r].owner.inv].resource = r)
  PROVE  Abstract!Free(r)
<1>1. \A i \in Invocation : Using[i] # r
  <2> SUFFICES ASSUME NEW i \in Invocation, Using[i] = r PROVE FALSE
    OBVIOUS
  <2>1. Providing(i) /\ child[i].resource = r
    BY NullAssumption DEF Using
  <2> QED
    BY <2>1 DEF ProviderHoldsResource
<1>2. Holder' = [Holder EXCEPT ![r] = NoClaim]
  BY HolderWrite
<1> QED
  BY <1>1, <1>2 DEF Abstract!Free

LEMMA TransitionHolder ==
  ASSUME TypeOK, NEW c \in Controllers, Res(c) \in Resources, NEW from,
         NEW status \in OwnerStatus, NEW bound \in BOOLEAN, Transition(c, from, status, bound)
  PROVE  UNCHANGED Holder
<1> DEFINE j == journal[Res(c)]
           owner == Restated(j.owner, status, bound)
<1>1. Write(Res(c), j.next, owner, j.queue) /\ j.owner # NoClaim
  BY DEF Transition, Owns
<1>2. owner \in Claim /\ owner.inv = j.owner.inv
  BY <1>1, JournalType, RestatedType DEF Restated
<1> QED
  BY <1>1, <1>2, HolderSame, NullAssumption

AbstractStep == [Abstract!Next]_<<Holder, Using>>

LEMMA JournalRefines ==
  ASSUME Inv, [Next]_vars, UNCHANGED <<child, boot>>
  PROVE  AbstractStep
<1>1. TypeOK /\ OneClaimEach /\ Minting /\ Control /\ SampleCurrent /\ ProviderHoldsResource
  BY DEF Inv
<1>2. UNCHANGED Using
  BY DEF Using, Providing
<1>3. ASSUME UNCHANGED Holder PROVE AbstractStep
  BY <1>2, <1>3 DEF AbstractStep
<1>4. ASSUME NEW r \in Resources, Abstract!Free(r) PROVE AbstractStep
  BY <1>4 DEF AbstractStep, Abstract!Next
<1>5. CASE UNCHANGED journal
  BY <1>3, <1>5 DEF Holder
<1>6. ASSUME NEW c \in Controllers, EnqueueNew(c) PROVE AbstractStep
  <2>1. Res(c) \in Resources
    BY <1>1, <1>6, ActorType DEF EnqueueNew, Goto
  <2> QED
    BY <1>1, <1>3, <1>6, <2>1, HolderSame DEF EnqueueNew
<1>7. ASSUME NEW c \in Controllers, TryAcquire(c) PROVE AbstractStep
  <2>1. /\ Res(c) \in Resources /\ Mine(c) \in Invocation /\ journal[Res(c)].owner = NoClaim
    BY <1>1, <1>7, ActorType DEF TryAcquire, Goto
  <2>2. PICK k \in journal[Res(c)].queue :
          /\ k.inv = Mine(c)
          /\ Write(Res(c), journal[Res(c)].next, Restated(k, "reserved", FALSE),
                   journal[Res(c)].queue \ {k})
    BY <1>7 DEF TryAcquire
  <2>3. Restated(k, "reserved", FALSE) # NoClaim /\ Restated(k, "reserved", FALSE).inv = Mine(c)
    <3>1. Restated(k, "reserved", FALSE) \in Claim
      BY <1>1, <2>1, <2>2, JournalType, RestatedType DEF OwnerStatus
    <3> QED
      BY <2>2, <3>1, NullAssumption DEF Restated
  <2>4. Holder[Res(c)] = NoClaim
    BY <2>1 DEF Holder
  <2>5. Holder' = [Holder EXCEPT ![Res(c)] = Mine(c)]
    <3> DEFINE owner == Restated(k, "reserved", FALSE)
    <3>1. Holder' = [Holder EXCEPT ![Res(c)] = IF owner = NoClaim THEN NoClaim ELSE owner.inv]
      BY <1>1, <2>1, <2>2, HolderWrite
    <3> QED
      BY <2>3, <3>1
  <2>6. Abstract!Grant(Mine(c), Res(c))
    BY <1>2, <2>4, <2>5 DEF Abstract!Grant
  <2> QED
    BY <2>1, <2>6 DEF AbstractStep, Abstract!Next
<1>8. ASSUME NEW c \in Controllers, Withdraw(c) PROVE AbstractStep
  <2> DEFINE j == journal[Res(c)]
  <2>1. Res(c) \in Resources /\ Mine(c) \in Invocation /\ Unlaunched(c)
    BY <1>1, <1>8, ActorType DEF Withdraw, Goto, Control, ControlAt
  <2>2. CASE UNCHANGED journal
    BY <1>5, <2>2
  <2>3. CASE Cancel(c) /\ j.owner \notin Found(c)
    BY <1>1, <1>3, <2>1, <2>3, HolderSame DEF Cancel
  <2>4. CASE Cancel(c) /\ j.owner \in Found(c)
    <3>1. Write(Res(c), j.next, NoClaim, j.queue \ Found(c))
      BY <2>4 DEF Cancel
    <3>2. j.owner.inv = Mine(c) /\ ~Providing(Mine(c))
      BY <1>1, <2>1, <2>4, IdleGroup DEF Found, Unlaunched
    <3>3. j.owner # NoClaim
      BY <1>1, <2>1, <2>4, JournalType, NullAssumption DEF Found
    <3> QED
      BY <1>1, <1>2, <1>4, <2>1, <3>1, <3>2, <3>3, HolderFreed
  <2> QED
    BY <1>8, <2>2, <2>3, <2>4 DEF Withdraw
<1>9. ASSUME NEW c \in Controllers, MarkLaunching(c) PROVE AbstractStep
  <2>1. Res(c) \in Resources
    BY <1>1, <1>9, ActorType DEF MarkLaunching, Goto
  <2> QED
    BY <1>1, <1>3, <1>9, <2>1, TransitionHolder DEF MarkLaunching, OwnerStatus
<1>10. ASSUME NEW c \in Controllers, BindChild(c) PROVE AbstractStep
  <2>1. Res(c) \in Resources
    BY <1>1, <1>10, ActorType DEF BindChild, Goto
  <2> QED
    BY <1>1, <1>3, <1>10, <2>1, TransitionHolder DEF BindChild, OwnerStatus
<1>11. ASSUME NEW c \in Controllers, BindFails(c) PROVE AbstractStep
  <2>1. Res(c) \in Resources
    BY <1>1, <1>11, ActorType DEF BindFails, Goto
  <2> QED
    BY <1>1, <1>3, <1>5, <1>11, <2>1, TransitionHolder DEF BindFails, OwnerStatus
<1>12. ASSUME NEW c \in Controllers, Retain(c) PROVE AbstractStep
  <2>1. Res(c) \in Resources
    BY <1>1, <1>12, ActorType DEF Retain, Goto
  <2>2. journal[Res(c)].owner \in Claim
    BY <1>1, <1>12, <2>1, JournalType DEF Retain, Transition, Owns
  <2>3. journal[Res(c)].owner.bound \in BOOLEAN
    BY <2>2 DEF Claim
  <2> QED
    BY <1>1, <1>3, <1>12, <2>1, <2>3, TransitionHolder DEF Retain, OwnerStatus
<1>13. ASSUME NEW c \in Controllers, Release(c) PROVE AbstractStep
  <2>1. Res(c) \in Resources /\ ~Providing(Mine(c))
    BY <1>1, <1>13, ActorType DEF Release, Goto, Control, ControlAt
  <2>2. /\ Write(Res(c), journal[Res(c)].next, NoClaim, journal[Res(c)].queue)
        /\ journal[Res(c)].owner # NoClaim /\ journal[Res(c)].owner.inv = Mine(c)
    BY <1>13 DEF Release, Owns
  <2> QED
    BY <1>1, <1>2, <1>4, <2>1, <2>2, HolderFreed
<1>14. ASSUME NEW c \in Controllers, sample[c] # NoSample,
              NEW removed \in SUBSET Reclaimable(c), ReconcileApply(c, removed)
       PROVE  AbstractStep
  <2> DEFINE r == sample[c].resource
             j == journal[r]
             o == j.owner
             gone == {k.inv : k \in removed}
             queue == {k \in j.queue : k.inv \notin gone}
             owner == IF o # NoClaim /\ o.inv \in gone THEN NoClaim ELSE o
  <2>1. r \in Resources
    BY <1>1, <1>14 DEF TypeOK
  <2>2. \/ UNCHANGED journal
        \/ j.revision = sample[c].revision /\ Write(r, j.next, owner, queue)
    BY <1>14 DEF ReconcileApply
  <2>3. CASE Write(r, j.next, owner, queue) /\ owner = o
    BY <1>1, <1>3, <2>1, <2>3, HolderSame
  <2>4. CASE j.revision = sample[c].revision /\ Write(r, j.next, owner, queue) /\ owner # o
    <3>1. o # NoClaim /\ o.inv \in gone /\ owner = NoClaim
      BY <2>4
    <3>2. PICK k \in removed : k.inv = o.inv
      BY <3>1
    <3>3. k \in ClaimsOf(j) /\ Removable(k)
      BY <1>1, <1>14, <2>4 DEF SampleCurrent, Reclaimable
    <3>4. o \in ClaimsOf(j) /\ o \in Claim
      BY <1>1, <2>1, <3>1, JournalType DEF ClaimsOf
    <3>5. Removable(o)
      BY <1>1, <2>1, <3>2, <3>3, <3>4 DEF OneClaimEach
    <3>6. ~(Providing(o.inv) /\ child[o.inv].resource = r)
      <4>1. o.inv \in Invocation
        BY <3>4 DEF Claim
      <4>2. SUFFICES ASSUME Providing(o.inv), child[o.inv].resource = r PROVE FALSE
        OBVIOUS
      <4>3. o.boot = boot /\ o.status \in OwnerStatus \ {"reserved"}
        BY <1>1, <4>1, <4>2 DEF ProviderHoldsResource
      <4> QED
        BY <3>5, <4>2, <4>3 DEF Removable, Providing, OwnerStatus
    <3> QED
      BY <1>1, <1>2, <1>4, <2>1, <2>4, <3>1, <3>6, HolderFreed
  <2> QED
    BY <1>5, <2>2, <2>3, <2>4
<1> QED
  BY <1>5, <1>6, <1>7, <1>8, <1>9, <1>10, <1>11, <1>12, <1>13, <1>14, Writers

LEMMA ChildRefines ==
  ASSUME Inv, [Next]_vars, ~UNCHANGED <<child, boot>>
  PROVE  AbstractStep
<1>1. TypeOK /\ Minting /\ Control
  BY DEF Inv
\* A step in which processes only end stops some users.
<1>2. ASSUME UNCHANGED journal,
             \A i \in Invocation : Providing(i)' =>
               Providing(i) /\ child'[i].resource = child[i].resource
      PROVE  AbstractStep
  <2> DEFINE stopped == {i \in Invocation : ~Providing(i)'}
  <2>1. Using' = [i \in Invocation |-> IF i \in stopped THEN NoResource ELSE Using[i]]
    BY <1>2 DEF Using
  <2>2. UNCHANGED Holder
    BY <1>2 DEF Holder
  <2>3. Abstract!Cease(stopped)
    BY <2>1, <2>2 DEF Abstract!Cease
  <2> QED
    BY <2>3 DEF AbstractStep, Abstract!Next
<1>3. ASSUME NEW c \in Controllers, Spawn(c) PROVE AbstractStep
  <2>1. /\ Res(c) \in Resources /\ Mine(c) \in Invocation /\ Owns(c, {"launching"})
        /\ child[Mine(c)].leader = "none"
    BY <1>1, <1>3, ActorType DEF Spawn, Goto, Control, ControlAt
  <2>2. ~Providing(Mine(c))
    BY <1>1, <2>1, IdleGroup
  <2>3. Holder[Res(c)] = Mine(c) /\ Using[Mine(c)] = NoResource
    BY <2>1, <2>2 DEF Holder, Using, Owns
  <2>4. UNCHANGED Holder
    BY <1>3 DEF Spawn, Holder
  <2>5. Using' = [Using EXCEPT ![Mine(c)] = Res(c)]
    <3>1. ASSUME NEW i \in Invocation
          PROVE  (IF Providing(i) THEN child[i].resource ELSE NoResource)'
                   = IF i = Mine(c) THEN Res(c) ELSE Using[i]
      BY <1>1, <1>3, <2>1 DEF Spawn, Providing, Using, TypeOK
    <3> QED
      BY <3>1 DEF Using
  <2>6. Abstract!Begin(Mine(c), Res(c))
    BY <2>3, <2>4, <2>5 DEF Abstract!Begin
  <2> QED
    BY <2>1, <2>6 DEF AbstractStep, Abstract!Next
<1>4. ASSUME NEW c \in Controllers, Teardown(c) PROVE AbstractStep
  <2>1. PICK leader \in {child[Mine(c)].leader, "gone"}, kin \in {child[Mine(c)].kin, FALSE} :
          Group(Mine(c), leader, kin)
    BY <1>4 DEF Teardown
  <2>2. UNCHANGED journal
    BY <1>4 DEF Teardown
  <2> QED
    BY <1>1, <1>2, <2>1, <2>2 DEF Group, Providing, TypeOK
<1>5. ASSUME NEW x \in Invocation, LeaderExits(x) \/ Fork(x) \/ KinExit(x) \/ PidReused(x)
      PROVE  AbstractStep
  <2>1. UNCHANGED journal
    BY <1>5 DEF LeaderExits, Fork, KinExit, PidReused
  <2> QED
    BY <1>1, <1>2, <1>5, <2>1 DEF LeaderExits, Fork, KinExit, PidReused, Group, Providing, TypeOK
<1>6. CASE Reboot
  BY <1>1, <1>2, <1>6 DEF Reboot, Providing, TypeOK
<1> QED
  BY <1>3, <1>4, <1>5, <1>6, ChildSteps

\* Every run of the broker, its controllers, the processes and the host is a
\* run of the abstract exclusive resource: a resource changes hands only
\* while no process of its holder's group runs.
THEOREM Refinement == Spec => ExclusiveUse
<1>1. Init => Abstract!Init
  BY DEF Init, Abstract!Init, Holder, Using, Providing
<1>2. Inv /\ [Next]_vars => AbstractStep
  BY JournalRefines, ChildRefines
<1> QED
  BY <1>1, <1>2, Invariant, PTL DEF Spec, ExclusiveUse, Abstract!Spec, AbstractStep
=============================================================================
