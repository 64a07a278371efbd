----------------------- MODULE ExecutionJournalProofs -----------------------
(***************************************************************************)
(* Proofs about the journals of ExecutionResources: that every reader's    *)
(* validation accepts what any interleaving writes, and that the resource  *)
(* goes to the oldest waiter.                                              *)
(***************************************************************************)
EXTENDS ExecutionResourcesProofs, FiniteSetTheorems

-----------------------------------------------------------------------------
(* Tickets and capacity *)

\* A journal has finitely many claims, no more than the capacity, and their
\* tickets tell them apart and were handed out before the next one.
Ticketed(j) ==
  /\ IsFiniteSet(ClaimsOf(j)) /\ Cardinality(ClaimsOf(j)) <= MaxClaims
  /\ \A k \in ClaimsOf(j) : k.ticket < j.next
  /\ \A k, other \in ClaimsOf(j) : k.ticket = other.ticket => k = other

AllTicketed == \A r \in Resources : Ticketed(journal[r])

\* What a restated owner keeps of the claim it was.
Keeps(owner, k) == owner.inv = k.inv /\ owner.ticket = k.ticket

\* Who owns a resource after a step was its owner before, or waited and had
\* the lowest ticket.
Successor(j, queue, owner) ==
  \/ j.owner # NoClaim /\ Keeps(owner, j.owner)
  \/ \E k \in j.queue \ queue :
       Keeps(owner, k) /\ \A other \in j.queue : k.ticket <= other.ticket

\* A journal after a step that adds no claim.
Reduced(r) ==
  /\ journal'[r].next = journal[r].next
  /\ journal'[r].queue \subseteq journal[r].queue
  /\ journal'[r].owner # NoClaim =>
       Successor(journal[r], journal'[r].queue, journal'[r].owner)

\* A journal after a step that adds one at the tail.
Extended(r) ==
  \E k \in Claim :
    /\ k.ticket = journal[r].next
    /\ Cardinality(ClaimsOf(journal[r])) < MaxClaims
    /\ journal'[r].next = journal[r].next + 1
    /\ journal'[r].queue = journal[r].queue \cup {k}
    /\ journal'[r].owner = journal[r].owner

-----------------------------------------------------------------------------
(* What each operation does to the journal it writes *)

\* A write that keeps the owner or frees the resource, and adds no waiter.
LEMMA ReducedWrite ==
  ASSUME TypeOK, NEW r \in Resources, NEW owner, NEW queue \in SUBSET journal[r].queue,
         Write(r, journal[r].next, owner, queue),
         owner # NoClaim => Successor(journal[r], queue, owner)
  PROVE  \A q \in Resources : Reduced(q)
<1>1. /\ journal'[r].next = journal[r].next
      /\ journal'[r].owner = owner /\ journal'[r].queue = queue
      /\ \A q \in Resources : q # r => journal'[q] = journal[q]
  BY DEF TypeOK, Write
<1>2. Reduced(r)
  BY <1>1 DEF Reduced
<1>3. ASSUME NEW q \in Resources, q # r PROVE Reduced(q)
  BY <1>1, <1>3 DEF Reduced, Successor, Keeps
<1> QED
  BY <1>2, <1>3

LEMMA ReducedSame ==
  ASSUME UNCHANGED journal
  PROVE  \A q \in Resources : Reduced(q)
BY DEF Reduced, Successor, Keeps

LEMMA ReducedTransition ==
  ASSUME TypeOK, NEW c \in Controllers, Res(c) \in Resources,
         NEW from, NEW status \in OwnerStatus, NEW bound, Transition(c, from, status, bound)
  PROVE  \A q \in Resources : Reduced(q)
<1> DEFINE j == journal[Res(c)]
           owner == Restated(j.owner, status, bound)
<1>1. Write(Res(c), j.next, owner, j.queue) /\ j.owner # NoClaim
  BY DEF Transition, Owns
<1>2. Keeps(owner, j.owner)
  BY DEF Restated, Keeps
<1>3. Successor(j, j.queue, owner)
  BY <1>1, <1>2 DEF Successor
<1> HIDE DEF owner
<1> QED
  BY <1>1, <1>3, ReducedWrite

\* Every step extends one journal at its tail and leaves the others alone, or
\* reduces them all.
LEMMA TicketSteps ==
  ASSUME TypeOK, Control, [Next]_vars, NEW q \in Resources
  PROVE  Reduced(q) \/ Extended(q)
<1>1. ASSUME NEW c \in Controllers, EnqueueNew(c) PROVE Reduced(q) \/ Extended(q)
  <2> DEFINE r == Res(c)
  <2>1. Mine(c) \in Invocation /\ r \in Resources /\ prep[c] \in Routes
    BY <1>1, ActorType DEF EnqueueNew, Goto
  <2>2. /\ journal'[r].next = journal[r].next + 1
        /\ journal'[r].queue = journal[r].queue \cup {NewClaim(c)}
        /\ journal'[r].owner = journal[r].owner
        /\ q # r => journal'[q] = journal[q]
    BY <1>1, <2>1 DEF EnqueueNew, Write, TypeOK
  <2>3. NewClaim(c) \in Claim /\ NewClaim(c).ticket = journal[r].next
    BY <2>1, NewClaimType DEF NewClaim
  <2>4. Cardinality(ClaimsOf(journal[r])) < MaxClaims
    BY <1>1 DEF EnqueueNew
  <2>5. CASE q = r
    BY <2>2, <2>3, <2>4, <2>5 DEF Extended
  <2>6. CASE q # r
    BY <2>2, <2>6 DEF Reduced, Successor, Keeps
  <2> QED
    BY <2>5, <2>6
<1>2. ASSUME NEW c \in Controllers, TryAcquire(c) PROVE Reduced(q)
  <2>1. Res(c) \in Resources
    BY <1>2, ActorType DEF TryAcquire, Goto
  <2> DEFINE j == journal[Res(c)]
  <2>2. PICK k \in j.queue :
          /\ \A other \in j.queue : k.ticket <= other.ticket
          /\ Write(Res(c), j.next, Restated(k, "reserved", FALSE), j.queue \ {k})
    BY <1>2 DEF TryAcquire
  <2> DEFINE owner == Restated(k, "reserved", FALSE)
             queue == j.queue \ {k}
  <2>3. Keeps(owner, k) /\ k \in j.queue \ queue
    BY DEF Restated, Keeps
  <2>4. Successor(j, queue, owner) /\ queue \in SUBSET j.queue
    BY <2>2, <2>3 DEF Successor
  <2>5. Write(Res(c), j.next, owner, queue)
    BY <2>2
  <2> HIDE DEF owner, queue
  <2> QED
    BY <2>1, <2>4, <2>5, ReducedWrite
<1>3. ASSUME NEW c \in Controllers, Withdraw(c) PROVE Reduced(q)
  <2>1. Res(c) \in Resources
    BY <1>3, ActorType DEF Withdraw, Goto
  <2> DEFINE j == journal[Res(c)]
             queue == j.queue \ Found(c)
             owner == IF j.owner \in Found(c) THEN NoClaim ELSE j.owner
  <2>2. owner # NoClaim => Successor(j, queue, owner)
    BY DEF Successor, Keeps
  <2>3. UNCHANGED journal \/ Write(Res(c), j.next, owner, queue)
    BY <1>3 DEF Withdraw, Cancel
  <2>4. queue \in SUBSET j.queue
    OBVIOUS
  <2> HIDE DEF owner, queue
  <2> QED
    BY <2>1, <2>2, <2>3, <2>4, ReducedWrite, ReducedSame
<1>4. ASSUME NEW c \in Controllers,
             MarkLaunching(c) \/ BindChild(c) \/ BindFails(c) \/ Retain(c)
      PROVE  Reduced(q)
  <2>1. Res(c) \in Resources
    BY <1>4, ActorType DEF MarkLaunching, BindChild, BindFails, Retain, Goto
  <2>2. CASE MarkLaunching(c)
    BY <2>1, <2>2, ReducedTransition DEF MarkLaunching, OwnerStatus
  <2>3. CASE BindChild(c)
    BY <2>1, <2>3, ReducedTransition DEF BindChild, OwnerStatus
  <2>4. CASE BindFails(c)
    BY <2>1, <2>4, ReducedTransition, ReducedSame DEF BindFails, OwnerStatus
  <2>5. CASE Retain(c)
    BY <2>1, <2>5, ReducedTransition DEF Retain, OwnerStatus
  <2> QED
    BY <1>4, <2>2, <2>3, <2>4, <2>5
<1>5. ASSUME NEW c \in Controllers, Release(c) PROVE Reduced(q)
  <2>1. Res(c) \in Resources
    BY <1>5, ActorType DEF Release, Goto
  <2> QED
    BY <1>5, <2>1, ReducedWrite DEF Release
<1>6. ASSUME NEW c \in Controllers, sample[c] # NoSample,
             NEW removed \in SUBSET Reclaimable(c), ReconcileApply(c, removed)
      PROVE  Reduced(q)
  <2> DEFINE r == sample[c].resource
             gone == {k.inv : k \in removed}
             queue == {k \in journal[r].queue : k.inv \notin gone}
             owner == IF journal[r].owner # NoClaim /\ journal[r].owner.inv \in gone
                      THEN NoClaim ELSE journal[r].owner
  <2>1. r \in Resources
    BY <1>6 DEF TypeOK
  <2>2. owner # NoClaim => Successor(journal[r], queue, owner)
    BY DEF Successor, Keeps
  <2>3. UNCHANGED journal \/ Write(r, journal[r].next, owner, queue)
    BY <1>6 DEF ReconcileApply
  <2>4. queue \in SUBSET journal[r].queue
    OBVIOUS
  <2> HIDE DEF owner, queue
  <2> QED
    BY <2>1, <2>2, <2>3, <2>4, ReducedWrite, ReducedSame
<1> QED
  BY <1>1, <1>2, <1>3, <1>4, <1>5, <1>6, Writers, ReducedSame

-----------------------------------------------------------------------------
(* The journals stay valid *)

LEMMA GrowsByOne ==
  ASSUME NEW S, IsFiniteSet(S), NEW x
  PROVE  /\ IsFiniteSet(S \cup {x})
         /\ Cardinality(S \cup {x}) \in Nat /\ Cardinality(S) \in Nat
         /\ Cardinality(S \cup {x}) <= Cardinality(S) + 1
<1>1. IsFiniteSet(S \cup {x})
  BY FS_AddElement
<1>2. Cardinality(S \cup {x}) \in Nat /\ Cardinality(S) \in Nat
  BY <1>1, FS_CardinalityType
<1>3. Cardinality(S \cup {x}) = IF x \in S THEN Cardinality(S) ELSE Cardinality(S) + 1
  BY FS_AddElement
<1> QED
  BY <1>1, <1>2, <1>3

\* Dropping claims, and restating one, leaves no more of them: each is the
\* claim it was, or has its ticket.
LEMMA ReducedTicketed ==
  ASSUME TypeOK, TypeOK', OneClaimEach, NEW r \in Resources, Ticketed(journal[r]), Reduced(r)
  PROVE  Ticketed(journal'[r])
<1> DEFINE j == journal[r]
           k == journal'[r].owner
           queue == journal'[r].queue
<1> USE DEF ClaimsOf
<1>1. /\ j.next \in Nat /\ ClaimsOf(j) \in SUBSET Claim
      /\ journal'[r].owner \in Claim \cup {NoClaim} /\ journal'[r].queue \in SUBSET Claim
  BY DEF TypeOK, Journal
<1>2. /\ journal'[r].next = j.next /\ queue \subseteq j.queue
      /\ k # NoClaim => Successor(j, queue, k)
  BY DEF Reduced
<1>3. CASE k = NoClaim
  <2>1. ClaimsOf(journal'[r]) \in SUBSET ClaimsOf(j)
    BY <1>2, <1>3
  <2>2. /\ IsFiniteSet(ClaimsOf(journal'[r]))
        /\ Cardinality(ClaimsOf(journal'[r])) <= Cardinality(ClaimsOf(j))
    BY <2>1, FS_Subset DEF Ticketed
  <2>3. Cardinality(ClaimsOf(journal'[r])) <= MaxClaims
    BY <2>2, FS_CardinalityType, BoundAssumption DEF Ticketed
  <2> QED
    BY <1>2, <2>1, <2>2, <2>3 DEF Ticketed
<1>4. CASE k # NoClaim
  <2>1. PICK old \in ClaimsOf(j) \ queue : Keeps(k, old)
    <3>1. j.owner # NoClaim => j.owner \notin queue
      BY <1>2 DEF OneClaimEach
    <3> QED
      BY <1>2, <1>4, <3>1 DEF Successor
  <2>2. ClaimsOf(journal'[r]) = queue \cup {k}
    BY <1>4
  <2>3. queue \in SUBSET (ClaimsOf(j) \ {old})
    BY <1>2, <2>1
  <2>4. /\ IsFiniteSet(ClaimsOf(j) \ {old})
        /\ Cardinality(ClaimsOf(j) \ {old}) = Cardinality(ClaimsOf(j)) - 1
    BY FS_RemoveElement DEF Ticketed
  <2>5. IsFiniteSet(queue) /\ Cardinality(queue) <= Cardinality(ClaimsOf(j)) - 1
    BY <2>3, <2>4, FS_Subset
  <2>6. /\ IsFiniteSet(queue \cup {k})
        /\ Cardinality(queue \cup {k}) <= Cardinality(queue) + 1
    BY <2>5, GrowsByOne
  <2>7. Cardinality(queue \cup {k}) <= MaxClaims
    BY <2>5, <2>6, FS_CardinalityType, BoundAssumption DEF Ticketed
  <2>8. \A other \in queue : other.ticket < j.next /\ other.ticket # k.ticket
    BY <1>2, <2>1, <2>3 DEF Ticketed, Keeps
  <2>9. k.ticket < j.next
    BY <2>1 DEF Ticketed, Keeps
  <2>10. \A one, other \in queue : one.ticket = other.ticket => one = other
    BY <2>3 DEF Ticketed
  <2> QED
    BY <1>2, <2>2, <2>6, <2>7, <2>8, <2>9, <2>10 DEF Ticketed
<1> QED
  BY <1>3, <1>4

\* The ticket of a new claim is later than every other.
LEMMA ExtendedTicketed ==
  ASSUME TypeOK, NEW r \in Resources, Ticketed(journal[r]), Extended(r)
  PROVE  Ticketed(journal'[r])
<1> DEFINE j == journal[r]
<1>1. PICK k \in Claim :
        /\ k.ticket = j.next
        /\ Cardinality(ClaimsOf(j)) < MaxClaims
        /\ journal'[r].next = j.next + 1
        /\ journal'[r].queue = j.queue \cup {k}
        /\ journal'[r].owner = j.owner
  BY DEF Extended
<1>2. ClaimsOf(journal'[r]) = ClaimsOf(j) \cup {k}
  BY <1>1 DEF ClaimsOf
<1>3. /\ IsFiniteSet(ClaimsOf(j) \cup {k})
      /\ Cardinality(ClaimsOf(j) \cup {k}) <= Cardinality(ClaimsOf(j)) + 1
  BY GrowsByOne DEF Ticketed
<1>4. Cardinality(ClaimsOf(j) \cup {k}) <= MaxClaims
  BY <1>1, <1>3, FS_CardinalityType, BoundAssumption DEF Ticketed
<1>5. j.next \in Nat /\ \A other \in ClaimsOf(j) : other.ticket \in Nat
  BY JournalType DEF Claim
<1>6. \A other \in ClaimsOf(j) : other.ticket < k.ticket
  BY <1>1 DEF Ticketed
<1>7. \A other \in ClaimsOf(j) \cup {k} : other.ticket < j.next + 1
  BY <1>1, <1>5, <1>6
<1>8. \A one, other \in ClaimsOf(j) \cup {k} : one.ticket = other.ticket => one = other
  BY <1>1, <1>5, <1>6 DEF Ticketed
<1> QED
  BY <1>1, <1>2, <1>3, <1>4, <1>7, <1>8 DEF Ticketed

LEMMA NextTicketed ==
  ASSUME TypeOK, TypeOK', Control, OneClaimEach, AllTicketed, [Next]_vars
  PROVE  AllTicketed'
<1>1. ASSUME NEW r \in Resources PROVE Ticketed(journal'[r])
  BY TicketSteps, ReducedTicketed, ExtendedTicketed DEF AllTicketed
<1> QED
  BY <1>1 DEF AllTicketed, Ticketed, ClaimsOf

LEMMA InitTicketed == Init => AllTicketed
<1> SUFFICES ASSUME Init, NEW r \in Resources PROVE Ticketed(journal[r])
  BY DEF AllTicketed
<1>1. ClaimsOf(journal[r]) = {}
  BY DEF Init, ClaimsOf
<1> QED
  BY <1>1, FS_EmptySet, BoundAssumption DEF Ticketed

\* An owner is not in the queue, which makes the validator's count of the two
\* the number of claims.
LEMMA TicketedIsValid ==
  ASSUME TypeOK, OneClaimEach, AllTicketed
  PROVE  JournalValid
<1> SUFFICES ASSUME NEW r \in Resources
             PROVE  LET j == journal[r]
                    IN  /\ j.owner # NoClaim => j.owner.status \in OwnerStatus
                        /\ \A k \in j.queue : k.status = "queued"
                        /\ Cardinality(j.queue) + (IF j.owner = NoClaim THEN 0 ELSE 1)
                             <= MaxClaims
                        /\ \A k \in ClaimsOf(j) :
                             /\ k.ticket < j.next
                             /\ \A other \in ClaimsOf(j) \ {k} :
                                  other.ticket # k.ticket /\ other.inv # k.inv
  BY DEF JournalValid
<1> DEFINE j == journal[r]
<1>1. Ticketed(j)
  BY DEF AllTicketed
<1>2. /\ \A k \in j.queue : k.status = "queued"
      /\ j.owner # NoClaim => j.owner \in Claim /\ j.owner.status # "queued"
      /\ \A k, other \in ClaimsOf(j) : k.inv = other.inv => k = other
  BY JournalType DEF OneClaimEach
<1>3. j.owner # NoClaim => j.owner.status \in OwnerStatus /\ j.owner \notin j.queue
  BY <1>2 DEF Claim
<1>4. Cardinality(j.queue) + (IF j.owner = NoClaim THEN 0 ELSE 1) <= MaxClaims
  <2>1. CASE j.owner = NoClaim
    <3>1. ClaimsOf(j) = j.queue
      BY <2>1 DEF ClaimsOf
    <3> QED
      BY <1>1, <2>1, <3>1, FS_CardinalityType, BoundAssumption DEF Ticketed
  <2>2. CASE j.owner # NoClaim
    <3>1. j.queue = ClaimsOf(j) \ {j.owner} /\ j.owner \in ClaimsOf(j)
      BY <1>3, <2>2 DEF ClaimsOf
    <3>2. Cardinality(j.queue) = Cardinality(ClaimsOf(j)) - 1
      BY <1>1, <3>1, FS_RemoveElement DEF Ticketed
    <3> QED
      BY <1>1, <2>2, <3>2, FS_CardinalityType, BoundAssumption DEF Ticketed
  <2> QED
    BY <2>1, <2>2
<1> QED
  BY <1>1, <1>2, <1>3, <1>4 DEF Ticketed

\* No interleaving of store operations, crashes and reconciliations writes a
\* journal that _validate_journal refuses: claims stay within the capacity,
\* with statuses, tickets and invocation ids as the reader expects them.
THEOREM JournalsStayValid == Spec => []JournalValid
<1> DEFINE IInv == Inv /\ AllTicketed
<1>1. Init => IInv
  BY InitInv, InitTicketed
<1>2. ASSUME Inv, Inv', AllTicketed, [Next]_vars PROVE AllTicketed'
  BY <1>2, NextTicketed DEF Inv
<1>3. ASSUME Inv, AllTicketed PROVE JournalValid
  BY <1>3, TicketedIsValid DEF Inv
<1> QED
  BY <1>1, <1>2, <1>3, Invariant, PTL DEF Spec

-----------------------------------------------------------------------------
(* The queue is served in order *)

\* Whoever gets the resource while a claim waits has no later claim: an owner
\* is not in the queue, and who leaves it for the resource had the lowest
\* ticket.  Nobody has a second claim to be served by.
THEOREM ServedInOrder == Spec => NoOvertaking
<1> DEFINE Step == \A r \in Resources : \A k, later \in journal[r].queue :
                     /\ k.ticket < later.ticket
                     /\ journal'[r].owner # NoClaim
                     => journal'[r].owner.inv # later.inv
<1>1. ASSUME Inv, [Next]_vars PROVE Step
  <2> SUFFICES ASSUME NEW r \in Resources,
                      NEW k \in journal[r].queue, NEW later \in journal[r].queue,
                      k.ticket < later.ticket, journal'[r].owner # NoClaim,
                      journal'[r].owner.inv = later.inv
               PROVE  FALSE
    OBVIOUS
  <2> DEFINE j == journal[r]
  <2>1. TypeOK /\ Control /\ OneClaimEach
    BY <1>1 DEF Inv
  <2>2. k.ticket \in Nat /\ later.ticket \in Nat
    BY <2>1, JournalType DEF Claim
  <2>3. \A one, other \in ClaimsOf(j) : one.inv = other.inv => one = other
    BY <2>1 DEF OneClaimEach
  <2>4. j.owner # NoClaim => j.owner \notin j.queue
    BY <2>1 DEF OneClaimEach
  <2>5. CASE Extended(r)
    <3>1. journal'[r].owner = j.owner
      BY <2>5 DEF Extended
    <3> QED
      BY <2>3, <2>4, <3>1 DEF ClaimsOf
  <2>6. CASE Reduced(r)
    <3>1. Successor(j, journal'[r].queue, journal'[r].owner)
      BY <2>6 DEF Reduced
    <3>2. CASE j.owner # NoClaim /\ Keeps(journal'[r].owner, j.owner)
      BY <2>3, <2>4, <3>2 DEF ClaimsOf, Keeps
    <3>3. ASSUME NEW head \in j.queue, Keeps(journal'[r].owner, head),
                 \A other \in j.queue : head.ticket <= other.ticket
          PROVE  FALSE
      <4>1. head = later
        BY <2>3, <3>3 DEF ClaimsOf, Keeps
      <4> QED
        BY <2>2, <3>3, <4>1
    <3> QED
      BY <3>1, <3>2, <3>3 DEF Successor
  <2> QED
    BY <1>1, <2>1, <2>5, <2>6, TicketSteps
<1> QED
  BY <1>1, Invariant, PTL DEF Spec, NoOvertaking

-----------------------------------------------------------------------------
(* A launched claim is the turn its controller conducts *)

Launched(o) == o # NoClaim /\ o.status \in {"launching", "running"}

Turn == {"spawn", "bind", "running", "reap", "teardown", "release", "retain"}

\* Only MarkLaunching makes a launched owner; every other step leaves, at
\* most, one that was there.
LEMMA LaunchedSteps ==
  ASSUME TypeOK, Control, [Next]_vars, NEW r \in Resources, Launched(journal'[r].owner)
  PROVE  \/ Launched(journal[r].owner) /\ journal'[r].owner.inv = journal[r].owner.inv
         \/ \E c \in Controllers :
              /\ MarkLaunching(c) /\ Res(c) = r
              /\ journal'[r].owner.inv = Mine(c)
<1> USE DEF Launched
<1> DEFINE Was == Launched(journal[r].owner) /\ journal'[r].owner.inv = journal[r].owner.inv
<1>1. ASSUME NEW c \in Controllers, EnqueueNew(c) \/ Release(c) \/ Withdraw(c)
      PROVE  Was
  <2>1. Res(c) \in Resources
    BY <1>1, ActorType DEF EnqueueNew, Release, Withdraw, Goto
  <2>2. CASE EnqueueNew(c)
    BY <2>1, <2>2, WriteEffect DEF EnqueueNew
  <2>3. CASE Release(c)
    BY <2>1, <2>3, WriteEffect DEF Release
  <2>4. CASE Withdraw(c)
    BY <2>1, <2>4, WriteEffect DEF Withdraw, Cancel
  <2> QED
    BY <1>1, <2>2, <2>3, <2>4
<1>2. ASSUME NEW c \in Controllers, TryAcquire(c) PROVE Was
  <2>1. Res(c) \in Resources
    BY <1>2, ActorType DEF TryAcquire, Goto
  <2> QED
    BY <1>2, <2>1, WriteEffect DEF TryAcquire, Restated
<1>3. ASSUME NEW c \in Controllers,
             MarkLaunching(c) \/ BindChild(c) \/ BindFails(c) \/ Retain(c)
      PROVE  Was \/ (MarkLaunching(c) /\ Res(c) = r /\ journal'[r].owner.inv = Mine(c))
  <2>1. Res(c) \in Resources
    BY <1>3, ActorType DEF MarkLaunching, BindChild, BindFails, Retain, Goto
  <2> USE DEF Transition, Owns, Restated
  <2>2. CASE MarkLaunching(c)
    BY <2>1, <2>2, WriteEffect DEF MarkLaunching
  <2>3. CASE BindChild(c)
    BY <2>1, <2>3, WriteEffect DEF BindChild
  <2>4. CASE BindFails(c)
    BY <2>1, <2>4, WriteEffect DEF BindFails
  <2>5. CASE Retain(c)
    BY <2>1, <2>5, WriteEffect DEF Retain
  <2> QED
    BY <1>3, <2>2, <2>3, <2>4, <2>5
<1>4. ASSUME NEW c \in Controllers, sample[c] # NoSample,
             NEW removed \in SUBSET Reclaimable(c), ReconcileApply(c, removed)
      PROVE  Was
  <2>1. sample[c].resource \in Resources
    BY <1>4 DEF TypeOK
  <2> QED
    BY <1>4, <2>1, WriteEffect DEF ReconcileApply
<1> QED
  BY <1>1, <1>2, <1>3, <1>4, Writers

\* A controller leaves a turn by giving its claim back, by retaining it, or
\* by ending.
LEMMA TurnSteps ==
  ASSUME TypeOK, [Next]_vars, NEW d \in Controllers, pc[d] \in Turn
  PROVE  \/ pc'[d] = "gone" \/ Retain(d) \/ Release(d)
         \/ pc'[d] \in Turn /\ cur'[d] = cur[d] /\ prep'[d] = prep[d]
<1> USE DEF Turn
<1> DEFINE Goal == \/ pc'[d] = "gone" \/ Retain(d) \/ Release(d)
                   \/ pc'[d] \in Turn /\ cur'[d] = cur[d] /\ prep'[d] = prep[d]
<1>1. ASSUME NEW c \in Controllers, Admission(c) PROVE Goal
  BY <1>1 DEF Admission, EnqueueContended, EnqueueNew, EnqueueAgain, EnqueueRejected, TypeOK,
       TryAcquire, StopWaiting, RouteChanged, Withdraw, RepreparePrompt, FinalUnchanged,
       Goto, config
<1>2. ASSUME NEW c \in Controllers, Lease(c) PROVE Goal
  <2>1. CASE Retain(c) \/ Release(c)
    BY <2>1 DEF Retain, Release, Goto, TypeOK, config
  <2>2. CASE Teardown(c)
    BY <2>2 DEF Teardown, TypeOK, config
  <2> QED
    BY <1>2, <2>1, <2>2 DEF Lease, MarkLaunching, LaunchIntentFails, Spawn, SpawnFails,
         BindChild, BindFails, TypeOK, Interrupt, Reaped, Goto, config
<1>3. ASSUME NEW c \in Controllers,
             \/ Start(c) \/ Prepare(c) \/ Finish(c) \/ EditPrompt(c) \/ ReconcileRead(c) \/ Abort(c)
             \/ \E route \in Routes : EditRoute(c, route)
             \/ \E removed \in SUBSET Reclaimable(c) : ReconcileApply(c, removed)
      PROVE  Goal
  BY <1>3 DEF Start, Prepare, Finish, EditPrompt, EditRoute, ReconcileRead, ReconcileApply,
       Abort, Goto, config, TypeOK
<1>4. ASSUME NEW i \in Invocation, LeaderExits(i) \/ Fork(i) \/ KinExit(i) \/ PidReused(i)
      PROVE  Goal
  BY <1>4 DEF LeaderExits, Fork, KinExit, PidReused, config
<1>5. ASSUME Reboot PROVE Goal
  BY <1>5 DEF Reboot, TypeOK, Alive
<1>6. CASE UNCHANGED vars
  BY <1>6 DEF vars, config
<1> QED
  BY <1>1, <1>2, <1>3, <1>4, <1>5, <1>6 DEF Next

LEMMA NextLaunched ==
  ASSUME Inv, LaunchedInTurn, [Next]_vars
  PROVE  LaunchedInTurn'
<1>1. TypeOK /\ Control /\ Minting
  BY DEF Inv
<1> SUFFICES ASSUME NEW r \in Resources, NEW o, NEW c,
                    o = journal'[r].owner, c = o.inv.by, Launched(o), Alive(c)'
             PROVE  o.inv = Mine(c)' /\ (Res(c) = r)' /\ pc'[c] \in Turn
  BY DEF LaunchedInTurn, Launched, Turn
<1>2. CASE \E d \in Controllers : MarkLaunching(d) /\ Res(d) = r /\ o.inv = Mine(d)
  <2>1. PICK d \in Controllers : MarkLaunching(d) /\ Res(d) = r /\ o.inv = Mine(d)
    BY <1>2
  <2>2. c = d /\ pc'[d] = "spawn" /\ cur' = cur /\ prep' = prep
    BY <1>1, <2>1 DEF MarkLaunching, Goto, Mine, config, TypeOK
  <2> QED
    BY <2>1, <2>2 DEF Mine, Res, Turn
<1>3. CASE Launched(journal[r].owner) /\ o.inv = journal[r].owner.inv
  <2>1. journal[r].owner \in Claim /\ o.inv \in Invocation /\ c \in Controllers
    BY <1>1, <1>3, JournalType DEF Launched, Claim, Invocation
  <2>2. o.inv.n \in 1..MaxInvocations /\ o.inv.n <= minted[c]
    BY <1>1, <1>3, <2>1 DEF Minting, ClaimsOf, Launched, Invocation
  <2>3. Alive(c)
    <3>1. pc[c] # "gone"
      BY <1>1, <2>1, PlaceSteps DEF Alive
    <3>2. pc[c] # "new"
      BY <1>1, <2>1, <2>2, BoundAssumption DEF Minting
    <3> QED
      BY <3>1, <3>2 DEF Alive
  <2>4. o.inv = Mine(c) /\ Res(c) = r /\ pc[c] \in Turn
    BY <1>3, <2>3 DEF LaunchedInTurn, Launched, Turn
  <2>5. ~Retain(c) /\ ~Release(c)
    <3>1. ASSUME Retain(c) PROVE FALSE
      <4>1. Write(r, journal[r].next,
                  Restated(journal[r].owner, "unconfirmed", journal[r].owner.bound),
                  journal[r].queue)
        BY <2>4, <3>1 DEF Retain, Transition
      <4>2. o.status = "unconfirmed"
        BY <1>1, <4>1, WriteEffect DEF Restated
      <4> QED
        BY <4>2 DEF Launched
    <3>2. ASSUME Release(c) PROVE FALSE
      <4>1. Write(r, journal[r].next, NoClaim, journal[r].queue)
        BY <2>4, <3>2 DEF Release
      <4>2. o = NoClaim
        BY <1>1, <4>1, WriteEffect
      <4> QED
        BY <4>2 DEF Launched
    <3> QED
      BY <3>1, <3>2
  <2>6. pc'[c] \in Turn /\ cur'[c] = cur[c] /\ prep'[c] = prep[c]
    BY <1>1, <2>1, <2>4, <2>5, TurnSteps DEF Alive
  <2> QED
    BY <2>4, <2>6 DEF Mine, Res
<1> QED
  BY <1>1, <1>2, <1>3, LaunchedSteps

\* No way out of a turn, whatever fails in it, leaves the claim of a live
\* controller launching or running: waiters blocked by such a claim wait for
\* a turn that is being conducted or for a dead controller's provider.
THEOREM LaunchedClaimsInTurn == Spec => []LaunchedInTurn
<1>1. Init => LaunchedInTurn
  BY DEF Init, LaunchedInTurn
<1> QED
  BY <1>1, NextLaunched, Invariant, PTL DEF Spec

=============================================================================
