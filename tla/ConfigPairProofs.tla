-------------------------- MODULE ConfigPairProofs --------------------------
(***************************************************************************)
(* Proofs about ConfigPair, for any documents, generations and bounds.     *)
(***************************************************************************)
EXTENDS ConfigPairInvariant, TLAPS

-----------------------------------------------------------------------------
(* Types and the shapes of records *)

LEMMA TransactionType ==
  ASSUME NEW phase \in {"prepared", "committed"}, base \in Pair, payload \in Payloads
  PROVE  /\ Transaction(phase) \in Record /\ Transaction(phase) # NoRecord
         /\ Transaction(phase).phase = phase
         /\ Transaction(phase).old = base /\ Transaction(phase).new = payload
<1>1. Transaction(phase) \in Record
  BY DEF Transaction, Record
<1> QED
  BY <1>1, PairAssumption DEF Transaction

LEMMA TargetType ==
  ASSUME NEW r \in Record
  PROVE  /\ Target(r) \in Pair /\ r.old \in Pair /\ r.new \in Payloads /\ r.new \in Pair
         /\ r.phase \in {"prepared", "committed"}
         /\ \A d \in Docs : Target(r)[d] \in {r.old[d], r.new[d]}
BY PairAssumption DEF Target, Record

LEMMA PairsAreEqual ==
  ASSUME NEW v \in Pair, NEW w \in Pair, \A d \in Docs : v[d] = w[d]
  PROVE  v = w
BY DEF Pair

LEMMA InitInv == Init => Inv
<1> SUFFICES ASSUME Init PROVE Inv
  OBVIOUS
<1>1. TypeOK
  BY PairAssumption DEF Init, TypeOK, Pair
<1>2. HolderInv
  BY DEF Init, HolderInv, Committing
<1>3. Untampered
  BY DEF Init, Untampered, Recoverable, Durable, Undone
<1> QED
  BY <1>1, <1>2, <1>3 DEF Inv

-----------------------------------------------------------------------------
(* Every step keeps the types *)

LEMMA PutType ==
  ASSUME TypeOK, NEW d \in Docs, NEW content \in Contents, Put(d, content)
  PROVE  /\ docs' \in Pair /\ diskDocs' \in [Docs -> SUBSET Contents]
         /\ record' \in Record \cup {NoRecord} /\ diskRecord' \subseteq Record \cup {NoRecord}
BY DEF TypeOK, Put, Pair

LEMMA PutRecordType ==
  ASSUME TypeOK, NEW r \in Record \cup {NoRecord}, PutRecord(r)
  PROVE  /\ docs' \in Pair /\ diskDocs' \in [Docs -> SUBSET Contents]
         /\ record' \in Record \cup {NoRecord} /\ diskRecord' \subseteq Record \cup {NoRecord}
BY DEF TypeOK, PutRecord

LEMMA SyncType ==
  ASSUME TypeOK, Sync
  PROVE  /\ docs' \in Pair /\ diskDocs' \in [Docs -> SUBSET Contents]
         /\ record' \in Record \cup {NoRecord} /\ diskRecord' \subseteq Record \cup {NoRecord}
BY DEF TypeOK, Sync, files, Pair

Places == {"free", "recover", "restore", "restoreSync", "clearSync", "ready", "prepare",
           "prepareSync", "replace", "mark", "markSync", "cleanup", "cleanupSync",
           "retain", "retainSync", "rollback", "rollbackSync", "restored"}

LEMMA StepType ==
  ASSUME TypeOK, NEW from, NEW to \in Places, Step(from, to)
  PROVE  /\ pc' \in Places /\ UNCHANGED <<duty, base, payload, expected, todo, faults, edits>>
BY DEF Step, Goto, request, counts, Places

LEMMA LeaveType ==
  ASSUME Leave
  PROVE  /\ pc' \in Places /\ duty' = "read" /\ base' = NoPair /\ payload' = NoPair
         /\ expected' = NoPair /\ todo' = {}
BY DEF Leave, Places

LEMMA TypeStep == Inv /\ [Next]_vars => TypeOK'
<1> SUFFICES ASSUME Inv, [Next]_vars PROVE TypeOK'
  OBVIOUS
<1> USE DEF Places
<1>0. TypeOK /\ HolderInv
  BY DEF Inv
<1>1. CASE UNCHANGED vars
  BY <1>0, <1>1 DEF TypeOK, vars, files, disk, request, counts
<1>2. CASE LockToRead
  BY <1>0, <1>2 DEF LockToRead, Step, Goto, TypeOK, files, disk, request, counts
<1>3. ASSUME NEW new \in Payloads, NEW revision \in {NoPair, Original} \cup Payloads,
             LockToCommit(new, revision)
      PROVE  TypeOK'
  BY <1>0, <1>3 DEF LockToCommit, Goto, TypeOK, files, disk, request, counts
<1>4. CASE Recovery
  <2>1. CASE NothingPending \/ Validate
    BY <1>0, <2>1 DEF NothingPending, Validate, AfterRecovery, Step, Goto, TypeOK, files, disk,
      request, counts
  <2>2. CASE Blocked
    BY <1>0, <2>2 DEF Blocked, Leave, TypeOK, files, disk, counts
  <2>3. CASE Restore
    <3>1. record \in Record
      BY <1>0, <2>3 DEF TypeOK, HolderInv, Restore, Goto
    <3>2. \A d \in Docs : Target(record)[d] \in Contents
      BY <3>1, TargetType DEF Pair
    <3>3. PICK d \in todo :
            /\ todo' = todo \ {d}
            /\ IF docs[d] = Target(record)[d] THEN UNCHANGED <<files, disk>>
               ELSE Put(d, Target(record)[d])
      BY <2>3 DEF Restore
    <3>4. d \in Docs /\ todo' \subseteq Docs
      BY <1>0, <3>3 DEF TypeOK
    <3>5. /\ docs' \in Pair /\ diskDocs' \in [Docs -> SUBSET Contents]
          /\ record' \in Record \cup {NoRecord} /\ diskRecord' \subseteq Record \cup {NoRecord}
      <4>1. CASE docs[d] = Target(record)[d]
        BY <1>0, <3>3, <4>1 DEF TypeOK, files, disk
      <4>2. CASE docs[d] # Target(record)[d]
        BY <1>0, <3>2, <3>3, <3>4, <4>2, PutType
      <4> QED
        BY <4>1, <4>2
    <3> QED
      BY <1>0, <2>3, <3>4, <3>5 DEF Restore, Goto, TypeOK, request, counts
  <2>4. CASE RestoreSync
    BY <1>0, <2>4, SyncType DEF RestoreSync, Step, Goto, TypeOK, request, counts
  <2>5. CASE Clear
    BY <1>0, <2>5, PutRecordType DEF Clear, Step, Goto, TypeOK, request, counts
  <2>6. CASE ClearSync
    BY <1>0, <2>6, SyncType DEF ClearSync, AfterRecovery, Step, Goto, TypeOK, request, counts
  <2> QED
    BY <1>4, <2>1, <2>2, <2>3, <2>4, <2>5, <2>6 DEF Recovery
<1>5. CASE Read
  BY <1>0, <1>5 DEF Read, Leave, TypeOK, files, disk, counts
<1>6. CASE Commit
  <2>0. pc \in Committing => base \in Pair /\ payload \in Payloads
    BY <1>0 DEF HolderInv
  <2>1. CASE Refuse
    BY <1>0, <2>1 DEF Refuse, Leave, TypeOK, files, disk, counts
  <2>2. CASE Begin
    BY <1>0, <2>2 DEF Begin, Goto, TypeOK, files, disk, request, counts
  <2>3. CASE Prepare \/ Mark \/ Cleanup \/ Retain
    <3>1. pc \in Committing /\ pc' \in Places
      BY <2>3 DEF Prepare, Mark, Cleanup, Retain, Step, Goto, Committing
    <3>2. \E r \in Record \cup {NoRecord} : PutRecord(r)
      BY <2>0, <2>3, <3>1, TransactionType DEF Prepare, Mark, Cleanup, Retain
    <3>3. UNCHANGED <<duty, base, payload, expected, todo, faults, edits>>
      BY <2>3 DEF Prepare, Mark, Cleanup, Retain, Step, request, counts
    <3> QED
      BY <1>0, <3>1, <3>2, <3>3, PutRecordType DEF TypeOK
  <2>4. CASE PrepareSync
    BY <1>0, <2>4, SyncType DEF PrepareSync, Goto, TypeOK, request, counts
  <2>5. CASE Replace
    <3>1. pc = "replace" /\ payload \in Pair
      BY <2>0, <2>5, PairAssumption DEF Replace, Committing
    <3>2. PICK d \in todo : todo' = todo \ {d} /\ Put(d, payload[d])
      BY <2>5 DEF Replace
    <3>3. d \in Docs /\ payload[d] \in Contents
      BY <1>0, <3>1 DEF TypeOK, Pair
    <3> QED
      BY <1>0, <2>5, <3>2, <3>3, PutType DEF Replace, TypeOK, request, counts
  <2>6. CASE ReplaceSync \/ MarkSync
    BY <1>0, <2>6, SyncType DEF ReplaceSync, MarkSync, Step, Goto, TypeOK, request, counts
  <2>7. CASE CleanupSync \/ RetainSync
    BY <1>0, <2>7, SyncType DEF CleanupSync, RetainSync, Leave, TypeOK, counts
  <2> QED
    BY <1>6, <2>1, <2>2, <2>3, <2>4, <2>5, <2>6, <2>7 DEF Commit
<1>7. CASE Failure
  <2>1. CASE FailCommit \/ FailCleanup
    BY <1>0, <2>1, PairAssumption
    DEF FailCommit, FailCleanup, Fault, TypeOK, files, disk, request
  <2>2. CASE Rollback
    <3>1. base \in Pair /\ payload \in Payloads
      BY <1>0, <2>2 DEF Rollback, Goto, HolderInv, Committing
    <3>2. \/ UNCHANGED <<files, disk>>
          \/ PutRecord(Transaction("prepared"))
      BY <2>2 DEF Rollback
    <3>3. /\ docs' \in Pair /\ diskDocs' \in [Docs -> SUBSET Contents]
          /\ record' \in Record \cup {NoRecord} /\ diskRecord' \subseteq Record \cup {NoRecord}
      <4>1. CASE UNCHANGED <<files, disk>>
        BY <1>0, <4>1 DEF TypeOK, files, disk
      <4>2. CASE PutRecord(Transaction("prepared"))
        BY <1>0, <3>1, <4>2, TransactionType, PutRecordType
      <4> QED
        BY <3>2, <4>1, <4>2
    <3> QED
      BY <1>0, <2>2, <3>3 DEF Rollback, Goto, TypeOK, request, counts
  <2>3. CASE RollbackSync
    BY <1>0, <2>3, SyncType DEF RollbackSync, Step, Goto, TypeOK, request, counts
  <2>4. CASE Restored
    BY <1>0, <2>4 DEF Restored, Leave, TypeOK, files, disk, counts
  <2>5. CASE Crash
    BY <1>0, <2>5, PairAssumption DEF Crash, Fault, Leave, TypeOK, files, disk
  <2>6. CASE PowerFailure
    <3>1. /\ docs' \in Pair /\ diskDocs' \in [Docs -> SUBSET Contents]
          /\ record' \in Record \cup {NoRecord} /\ diskRecord' \subseteq Record \cup {NoRecord}
      BY <1>0, <2>6 DEF PowerFailure, Survivors, TypeOK, Pair
    <3> QED
      BY <1>0, <2>6, <3>1, PairAssumption DEF PowerFailure, Fault, Leave, TypeOK
  <2> QED
    BY <1>7, <2>1, <2>2, <2>3, <2>4, <2>5, <2>6 DEF Failure
<1>8. ASSUME NEW d \in Docs, NEW content \in {Edited, Missing}, Edit(d, content)
      PROVE  TypeOK'
  <2>1. content \in Contents
    BY DEF Contents
  <2> QED
    BY <1>0, <1>8, <2>1, PutType, PairAssumption DEF Edit, TypeOK, request
<1> QED
  BY <1>1, <1>2, <1>3, <1>4, <1>5, <1>6, <1>7, <1>8 DEF Next

-----------------------------------------------------------------------------
(* Every step keeps what the holder knows *)

LEMMA StepUnfolded ==
  ASSUME NEW from, NEW to, Step(from, to)
  PROVE  /\ pc = from /\ pc' = to
         /\ UNCHANGED <<duty, base, payload, expected, todo, faults, edits>>
BY DEF Step, Goto, request, counts

LEMMA PutFacts ==
  ASSUME TypeOK, NEW d \in Docs, NEW content \in Contents, Put(d, content)
  PROVE  /\ record' = record /\ diskRecord' = diskRecord
         /\ \A e \in Docs : docs'[e] = IF e = d THEN content ELSE docs[e]
         /\ \A e \in Docs : diskDocs'[e] = IF e = d THEN diskDocs[e] \cup {content}
                                           ELSE diskDocs[e]
BY DEF Put, TypeOK, Pair

LEMMA SyncFacts ==
  ASSUME Sync
  PROVE  /\ docs' = docs /\ record' = record /\ diskRecord' = {record}
         /\ \A d \in Docs : diskDocs'[d] = {docs[d]}
BY DEF Sync, files

\* The files stay at hand: on the disk is at least what is visible.
LEMMA CurrentStep ==
  ASSUME Inv, [Next]_vars, TypeOK'
  PROVE  record' \in diskRecord' /\ \A d \in Docs : docs'[d] \in diskDocs'[d]
<1> DEFINE Goal == record' \in diskRecord' /\ \A d \in Docs : docs'[d] \in diskDocs'[d]
<1>0. /\ TypeOK /\ record \in diskRecord /\ \A d \in Docs : docs[d] \in diskDocs[d]
      /\ pc \in {"restore", "restoreSync"} => record # NoRecord
      /\ pc \in Committing => payload \in Pair
  BY PairAssumption DEF Inv, HolderInv, Committing
<1>1. ASSUME UNCHANGED <<files, disk>> PROVE Goal
  BY <1>0, <1>1 DEF files, disk
<1>2. ASSUME Sync PROVE Goal
  BY <1>2, SyncFacts
<1>3. ASSUME NEW r, PutRecord(r) PROVE Goal
  BY <1>0, <1>3 DEF PutRecord
<1>4. ASSUME NEW d \in Docs, NEW content \in Contents, Put(d, content) PROVE Goal
  <2>1. /\ record' = record /\ diskRecord' = diskRecord
        /\ \A e \in Docs : docs'[e] = IF e = d THEN content ELSE docs[e]
        /\ \A e \in Docs : diskDocs'[e] = IF e = d THEN diskDocs[e] \cup {content}
                                          ELSE diskDocs[e]
    BY <1>0, <1>4, PutFacts
  <2> QED
    BY <1>0, <2>1
<1>5. CASE Restore
  <2>1. record \in Record
    BY <1>0, <1>5 DEF TypeOK, Restore, Goto
  <2>2. PICK d \in todo : IF docs[d] = Target(record)[d] THEN UNCHANGED <<files, disk>>
                          ELSE Put(d, Target(record)[d])
    BY <1>5 DEF Restore
  <2>3. d \in Docs /\ Target(record)[d] \in Contents
    BY <1>0, <2>1, TargetType DEF TypeOK, Pair
  <2> QED
    BY <1>1, <1>4, <2>2, <2>3
<1>6. CASE Replace
  <2>1. PICK d \in todo : Put(d, payload[d])
    BY <1>6 DEF Replace
  <2>2. d \in Docs /\ payload[d] \in Contents
    BY <1>0, <1>6 DEF TypeOK, Replace, Committing, Pair
  <2> QED
    BY <1>4, <2>1, <2>2
<1>7. CASE PowerFailure
  BY <1>7 DEF PowerFailure
<1>8. ASSUME NEW d \in Docs, NEW content \in {Edited, Missing}, Edit(d, content) PROVE Goal
  BY <1>4, <1>8 DEF Edit, Contents
<1>9. CASE Rollback
  BY <1>1, <1>3, <1>9 DEF Rollback
<1>10. CASE Recovery /\ ~Restore
  BY <1>1, <1>2, <1>3, <1>10
  DEF Recovery, NothingPending, Validate, Blocked, RestoreSync, Clear, ClearSync
<1>11. CASE Commit /\ ~Replace
  BY <1>1, <1>2, <1>3, <1>11
  DEF Commit, Refuse, Begin, Prepare, PrepareSync, ReplaceSync, Mark, MarkSync, Cleanup,
    CleanupSync, Retain, RetainSync
<1>12. CASE Failure /\ ~Rollback /\ ~PowerFailure
  BY <1>1, <1>2, <1>12
  DEF Failure, FailCommit, FailCleanup, RollbackSync, Restored, Crash
<1>13. CASE UNCHANGED vars \/ LockToRead \/ Read
           \/ \E new \in Payloads, revision \in {NoPair, Original} \cup Payloads :
                LockToCommit(new, revision)
  BY <1>1, <1>13 DEF vars, LockToRead, Read, LockToCommit
<1> QED
  BY <1>5, <1>6, <1>7, <1>8, <1>9, <1>10, <1>11, <1>12, <1>13 DEF Next

LEMMA HolderStep == Inv /\ [Next]_vars => HolderInv'
<1> SUFFICES ASSUME Inv, [Next]_vars PROVE HolderInv'
  OBVIOUS
<1>0. TypeOK /\ HolderInv
  BY DEF Inv
<1>t. TypeOK'
  BY TypeStep
<1>c. record' \in diskRecord' /\ \A d \in Docs : docs'[d] \in diskDocs'[d]
  BY <1>t, CurrentStep
<1> USE <1>0, <1>c DEF HolderInv, Committing
<1>1. CASE UNCHANGED vars \/ LockToRead
  BY <1>1 DEF vars, files, disk, request, counts, LockToRead, Step, Goto, Transaction, Foreign
<1>2. ASSUME NEW new \in Payloads, NEW revision \in {NoPair, Original} \cup Payloads,
             LockToCommit(new, revision)
      PROVE  HolderInv'
  BY <1>2 DEF LockToCommit, Goto, files, disk
<1>3. CASE Recovery
  <2>1. CASE NothingPending
    BY <2>1 DEF NothingPending, AfterRecovery, Step, Goto, files, disk, request
  <2>2. CASE Validate
    BY <2>2 DEF Validate, Goto, files, disk, request, Foreign
  <2>3. CASE Blocked
    BY <2>3 DEF Blocked, Leave
  <2>4. CASE Restore
    <3>1. record \in Record /\ record # NoRecord /\ ~Foreign(record, docs)
      BY <2>4 DEF TypeOK, Restore, Goto
    <3>2. PICK d \in todo : IF docs[d] = Target(record)[d] THEN UNCHANGED <<files, disk>>
                            ELSE Put(d, Target(record)[d])
      BY <2>4 DEF Restore
    <3>3. d \in Docs /\ Target(record)[d] \in Contents
      BY <3>1, TargetType DEF TypeOK, Pair
    <3>4. /\ record' = record
          /\ \A e \in Docs : docs'[e] = docs[e] \/ docs'[e] = Target(record)[e]
      <4>1. CASE docs[d] = Target(record)[d]
        BY <3>2, <4>1 DEF files
      <4>2. CASE docs[d] # Target(record)[d]
        BY <3>2, <3>3, <4>2, PutFacts
      <4> QED
        BY <4>1, <4>2
    <3>5. record' # NoRecord /\ ~Foreign(record', docs')
      BY <3>1, <3>4, TargetType DEF Foreign
    <3> QED
      BY <2>4, <3>5 DEF Restore, Goto, request
  <2>5. CASE RestoreSync
    BY <2>5, SyncFacts, StepUnfolded DEF RestoreSync, Foreign
  <2>6. CASE Clear
    BY <2>6, StepUnfolded DEF Clear, PutRecord
  <2>7. CASE ClearSync
    BY <2>7, SyncFacts, StepUnfolded DEF ClearSync, AfterRecovery
  <2> QED
    BY <1>3, <2>1, <2>2, <2>3, <2>4, <2>5, <2>6, <2>7 DEF Recovery
<1>4. CASE Read
  BY <1>4 DEF Read, Leave
<1>5. CASE Commit
  <2>1. CASE Refuse \/ CleanupSync \/ RetainSync
    BY <2>1 DEF Refuse, CleanupSync, RetainSync, Leave
  <2>2. CASE Begin
    BY <2>2 DEF Begin, Conflicts, Goto, files, disk, request, TypeOK
  <2>3. CASE Prepare
    BY <2>3, StepUnfolded DEF Prepare, PutRecord, Transaction
  <2>4. CASE PrepareSync
    BY <2>4, SyncFacts DEF PrepareSync, Goto, request, Transaction
  <2>5. CASE Replace
    <3>1. pc = "replace" /\ payload \in Payloads /\ payload \in Pair
      BY <2>5, PairAssumption DEF Replace
    <3>2. PICK d \in todo : Put(d, payload[d])
      BY <2>5 DEF Replace
    <3>3. d \in Docs /\ payload[d] \in Contents
      BY <3>1 DEF TypeOK, Pair
    <3>4. /\ record' = record
          /\ \A e \in Docs : docs'[e] = docs[e] \/ docs'[e] = payload[e]
      BY <3>2, <3>3, PutFacts
    <3> QED
      BY <2>5, <3>1, <3>4 DEF Replace, request, Transaction
  <2>6. CASE ReplaceSync
    BY <2>6, SyncFacts, StepUnfolded DEF ReplaceSync, Transaction
  <2>7. CASE Mark
    BY <2>7, StepUnfolded DEF Mark, PutRecord, Transaction
  <2>8. CASE MarkSync
    BY <2>8, SyncFacts, StepUnfolded DEF MarkSync, Transaction
  <2>9. CASE Cleanup
    BY <2>9, StepUnfolded DEF Cleanup, PutRecord
  <2>10. CASE Retain
    BY <2>10, StepUnfolded DEF Retain, PutRecord, Transaction
  <2> QED
    BY <1>5, <2>1, <2>2, <2>3, <2>4, <2>5, <2>6, <2>7, <2>8, <2>9, <2>10 DEF Commit
<1>6. CASE Failure
  <2>1. CASE FailCommit \/ FailCleanup
    BY <2>1 DEF FailCommit, FailCleanup, request
  <2>2. CASE Rollback
    BY <2>2 DEF Rollback, Goto, PutRecord, request, Transaction
  <2>3. CASE RollbackSync
    BY <2>3, SyncFacts, StepUnfolded DEF RollbackSync
  <2>4. CASE Restored \/ Crash \/ PowerFailure
    BY <2>4 DEF Restored, Crash, PowerFailure, Leave
  <2> QED
    BY <1>6, <2>1, <2>2, <2>3, <2>4 DEF Failure
<1>7. ASSUME NEW d \in Docs, NEW content \in {Edited, Missing}, Edit(d, content)
      PROVE  HolderInv'
  BY <1>7 DEF Edit, Unguarded, Put, request, Transaction
<1> QED
  BY <1>1, <1>2, <1>3, <1>4, <1>5, <1>6, <1>7 DEF Next

-----------------------------------------------------------------------------
(* Without edits, every step keeps the files recoverable *)

\* A sync, or a power failure, leaves one content and one record of those that
\* were possible.
LEMMA Collapse ==
  ASSUME NEW records \in SUBSET (Record \cup {NoRecord}), NEW dirs \in [Docs -> SUBSET Contents],
         NEW content \in Pair, Recoverable(records, dirs, content),
         NEW r \in records, NEW left \in Pair, \A d \in Docs : left[d] \in dirs[d],
         NEW after \in [Docs -> SUBSET Contents], \A d \in Docs : after[d] = {left[d]}
  PROVE  Recoverable({r}, after, left)
<1>1. CASE r = NoRecord
  BY <1>1 DEF Recoverable, Durable
<1>2. CASE r # NoRecord
  BY <1>2 DEF Recoverable
<1> QED
  BY <1>1, <1>2

\* A document is replaced by one of the generations of the only transaction.
LEMMA PutRecoverable ==
  ASSUME TypeOK, Recoverable(diskRecord, diskDocs, docs), NoRecord \notin diskRecord,
         record \in diskRecord,
         NEW d \in Docs, NEW content \in Contents, Put(d, content),
         content \in {record.old[d], record.new[d]}
  PROVE  Recoverable(diskRecord', diskDocs', docs')
<1>1. /\ diskRecord' = diskRecord
      /\ \A e \in Docs : diskDocs'[e] = IF e = d THEN diskDocs[e] \cup {content}
                                        ELSE diskDocs[e]
  BY PutFacts
<1>2. \A r \in diskRecord : content \in {r.old[d], r.new[d]}
  BY DEF Recoverable
<1>3. ASSUME NEW r \in diskRecord' \ {NoRecord}, NEW e \in Docs
      PROVE  diskDocs'[e] \subseteq {r.old[e], r.new[e]}
  <2>1. diskDocs[e] \subseteq {r.old[e], r.new[e]}
    BY <1>1 DEF Recoverable
  <2> QED
    BY <1>1, <1>2, <2>1
<1> QED
  BY <1>1, <1>3 DEF Recoverable

\* A record is written whose outcome is the durable content.
LEMMA PutRecordRecoverable ==
  ASSUME Recoverable(diskRecord, diskDocs, docs), Durable(diskDocs, docs),
         \A r \in diskRecord \ {NoRecord} : Target(r) = docs,
         NoRecord \in diskRecord',
         NEW r \in Record \cup {NoRecord}, PutRecord(r), r # NoRecord => Target(r) = docs
  PROVE  Recoverable(diskRecord', diskDocs', docs')
<1>1. diskRecord' = diskRecord \cup {r} /\ diskDocs' = diskDocs /\ docs' = docs
  BY DEF PutRecord
<1>2. ASSUME NEW s \in diskRecord' \ {NoRecord}, NEW d \in Docs
      PROVE  Target(s) = docs /\ diskDocs[d] \subseteq {s.old[d], s.new[d]}
  <2>1. Target(s) = docs /\ diskDocs[d] = {docs[d]}
    BY <1>1, <1>2 DEF Durable
  <2> QED
    BY <2>1 DEF Target
<1>3. \A s \in diskRecord' \ {NoRecord} : Target(s) = docs
  BY <1>1
<1>4. Durable(diskDocs', docs')
  BY <1>1 DEF Durable
<1>5. \A s \in diskRecord' \ {NoRecord}, d \in Docs : diskDocs'[d] \subseteq {s.old[d], s.new[d]}
  BY <1>1, <1>2
<1> QED
  BY <1>1, <1>3, <1>4, <1>5 DEF Recoverable

LEMMA SyncRecoverable ==
  ASSUME Inv, TypeOK', Untampered, Sync
  PROVE  Recoverable(diskRecord', diskDocs', docs') /\ Durable(diskDocs', docs')
<1>1. /\ record \in diskRecord /\ \A d \in Docs : docs[d] \in diskDocs[d]
      /\ docs' = docs /\ diskRecord' = {record} /\ \A d \in Docs : diskDocs'[d] = {docs[d]}
  BY SyncFacts DEF Inv, HolderInv
<1>2. Recoverable({record}, diskDocs', docs)
  BY <1>1, Collapse DEF Inv, TypeOK, Untampered
<1> QED
  BY <1>1, <1>2 DEF Durable

\* The disk is as it was, and so is what the holder needs to know of it.
LEMMA RestTargets ==
  ASSUME TypeOK, Untampered, NoRecord \in diskRecord
  PROVE  Durable(diskDocs, docs) /\ \A r \in diskRecord \ {NoRecord} : Target(r) = docs
BY DEF Untampered, Recoverable

LEMMA NoEditsYet == Inv /\ [Next]_vars /\ edits' = 0 => edits = 0
<1>1. Inv /\ [Next]_vars => edits \in Nat /\ (edits' = edits \/ edits' = edits + 1)
  BY DEF Inv, TypeOK, Next, vars, LockToRead, LockToCommit, Recovery, NothingPending, Validate,
    Blocked, Restore, RestoreSync, Clear, ClearSync, Read, Commit, Refuse, Begin, Prepare, PrepareSync,
    Replace, ReplaceSync, Mark, MarkSync, Cleanup, CleanupSync, Retain, RetainSync, Failure,
    FailCommit, FailCleanup, Rollback, RollbackSync, Restored, Crash, PowerFailure, Fault, Step,
    Edit, counts
<1> QED
  BY <1>1

LEMMA UntamperedStep == Inv /\ [Next]_vars /\ edits' = 0 => Untampered'
<1> SUFFICES ASSUME Inv, [Next]_vars, edits' = 0 PROVE Untampered'
  OBVIOUS
<1>t. TypeOK /\ HolderInv /\ TypeOK' /\ HolderInv'
  BY TypeStep, HolderStep DEF Inv
<1>c. record' \in diskRecord' /\ \A d \in Docs : docs'[d] \in diskDocs'[d]
  BY <1>t, CurrentStep
<1>e. edits = 0
  BY NoEditsYet
<1>u. Untampered /\ Recoverable(diskRecord, diskDocs, docs)
  BY <1>e DEF Inv, Untampered
<1> DEFINE Safe == Recoverable(diskRecord', diskDocs', docs')
<1>x. ASSUME UNCHANGED <<files, disk>> PROVE Safe
  BY <1>u, <1>x DEF files, disk
<1>y. ASSUME Sync PROVE Safe /\ Durable(diskDocs', docs')
  BY <1>t, <1>u, <1>y, SyncRecoverable
<1> HIDE DEF Safe
<1>1. CASE UNCHANGED vars
  BY <1>1, <1>u DEF vars, files, disk, request, counts, Untampered, Recoverable, Durable, Undone,
    Transaction, Target
<1>2. CASE LockToRead
  BY <1>2, <1>t, <1>u, <1>x, StepUnfolded DEF LockToRead, HolderInv, Untampered, Safe
<1>3. ASSUME NEW new \in Payloads, NEW revision \in {NoPair, Original} \cup Payloads,
             LockToCommit(new, revision)
      PROVE  Untampered'
  BY <1>3, <1>u, <1>x DEF LockToCommit, Goto, Untampered, Safe
<1>4. ASSUME Leave, Safe PROVE Untampered'
  BY <1>4 DEF Leave, Untampered, Safe
<1>5. CASE Blocked \/ Read \/ Refuse \/ Restored \/ Crash
  BY <1>4, <1>5, <1>x DEF Blocked, Read, Refuse, Restored, Crash
<1>6. CASE CleanupSync \/ RetainSync
  BY <1>4, <1>6, <1>y DEF CleanupSync, RetainSync
<1>7. CASE PowerFailure
  <2>1. /\ record' \in diskRecord /\ docs' \in Pair /\ diskRecord' = {record'}
        /\ \A d \in Docs : docs'[d] \in diskDocs[d] /\ diskDocs'[d] = {docs'[d]}
    BY <1>7 DEF PowerFailure, Survivors
  <2>2. Safe
    BY <1>t, <1>u, <2>1, Collapse DEF TypeOK, Safe
  <2> QED
    BY <1>4, <1>7, <2>2 DEF PowerFailure
<1>8. ASSUME NEW d \in Docs, NEW content \in {Edited, Missing}, Edit(d, content) PROVE FALSE
  BY <1>8, <1>e DEF Edit
<1>9. CASE NothingPending
  BY <1>9, <1>t, <1>u, <1>x, StepUnfolded
  DEF NothingPending, AfterRecovery, HolderInv, Untampered, Undone, Safe, files, Transaction
<1>10. CASE Validate
  BY <1>10, <1>t, <1>u, <1>x
  DEF Validate, Goto, HolderInv, Untampered, Undone, Safe, files, request, Transaction
<1>11. CASE Restore
  <2>1. /\ pc = "restore" /\ record \in Record /\ record # NoRecord /\ record \in diskRecord
        /\ \A d \in Docs \ todo : docs[d] = Target(record)[d]
    BY <1>11, <1>t, <1>u DEF TypeOK, HolderInv, Untampered, Restore, Goto
  <2>2. PICK d \in todo :
          /\ todo' = todo \ {d}
          /\ IF docs[d] = Target(record)[d] THEN UNCHANGED <<files, disk>>
             ELSE Put(d, Target(record)[d])
    BY <1>11 DEF Restore
  <2>3. d \in Docs /\ Target(record)[d] \in Contents
    BY <1>t, <2>1, <2>2, TargetType DEF TypeOK, Pair
  <2>4. /\ Safe /\ record' = record
        /\ \A e \in Docs : docs'[e] = IF e = d THEN Target(record)[e] ELSE docs[e]
    <3>1. CASE docs[d] = Target(record)[d]
      BY <1>x, <2>2, <2>3, <3>1 DEF files
    <3>2. CASE docs[d] # Target(record)[d]
      <4>1. Put(d, Target(record)[d])
        BY <2>2, <3>2
      <4>2. NoRecord \notin diskRecord
        BY <1>t, <1>u, <2>1, <3>2, RestTargets
      <4>3. Safe
        BY <1>t, <1>u, <2>1, <2>3, <4>1, <4>2, PutRecoverable, TargetType DEF Safe
      <4> QED
        BY <1>t, <2>3, <4>1, <4>3, PutFacts
    <3> QED
      BY <3>1, <3>2
  <2>5. \A e \in Docs \ todo' : docs'[e] = Target(record')[e]
    BY <2>1, <2>2, <2>4
  <2>6. duty = "rollback" => record = Transaction("prepared")
    BY <1>u, <2>1 DEF Untampered, Undone
  <2> QED
    BY <1>11, <2>4, <2>5, <2>6
    DEF Restore, Goto, Untampered, Undone, Safe, request, Transaction
<1>12. CASE RestoreSync
  BY <1>12, <1>t, <1>u, <1>y, SyncFacts, StepUnfolded
  DEF RestoreSync, HolderInv, Untampered, Undone, Safe, Transaction
<1>13. CASE Clear
  <2>1. /\ pc = "restore" /\ todo = {} /\ record # NoRecord /\ record \in diskRecord
        /\ diskRecord = {record} /\ Durable(diskDocs, docs)
        /\ \A d \in Docs : docs[d] = Target(record)[d]
    BY <1>13, <1>t, <1>u, PairAssumption, StepUnfolded DEF Clear, HolderInv, Untampered
  <2>2. record \in Record /\ Target(record) = docs
    <3>1. record \in Record
      BY <1>t, <2>1 DEF TypeOK
    <3> QED
      BY <1>t, <2>1, <3>1, TargetType, PairsAreEqual DEF TypeOK
  <2>3. Safe
    BY <1>13, <1>u, <2>1, <2>2, PutRecordRecoverable DEF Clear, PutRecord, Safe
  <2>4. duty = "rollback" => docs = base
    <3>1. duty = "rollback" => base \in Pair /\ payload \in Payloads
      BY <1>t DEF HolderInv
    <3> QED
      BY <1>u, <2>1, <2>2, <3>1 DEF Untampered, Undone, Transaction, Target
  <2> QED
    BY <1>13, <2>3, <2>4, StepUnfolded DEF Clear, PutRecord, Untampered, Undone, Safe
<1>14. CASE ClearSync
  <2>1. pc = "clearSync" /\ record = NoRecord
    BY <1>14, <1>t, StepUnfolded DEF ClearSync, HolderInv
  <2>2. duty = "rollback" => docs = base
    BY <1>t, <1>u, <2>1, TransactionType DEF Untampered, Undone, HolderInv
  <2> QED
    BY <1>14, <1>y, <2>1, <2>2, SyncFacts, StepUnfolded
    DEF ClearSync, AfterRecovery, Untampered, Undone, Safe
<1>15. CASE Begin
  BY <1>15, <1>t, <1>x DEF Begin, Goto, HolderInv, Untampered, Safe, files, request
<1>16. CASE Prepare
  <2>1. /\ pc = "prepare" /\ record = NoRecord /\ docs = base /\ NoRecord \in diskRecord
        /\ base \in Pair /\ payload \in Payloads
    BY <1>16, <1>t, StepUnfolded DEF Prepare, HolderInv, Committing
  <2>2. /\ Transaction("prepared") \in Record /\ Target(Transaction("prepared")) = docs
        /\ PutRecord(Transaction("prepared")) /\ NoRecord \in diskRecord'
        /\ docs' = docs /\ diskDocs' = diskDocs
    BY <1>16, <2>1, TransactionType DEF Prepare, PutRecord, Target
  <2>3. Durable(diskDocs, docs) /\ \A r \in diskRecord \ {NoRecord} : Target(r) = docs
    BY <1>t, <1>u, <2>1, RestTargets
  <2>4. Safe
    BY <1>u, <2>2, <2>3, PutRecordRecoverable DEF Safe
  <2> QED
    BY <1>16, <1>t, <2>1, <2>2, <2>3, <2>4, StepUnfolded
    DEF Prepare, Untampered, HolderInv, Committing, Safe, Durable
<1>17. CASE PrepareSync
  <2>1. pc = "prepareSync" /\ docs = base /\ duty = "commit"
    BY <1>17, <1>t, <1>u DEF PrepareSync, Goto, HolderInv, Committing, Untampered
  <2> QED
    BY <1>17, <1>t, <1>y, <2>1, SyncFacts DEF PrepareSync, Goto, request, Untampered, Safe
<1>18. CASE Replace
  <2>1. /\ pc = "replace" /\ record = Transaction("prepared") /\ diskRecord = {record}
        /\ base \in Pair /\ payload \in Payloads /\ payload \in Pair /\ duty = "commit"
        /\ \A e \in Docs : docs[e] = IF e \in todo THEN base[e] ELSE payload[e]
    BY <1>18, <1>t, <1>u, PairAssumption DEF Replace, HolderInv, Committing, Untampered
  <2>2. PICK d \in todo : todo' = todo \ {d} /\ Put(d, payload[d])
    BY <1>18 DEF Replace
  <2>3. d \in Docs /\ payload[d] \in Contents
    BY <1>t, <2>1, <2>2 DEF TypeOK, Pair
  <2>4. NoRecord \notin diskRecord /\ payload[d] \in {record.old[d], record.new[d]}
    BY <2>1, TransactionType
  <2>5. Safe
    BY <1>t, <1>u, <2>1, <2>2, <2>3, <2>4, PutRecoverable DEF Safe
  <2>6. /\ record' = record /\ diskRecord' = diskRecord
        /\ \A e \in Docs : docs'[e] = IF e = d THEN payload[e] ELSE docs[e]
    BY <1>t, <2>2, <2>3, PutFacts
  <2>7. \A e \in Docs : docs'[e] = IF e \in todo' THEN base[e] ELSE payload[e]
    BY <2>1, <2>2, <2>6
  <2> QED
    BY <1>18, <2>1, <2>5, <2>6, <2>7 DEF Replace, request, Untampered, Safe
<1>19. CASE ReplaceSync
  <2>1. /\ pc = "replace" /\ duty = "commit" /\ payload \in Pair
        /\ \A e \in Docs : docs[e] = payload[e]
    BY <1>19, <1>t, <1>u, PairAssumption, StepUnfolded
    DEF ReplaceSync, HolderInv, Committing, Untampered
  <2>2. docs = payload
    BY <1>t, <2>1, PairsAreEqual DEF TypeOK
  <2> QED
    BY <1>19, <1>y, <2>1, <2>2, SyncFacts, StepUnfolded DEF ReplaceSync, Untampered, Safe
<1>20. CASE Mark
  <2>1. /\ pc = "mark" /\ record = Transaction("prepared") /\ diskRecord = {record}
        /\ base \in Pair /\ payload \in Payloads /\ duty = "commit"
        /\ docs = payload /\ Durable(diskDocs, docs)
    BY <1>20, <1>t, <1>u, StepUnfolded DEF Mark, HolderInv, Committing, Untampered
  <2>2. /\ record' = Transaction("committed") /\ diskRecord' = {record, record'}
        /\ docs' = docs /\ diskDocs' = diskDocs
    BY <1>20, <2>1 DEF Mark, PutRecord
  <2>3. NoRecord \notin diskRecord' /\ \A r \in diskRecord' : r.old = base /\ r.new = payload
    BY <2>1, <2>2, TransactionType
  <2>4. Safe
    BY <2>1, <2>2, <2>3 DEF Recoverable, Durable, Safe
  <2> QED
    BY <1>20, <2>1, <2>2, <2>4, StepUnfolded DEF Mark, Untampered, Safe, Durable, Transaction
<1>21. CASE MarkSync
  BY <1>21, <1>t, <1>u, <1>y, SyncFacts, StepUnfolded
  DEF MarkSync, HolderInv, Committing, Untampered, Safe
<1>22. CASE Cleanup
  <2>1. /\ pc = "cleanup" /\ record = Transaction("committed") /\ diskRecord = {record}
        /\ base \in Pair /\ payload \in Payloads /\ duty = "commit"
        /\ docs = payload /\ Durable(diskDocs, docs)
    BY <1>22, <1>t, <1>u, StepUnfolded DEF Cleanup, HolderInv, Committing, Untampered
  <2>2. /\ record' = NoRecord /\ diskRecord' = {record, NoRecord}
        /\ docs' = docs /\ diskDocs' = diskDocs /\ PutRecord(NoRecord)
    BY <1>22, <2>1 DEF Cleanup, PutRecord
  <2>3. \A r \in diskRecord \ {NoRecord} : Target(r) = docs
    BY <2>1, TransactionType DEF Target
  <2>4. Safe
    BY <1>u, <2>1, <2>2, <2>3, PutRecordRecoverable DEF Safe
  <2> QED
    BY <1>22, <2>1, <2>2, <2>4, StepUnfolded DEF Cleanup, Untampered, Safe, Durable, Transaction
<1>23. CASE Retain
  <2>1. /\ pc = "retain" /\ diskRecord \subseteq {Transaction("committed"), NoRecord}
        /\ base \in Pair /\ payload \in Payloads /\ duty = "commit"
        /\ docs = payload /\ Durable(diskDocs, docs)
    BY <1>23, <1>t, <1>u, StepUnfolded DEF Retain, HolderInv, Committing, Untampered
  <2>2. /\ record' = Transaction("committed") /\ diskRecord' = diskRecord \cup {record'}
        /\ docs' = docs /\ diskDocs' = diskDocs /\ PutRecord(Transaction("committed"))
    BY <1>23, <2>1 DEF Retain, PutRecord
  <2>3. Target(Transaction("committed")) = docs /\ Transaction("committed") \in Record
    BY <2>1, TransactionType DEF Target
  <2>4. Safe
    <3>1. CASE NoRecord \in diskRecord
      BY <1>u, <2>1, <2>2, <2>3, <3>1, PutRecordRecoverable DEF Safe
    <3>2. CASE NoRecord \notin diskRecord
      <4>1. diskRecord' = diskRecord
        BY <1>t, <2>1, <2>2, <3>2 DEF HolderInv
      <4> QED
        BY <1>u, <2>2, <4>1 DEF Safe
    <3> QED
      BY <3>1, <3>2
  <2> QED
    BY <1>23, <2>1, <2>2, <2>4, StepUnfolded DEF Retain, Untampered, Safe, Durable, Transaction
<1>24. CASE FailCommit
  <2>1. /\ Safe /\ duty = "commit" /\ duty' = "commit" /\ pc' = "rollback" /\ record' = record
        /\ docs' = docs /\ diskRecord' = diskRecord /\ base' = base /\ payload' = payload
    BY <1>24, <1>t, <1>x DEF FailCommit, HolderInv, Committing, files, disk, request
  <2>2. \/ Undone
        \/ record = Transaction("committed") /\ diskRecord = {Transaction("prepared"), record}
    BY <1>24, <1>t, <1>u DEF FailCommit, HolderInv, Untampered, Undone
  <2> QED
    BY <2>1, <2>2 DEF Untampered, Undone, Safe, Transaction
<1>25. CASE FailCleanup
  <2>1. diskRecord \subseteq {Transaction("committed"), NoRecord}
    BY <1>25, <1>t, <1>u DEF FailCleanup, HolderInv, Untampered
  <2> QED
    BY <1>25, <1>t, <1>u, <1>x, <2>1
    DEF FailCleanup, HolderInv, Committing, Untampered, Safe, files, disk, request, Transaction,
      Durable
<1>26. CASE Rollback
  <2>1. /\ base \in Pair /\ payload \in Payloads /\ pc = "rollback" /\ duty' = "rollback"
        /\ base' = base /\ payload' = payload
    BY <1>26, <1>t DEF Rollback, Goto, HolderInv, Committing, request
  <2>2. CASE record # NoRecord /\ record.phase = "committed"
    <3>1. diskRecord = {Transaction("prepared"), record}
      BY <1>u, <2>1, <2>2, TransactionType DEF Untampered, Undone
    <3>2. /\ record' = Transaction("prepared") /\ diskRecord' = diskRecord
          /\ docs' = docs /\ diskDocs' = diskDocs /\ pc' = "rollbackSync"
      BY <1>26, <2>2, <3>1 DEF Rollback, Goto, PutRecord
    <3> QED
      BY <1>u, <2>1, <3>2 DEF Untampered, Undone, Transaction
  <2>3. CASE ~(record # NoRecord /\ record.phase = "committed")
    <3>1. UNCHANGED <<files, disk>> /\ pc' = "recover"
      BY <1>26, <2>3 DEF Rollback, Goto
    <3>2. Undone
      BY <1>u, <2>1, <2>3, TransactionType DEF Untampered
    <3> QED
      BY <1>x, <2>1, <3>1, <3>2 DEF Untampered, Undone, Safe, files, Transaction
  <2> QED
    BY <2>2, <2>3
<1>27. CASE RollbackSync
  BY <1>27, <1>t, <1>u, <1>y, SyncFacts, StepUnfolded
  DEF RollbackSync, HolderInv, Untampered, Undone, Safe, Transaction
<1> QED
  BY <1>1, <1>2, <1>3, <1>5, <1>6, <1>7, <1>8, <1>9, <1>10, <1>11, <1>12, <1>13, <1>14, <1>15,
    <1>16, <1>17, <1>18, <1>19, <1>20, <1>21, <1>22, <1>23, <1>24, <1>25, <1>26, <1>27
  DEF Next, Recovery, Commit, Failure

LEMMA StepInv == Inv /\ [Next]_vars => Inv'
BY TypeStep, HolderStep, UntamperedStep DEF Inv

\* The inductive invariant of the configuration pair: whatever fails, and
\* whatever a power failure leaves, the two files can be recovered.
THEOREM Invariant == Spec => []Inv
<1>1. Init => Inv
  BY InitInv
<1>2. Inv /\ [Next]_vars => Inv'
  BY StepInv
<1> QED
  BY <1>1, <1>2, PTL DEF Spec

\* Every file, record and local of a commit has its type.
THEOREM TypeCorrect == Spec => []TypeOK
<1>1. Inv => TypeOK
  BY DEF Inv
<1> QED
  BY <1>1, Invariant, PTL

-----------------------------------------------------------------------------
(* What can be read *)

Value(r, content) == IF r = NoRecord THEN content ELSE Target(r)

\* Nothing that a power failure leaves is foreign to its record, or mixed.
LEMMA OutcomesAreValues ==
  ASSUME NEW records \in SUBSET (Record \cup {NoRecord}), NEW dirs, NEW content \in Pair,
         Recoverable(records, dirs, content), \A d \in Docs : content[d] \in dirs[d]
  PROVE  Outcomes(records, dirs) = {Value(r, content) : r \in records}
<1>1. ASSUME NEW r \in records, NEW left \in Survivors(dirs)
      PROVE  Outcome(r, left) = Value(r, content)
  <2>1. left \in Pair /\ \A d \in Docs : left[d] \in dirs[d]
    BY DEF Survivors
  <2>2. CASE r = NoRecord
    <3>1. \A d \in Docs : dirs[d] = {content[d]}
      BY <2>2 DEF Recoverable, Durable
    <3>2. left = content
      BY <2>1, <3>1, PairsAreEqual
    <3> QED
      BY <2>2, <3>2 DEF Outcome, Value
  <2>3. CASE r # NoRecord
    <3>1. \A d \in Docs : left[d] \in {r.old[d], r.new[d]}
      BY <2>1, <2>3 DEF Recoverable
    <3> QED
      BY <2>3, <3>1 DEF Outcome, Value, Foreign
  <2> QED
    BY <2>2, <2>3
<1>2. content \in Survivors(dirs)
  BY DEF Survivors
<1> QED
  BY <1>1, <1>2 DEF Outcomes

LEMMA PossibleValues ==
  ASSUME TypeOK, HolderInv, Untampered
  PROVE  Possible = {Value(r, docs) : r \in diskRecord}
BY OutcomesAreValues DEF Possible, TypeOK, HolderInv, Untampered

LEMMA AtRest ==
  ASSUME TypeOK, HolderInv, Untampered, record = NoRecord
  PROVE  Possible = {docs}
<1>1. NoRecord \in diskRecord
  BY DEF HolderInv
<1>2. \A r \in diskRecord : Value(r, docs) = docs
  BY <1>1, RestTargets DEF Value
<1> QED
  BY <1>1, <1>2, PossibleValues

\* A read that has recovered returns what every later read will return: no
\* power failure or recovery takes it back.
THEOREM ReadsAreSettled == Spec => []ReadsSettled
<1>1. Inv => ReadsSettled
  BY AtRest DEF Inv, ReadsSettled, HolderInv
<1> QED
  BY <1>1, Invariant, PTL

\* Once the committed marker is durable, only the new generation can be read.
THEOREM CommitsAreDurable == Spec => []CommitsDurable
<1>1. ASSUME Inv, pc \in {"cleanup", "cleanupSync", "retain", "retainSync"}, edits = 0
      PROVE  Possible = {payload}
  <2>1. TypeOK /\ HolderInv /\ Untampered /\ base \in Pair /\ payload \in Payloads
    BY <1>1 DEF Inv, HolderInv, Committing
  <2>2. /\ diskRecord \subseteq {Transaction("committed"), NoRecord}
        /\ docs = payload /\ record \in diskRecord
    BY <1>1, <2>1 DEF HolderInv, Untampered
  <2>3. \A r \in diskRecord : Value(r, docs) = payload
    BY <2>1, <2>2, TransactionType DEF Value, Target
  <2> QED
    BY <2>1, <2>2, <2>3, PossibleValues
<1>2. Inv => CommitsDurable
  BY <1>1 DEF CommitsDurable
<1> QED
  BY <1>2, Invariant, PTL

\* A commit that reports the previous pair restored has restored it for good.
THEOREM RestorationIsTrue == Spec => []RestorationTrue
<1>1. ASSUME Inv, pc = "restored", edits = 0
      PROVE  docs = base /\ Possible = {base}
  <2>1. TypeOK /\ HolderInv /\ Untampered
    BY <1>1 DEF Inv
  <2>2. record = NoRecord /\ base \in Pair /\ payload \in Payloads /\ Undone
    BY <1>1, <2>1 DEF HolderInv, Untampered
  <2>3. docs = base
    BY <2>2, TransactionType DEF Undone
  <2> QED
    BY <2>1, <2>2, <2>3, AtRest
<1>2. Inv => RestorationTrue
  BY <1>1 DEF RestorationTrue
<1> QED
  BY <1>2, Invariant, PTL

\* The holder of the lock replaces an edit only if a commit recorded it as old.
THEOREM EditsAreKept == Spec => EditsSurvive
<1>1. ASSUME Inv, [Next]_vars, NEW d \in Docs, pc # "free", pc' # "free", edits' = edits,
             docs[d] = Edited, docs'[d] # Edited
      PROVE  record # NoRecord /\ record.old[d] = Edited
  <2>0. TypeOK /\ HolderInv
    BY <1>1 DEF Inv
  <2>1. Restore \/ Replace
    <3>1. ~\E e \in Docs, content \in {Edited, Missing} : Edit(e, content)
      BY <1>1, <2>0 DEF Edit, TypeOK
    <3> QED
      BY <1>1, <3>1, SyncFacts
      DEF Next, vars, files, LockToRead, LockToCommit, Recovery, NothingPending, Validate,
        Blocked, RestoreSync, Clear, ClearSync, Read, Commit, Refuse, Begin, Prepare, PrepareSync,
        ReplaceSync, Mark, MarkSync, Cleanup, CleanupSync, Retain, RetainSync, Failure,
        FailCommit, FailCleanup, Rollback, RollbackSync, Restored, Crash, PowerFailure, Leave,
        PutRecord
  <2>2. CASE Restore
    <3>1. record \in Record /\ record # NoRecord /\ ~Foreign(record, docs)
      BY <2>0, <2>2 DEF Restore, Goto, HolderInv, TypeOK
    <3> QED
      BY <1>1, <3>1, PairAssumption DEF Foreign, Record
  <2>3. CASE Replace
    <3>1. /\ pc = "replace" /\ record = Transaction("prepared")
          /\ base \in Pair /\ payload \in Payloads /\ docs[d] \in {base[d], payload[d]}
      BY <2>0, <2>3 DEF Replace, HolderInv, Committing
    <3> QED
      BY <1>1, <3>1, TransactionType, PairAssumption
  <2> QED
    BY <2>1, <2>2, <2>3
<1>2. Inv /\ [Next]_vars => [\A d \in Docs :
            /\ pc # "free" /\ pc' # "free" /\ edits' = edits
            /\ docs[d] = Edited /\ docs'[d] # Edited
         => record # NoRecord /\ record.old[d] = Edited]_vars
  BY <1>1
<1> QED
  BY <1>2, Invariant, PTL DEF Spec, EditsSurvive

-----------------------------------------------------------------------------
(* The pair is one register *)

\* What can be read changes in three ways only: an edit, the write of the
\* committed marker, and the loss of all possibilities but one.
LEMMA PossibleStep ==
  ASSUME Inv, [Next]_vars, edits' = 0
  PROVE  \/ Possible' = Possible
         \/ Mark /\ Possible = {base} /\ Possible' = {base, payload}
         \/ \E v \in Possible : Possible' = {v}
<1>0. /\ TypeOK /\ HolderInv /\ Untampered
      /\ TypeOK' /\ HolderInv' /\ Untampered'
  BY NoEditsYet, StepInv DEF Inv
<1>1. /\ Possible = {Value(r, docs) : r \in diskRecord}
      /\ Possible' = {Value(r, docs') : r \in diskRecord'}
  <2>1. Possible' = {Value(r, docs') : r \in diskRecord'}
    BY <1>0, OutcomesAreValues DEF Possible, TypeOK, HolderInv, Untampered
  <2> QED
    BY <1>0, <2>1, PossibleValues
<1> DEFINE Goal == \/ Possible' = Possible
                   \/ Mark /\ Possible = {base} /\ Possible' = {base, payload}
                   \/ \E v \in Possible : Possible' = {v}
<1>2. ASSUME UNCHANGED <<files, disk>> PROVE Goal
  BY <1>1, <1>2 DEF files, disk
<1>3. ASSUME Sync PROVE Goal
  <2>1. diskRecord' = {record} /\ docs' = docs /\ record \in diskRecord
    BY <1>0, <1>3, SyncFacts DEF HolderInv
  <2> QED
    BY <1>1, <2>1
<1>4. ASSUME NEW d \in Docs, NEW content \in Contents, Put(d, content), NoRecord \notin diskRecord
      PROVE  Goal
  <2>1. diskRecord' = diskRecord
    BY <1>4 DEF Put
  <2>2. \A r \in diskRecord : Value(r, docs') = Value(r, docs)
    BY <1>4 DEF Value
  <2> QED
    BY <1>1, <2>1, <2>2
<1>5. ASSUME NEW r, PutRecord(r), Value(r, docs) \in Possible PROVE Goal
  <2>1. diskRecord' = diskRecord \cup {r} /\ docs' = docs
    BY <1>5 DEF PutRecord
  <2> QED
    BY <1>1, <1>5, <2>1
<1>6. CASE Restore
  <2>1. record \in Record /\ record # NoRecord /\ record \in diskRecord
    BY <1>0, <1>6 DEF Restore, Goto, HolderInv, TypeOK
  <2>2. PICK d \in todo : IF docs[d] = Target(record)[d] THEN UNCHANGED <<files, disk>>
                          ELSE Put(d, Target(record)[d])
    BY <1>6 DEF Restore
  <2>3. d \in Docs /\ Target(record)[d] \in Contents
    BY <1>0, <2>1, TargetType DEF TypeOK, Pair
  <2>4. docs[d] # Target(record)[d] => NoRecord \notin diskRecord
    BY <1>0, <2>1, RestTargets
  <2> QED
    BY <1>2, <1>4, <2>2, <2>3, <2>4
<1>7. CASE Replace
  <2>1. /\ pc = "replace" /\ NoRecord \notin diskRecord /\ payload \in Pair
    BY <1>0, <1>7, TransactionType, PairAssumption
    DEF Replace, HolderInv, Committing, Untampered
  <2>2. PICK d \in todo : Put(d, payload[d])
    BY <1>7 DEF Replace
  <2>3. d \in Docs /\ payload[d] \in Contents
    BY <1>0, <2>1 DEF TypeOK, Pair
  <2> QED
    BY <1>4, <2>1, <2>2, <2>3
<1>8. CASE Clear
  <2>1. record # NoRecord /\ record \in diskRecord /\ Target(record) = docs
    <3>1. /\ record # NoRecord /\ record \in Record /\ record \in diskRecord
          /\ \A d \in Docs : docs[d] = Target(record)[d]
      BY <1>0, <1>8, StepUnfolded DEF Clear, HolderInv, TypeOK, Untampered
    <3> QED
      BY <1>0, <3>1, TargetType, PairsAreEqual DEF TypeOK
  <2>2. Value(NoRecord, docs) = Value(record, docs)
    BY <2>1 DEF Value
  <2> QED
    BY <1>1, <1>5, <1>8, <2>1, <2>2 DEF Clear
<1>9. CASE Prepare
  <2>1. /\ record = NoRecord /\ docs = base /\ base \in Pair /\ payload \in Payloads
    BY <1>0, <1>9, StepUnfolded DEF Prepare, HolderInv, Committing
  <2>2. Value(Transaction("prepared"), docs) = docs /\ Possible = {docs}
    BY <1>0, <2>1, TransactionType, AtRest DEF Value, Target
  <2> QED
    BY <1>5, <1>9, <2>2 DEF Prepare
<1>10. CASE Mark
  <2>1. /\ record = Transaction("prepared") /\ diskRecord = {record}
        /\ base \in Pair /\ payload \in Payloads
        /\ diskRecord' = {record, Transaction("committed")}
    BY <1>0, <1>10, StepUnfolded DEF Mark, PutRecord, HolderInv, Committing, Untampered
  <2>2. /\ Value(record, docs) = base /\ Value(record, docs') = base
        /\ Value(Transaction("committed"), docs') = payload
    BY <2>1, TransactionType DEF Value, Target
  <2> QED
    BY <1>1, <1>10, <2>1, <2>2
<1>11. CASE Cleanup \/ Retain
  <2>1. /\ pc \in {"cleanup", "retain"} /\ Possible = {payload} /\ docs = payload
        /\ base \in Pair /\ payload \in Payloads
    <3>1. /\ pc \in {"cleanup", "retain"}
          /\ diskRecord \subseteq {Transaction("committed"), NoRecord} /\ record \in diskRecord
          /\ docs = payload /\ base \in Pair /\ payload \in Payloads
      BY <1>0, <1>11, StepUnfolded DEF Cleanup, Retain, HolderInv, Committing, Untampered
    <3>2. \A r \in diskRecord : Value(r, docs) = payload
      BY <3>1, TransactionType DEF Value, Target
    <3> QED
      BY <1>1, <3>1, <3>2
  <2>2. Value(NoRecord, docs) = payload /\ Value(Transaction("committed"), docs) = payload
    BY <2>1, TransactionType DEF Value, Target
  <2> QED
    BY <1>5, <1>11, <2>1, <2>2 DEF Cleanup, Retain
<1>12. CASE Rollback
  <2>1. base \in Pair /\ payload \in Payloads /\ pc = "rollback"
    BY <1>0, <1>12 DEF Rollback, Goto, HolderInv, Committing
  <2>2. CASE record # NoRecord /\ record.phase = "committed"
    <3>1. diskRecord = {Transaction("prepared"), record} /\ PutRecord(Transaction("prepared"))
      BY <1>0, <1>12, <2>1, <2>2, TransactionType DEF Untampered, Undone, Rollback
    <3>2. Value(Transaction("prepared"), docs) \in Possible
      BY <1>1, <3>1
    <3> QED
      BY <1>5, <3>1, <3>2
  <2>3. CASE ~(record # NoRecord /\ record.phase = "committed")
    BY <1>2, <1>12, <2>3 DEF Rollback
  <2> QED
    BY <2>2, <2>3
<1>13. CASE PowerFailure
  <2>1. record' \in diskRecord /\ docs' \in Survivors(diskDocs) /\ diskRecord' = {record'}
    BY <1>13 DEF PowerFailure
  <2>2. Value(record', docs') = Outcome(record', docs')
    <3>1. record' \in diskRecord' /\ docs' \in Survivors(diskDocs')
      BY <1>0 DEF HolderInv, Survivors, TypeOK
    <3>2. CASE record' = NoRecord
      BY <3>2 DEF Value, Outcome
    <3>3. CASE record' # NoRecord
      <4>1. \A d \in Docs : docs'[d] \in {record'.old[d], record'.new[d]}
        BY <1>0, <3>1, <3>3 DEF Untampered, Recoverable, Survivors
      <4> QED
        BY <3>3, <4>1 DEF Value, Outcome, Foreign
    <3> QED
      BY <3>2, <3>3
  <2>3. Value(record', docs') \in Possible
    BY <2>1, <2>2 DEF Possible, Outcomes
  <2> QED
    BY <1>1, <2>1, <2>3
<1>14. CASE Recovery /\ ~Restore /\ ~Clear
  BY <1>2, <1>3, <1>14
  DEF Recovery, NothingPending, Validate, Blocked, RestoreSync, ClearSync
<1>15. CASE Commit /\ ~Prepare /\ ~Replace /\ ~Mark /\ ~Cleanup /\ ~Retain
  BY <1>2, <1>3, <1>15
  DEF Commit, Refuse, Begin, PrepareSync, ReplaceSync, MarkSync, CleanupSync, RetainSync
<1>16. CASE Failure /\ ~Rollback /\ ~PowerFailure
  BY <1>2, <1>3, <1>16 DEF Failure, FailCommit, FailCleanup, RollbackSync, Restored, Crash
<1>17. CASE UNCHANGED vars \/ LockToRead \/ Read
            \/ \E new \in Payloads, revision \in {NoPair, Original} \cup Payloads :
                 LockToCommit(new, revision)
  BY <1>2, <1>17 DEF vars, LockToRead, Read, LockToCommit
<1>18. ASSUME NEW d \in Docs, NEW content \in {Edited, Missing}, Edit(d, content) PROVE FALSE
  BY <1>18, NoEditsYet DEF Edit
<1> QED
  BY <1>6, <1>7, <1>8, <1>9, <1>10, <1>11, <1>12, <1>13, <1>14, <1>15, <1>16, <1>17, <1>18
  DEF Next

\* No generation comes into being but over the one its commit expected.
THEOREM ComparesAndSwaps == Spec => CompareAndSwap
<1>1. ASSUME Inv, [Next]_vars, edits' = 0, ~(Possible' \subseteq Possible)
      PROVE  expected = NoPair \/ Possible = {expected}
  <2>1. Mark /\ Possible = {base}
    BY <1>1, PossibleStep
  <2>2. expected \in {NoPair, base}
    BY <1>1, <2>1, StepUnfolded DEF Mark, Inv, HolderInv
  <2> QED
    BY <2>1, <2>2
<1>2. Inv /\ [Next]_vars => [edits' = 0 /\ ~(Possible' \subseteq Possible) =>
                               expected = NoPair \/ Possible = {expected}]_vars
  BY <1>1
<1> QED
  BY <1>2, Invariant, PTL DEF Spec, CompareAndSwap

\* The two documents, their record and its recovery implement one register,
\* as long as nobody edits them behind its back.
THEOREM Refinement == Spec => PairIsOne
<1>1. Init => Register!Init
  <2> SUFFICES ASSUME Init PROVE Register!Init
    OBVIOUS
  <2>1. Inv /\ edits = 0 /\ record = NoRecord /\ docs = Original
    BY InitInv DEF Init
  <2> QED
    BY <2>1, AtRest DEF Register!Init, Inv
<1>2. Inv /\ [Next]_vars => [Register!Next]_<<Possible, edits>>
  <2> SUFFICES ASSUME Inv, [Next]_vars PROVE [Register!Next]_<<Possible, edits>>
    OBVIOUS
  <2>0. TypeOK /\ TypeOK' /\ HolderInv
    BY StepInv DEF Inv
  <2>1. CASE edits' = 0
    <3>1. edits = 0
      BY <2>1, NoEditsYet
    <3>2. CASE Possible' = Possible
      BY <2>1, <3>1, <3>2
    <3>3. CASE Mark /\ Possible = {base} /\ Possible' = {base, payload}
      <4>1. base \in Pair /\ payload \in Pair
        BY <2>0, <3>3, StepUnfolded, PairAssumption DEF Mark, HolderInv, Committing
      <4>2. Register!Attempt
        BY <2>1, <3>1, <3>3, <4>1 DEF Register!Attempt
      <4> QED
        BY <4>2 DEF Register!Next
    <3>4. CASE \E v \in Possible : Possible' = {v}
      BY <2>1, <3>1, <3>4 DEF Register!Settle, Register!Next
    <3> QED
      BY <2>1, <3>2, <3>3, <3>4, PossibleStep
  <2>2. CASE edits' # 0
    <3>1. edits' > 0
      BY <2>0, <2>2 DEF TypeOK
    <3>2. ASSUME NEW r \in diskRecord', NEW left \in Survivors(diskDocs')
          PROVE  Outcome(r, left) \in Pair \cup {Conflict}
      <4>1. r \in Record \cup {NoRecord} /\ left \in Pair
        BY <2>0 DEF TypeOK, Survivors
      <4> QED
        BY <4>1, TargetType DEF Outcome
    <3>3. Possible' \in SUBSET (Pair \cup {Conflict})
      BY <3>2 DEF Possible, Outcomes
    <3> QED
      BY <3>1, <3>3 DEF Register!Tampered, Register!Next
  <2> QED
    BY <2>1, <2>2
<1> QED
  BY <1>1, <1>2, Invariant, PTL DEF Spec, PairIsOne, Register!Spec

=============================================================================
