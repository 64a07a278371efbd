------------------------------ MODULE ConfigPair ------------------------------
(***************************************************************************)
(* The transactional replacement of two configuration documents:           *)
(* aflow/config_pair.py.  A commit records the old and the new generation, *)
(* replaces the documents, marks the record committed and removes it;      *)
(* whoever takes the pair lock next completes what was interrupted.        *)
(*                                                                         *)
(* A rename or an unlink is visible at once and durable after the next     *)
(* sync of the directory: a power failure leaves each entry as it was at   *)
(* the last sync or at any time since.  File contents are synced before    *)
(* they are renamed into place.  Readers and writers do everything under   *)
(* the lock; only one of them has a state of its own, the lock's holder.   *)
(***************************************************************************)
EXTENDS Naturals

CONSTANTS
  Docs,       \* DOCUMENT_NAMES
  Payloads,   \* generations that commits install
  Original,   \* the pair in the beginning
  Edited,     \* what a third party writes into a document
  Missing,    \* the content of a document that does not exist
  MaxFaults,  \* bound: failed I/O operations, crashes and power failures
  MaxEdits,   \* bound: third-party edits
  NoRecord, NoPair, Conflict

Contents == {Missing, Edited} \cup {Original[d] : d \in Docs}
              \cup UNION {{new[d] : d \in Docs} : new \in Payloads}

Pair == [Docs -> Contents]

Record == [phase : {"prepared", "committed"}, old : Pair, new : Payloads]

ASSUME PairAssumption ==
  /\ Docs # {}
  /\ Original \in Pair /\ Payloads \subseteq Pair
  /\ \A new \in Payloads, d \in Docs : new[d] \notin {Missing, Edited}
  /\ NoRecord \notin Record /\ NoPair \notin Pair /\ Conflict \notin Pair
  /\ MaxFaults \in Nat /\ MaxEdits \in Nat

VARIABLES
  docs,        \* the documents, as a process sees them
  record,      \* the transaction record, as a process sees it
  diskDocs,    \* per document: what a power failure may leave
  diskRecord,  \* the records a power failure may leave
  pc,          \* where the holder of the pair lock is; "free" when nobody holds it
  duty,        \* why the holder recovers: to read, to commit, or to roll back
  base,        \* the generation its commit read
  payload,     \* the generation its commit installs
  expected,    \* expected_revision, NoPair when None
  todo,        \* documents its loop has yet to visit
  faults, edits

files == <<docs, record>>
disk == <<diskDocs, diskRecord>>
request == <<payload, expected>>
counts == <<faults, edits>>
vars == <<files, disk, pc, duty, base, request, todo, counts>>

Init ==
  /\ docs = Original /\ record = NoRecord
  /\ diskDocs = [d \in Docs |-> {Original[d]}] /\ diskRecord = {NoRecord}
  /\ pc = "free" /\ duty = "read"
  /\ base = NoPair /\ payload = NoPair /\ expected = NoPair /\ todo = {}
  /\ faults = 0 /\ edits = 0

-----------------------------------------------------------------------------
(* Files and the lock *)

Goto(from, to) == pc = from /\ pc' = to

\* A step that leaves the holder's other locals alone.
Step(from, to) == Goto(from, to) /\ UNCHANGED <<duty, base, request, todo, counts>>

\* The operation ends, for whatever reason, and its locals with it.
Leave ==
  /\ pc' = "free" /\ duty' = "read"
  /\ base' = NoPair /\ payload' = NoPair /\ expected' = NoPair /\ todo' = {}

Put(d, content) ==
  /\ docs' = [docs EXCEPT ![d] = content]
  /\ diskDocs' = [diskDocs EXCEPT ![d] = diskDocs[d] \cup {content}]
  /\ UNCHANGED <<record, diskRecord>>

PutRecord(r) ==
  /\ record' = r /\ diskRecord' = diskRecord \cup {r}
  /\ UNCHANGED <<docs, diskDocs>>

\* _fsync_directory
Sync ==
  /\ diskDocs' = [d \in Docs |-> {docs[d]}] /\ diskRecord' = {record}
  /\ UNCHANGED files

\* What a power failure may leave of the documents.
Survivors(dirs) == {content \in Pair : \A d \in Docs : content[d] \in dirs[d]}

Fault == faults < MaxFaults /\ faults' = faults + 1 /\ UNCHANGED edits

-----------------------------------------------------------------------------
(* recover_pending_transaction: whoever takes the lock runs it first *)

\* A document matches neither recorded generation.
Foreign(r, content) == \E d \in Docs : content[d] \notin {r.old[d], r.new[d]}

Target(r) == IF r.phase = "prepared" THEN r.old ELSE r.new

LockToRead == Step("free", "recover") /\ UNCHANGED <<files, disk>>

LockToCommit(new, revision) ==
  /\ Goto("free", "recover")
  /\ duty' = "commit" /\ payload' = new /\ expected' = revision
  /\ UNCHANGED <<files, disk, base, todo, counts>>

\* Where recovery leads: a read, a commit, or a rollback that has restored.
AfterRecovery == IF duty = "rollback" THEN "restored" ELSE "ready"

\* Faulty variant: what is pending is left to others.
RecoverNothing == Step("recover", AfterRecovery) /\ UNCHANGED <<files, disk>>

NothingPending ==
  /\ record = NoRecord /\ Step("recover", AfterRecovery) /\ UNCHANGED <<files, disk>>

\* Faulty variant: a record is applied without a look at the documents.
ValidateBlindly ==
  /\ record # NoRecord /\ Goto("recover", "restore") /\ todo' = Docs
  /\ UNCHANGED <<files, disk, duty, base, request, counts>>

Validate ==
  /\ record # NoRecord /\ ~Foreign(record, docs)
  /\ Goto("recover", "restore") /\ todo' = Docs
  /\ UNCHANGED <<files, disk, duty, base, request, counts>>

\* A third party has edited: the operation fails, record and files stay.
Blocked ==
  /\ pc = "recover" /\ record # NoRecord /\ Foreign(record, docs) /\ Leave
  /\ UNCHANGED <<files, disk, counts>>

Restore ==
  /\ Goto("restore", "restoreSync")
  /\ \E d \in todo :
       /\ todo' = todo \ {d}
       /\ IF docs[d] = Target(record)[d] THEN UNCHANGED <<files, disk>>
          ELSE Put(d, Target(record)[d])
  /\ UNCHANGED <<duty, base, request, counts>>

RestoreSync == Step("restoreSync", "restore") /\ Sync

Clear == todo = {} /\ Step("restore", "clearSync") /\ PutRecord(NoRecord)

ClearSync == Step("clearSync", AfterRecovery) /\ Sync

-----------------------------------------------------------------------------
(* A read, and commit_configuration_pair *)

Read == pc = "ready" /\ duty = "read" /\ Leave /\ UNCHANGED <<files, disk, counts>>

Conflicts == expected # NoPair /\ expected # docs

\* ConfigPairRevisionConflict
Refuse ==
  /\ pc = "ready" /\ duty = "commit" /\ Conflicts /\ Leave
  /\ UNCHANGED <<files, disk, counts>>

\* Faulty variant: the expected revision is not compared.
BeginAnyway ==
  /\ duty = "commit" /\ Goto("ready", "prepare")
  /\ base' = docs
  /\ UNCHANGED <<files, disk, duty, request, todo, counts>>

Begin ==
  /\ duty = "commit" /\ ~Conflicts /\ Goto("ready", "prepare")
  /\ base' = docs
  /\ UNCHANGED <<files, disk, duty, request, todo, counts>>

\* Faulty variant: old and new generation swapped.
TransactionSwapped(phase) == [phase |-> phase, old |-> payload, new |-> base]

Transaction(phase) == [phase |-> phase, old |-> base, new |-> payload]

Prepare == Step("prepare", "prepareSync") /\ PutRecord(Transaction("prepared"))

\* Faulty variant: the prepared record is not synced.
PrepareUnsynced ==
  /\ Goto("prepareSync", "replace")
  /\ todo' = {d \in Docs : payload[d] # base[d]}
  /\ UNCHANGED <<files, disk, duty, base, request, counts>>

PrepareSync ==
  /\ Goto("prepareSync", "replace") /\ Sync
  /\ todo' = {d \in Docs : payload[d] # base[d]}
  /\ UNCHANGED <<duty, base, request, counts>>

Replace ==
  /\ pc = "replace"
  /\ \E d \in todo : todo' = todo \ {d} /\ Put(d, payload[d])
  /\ UNCHANGED <<pc, duty, base, request, counts>>

ReplaceSync == todo = {} /\ Step("replace", "mark") /\ Sync

Mark == Step("mark", "markSync") /\ PutRecord(Transaction("committed"))

\* Faulty variant: success is acknowledged before the marker is durable.
MarkUnsynced == Step("markSync", "cleanup") /\ UNCHANGED <<files, disk>>

\* The success boundary.
MarkSync == Step("markSync", "cleanup") /\ Sync

Cleanup == Step("cleanup", "cleanupSync") /\ PutRecord(NoRecord)

CleanupSync == pc = "cleanupSync" /\ Sync /\ Leave /\ UNCHANGED counts

\* The cleanup failed: a committed record is retained for a later reader.
Retain == Step("retain", "retainSync") /\ PutRecord(Transaction("committed"))

RetainSync == pc = "retainSync" /\ Sync /\ Leave /\ UNCHANGED counts

-----------------------------------------------------------------------------
(* _rollback_pre_commit *)

\* Faulty variant: the record is applied in the phase it is found in.
RollbackAsFound ==
  /\ Goto("rollback", "recover") /\ duty' = "rollback"
  /\ UNCHANGED <<files, disk, base, request, todo, counts>>

\* A visible committed marker is taken back first.
Rollback ==
  /\ IF record # NoRecord /\ record.phase = "committed"
     THEN Goto("rollback", "rollbackSync") /\ PutRecord(Transaction("prepared"))
     ELSE Goto("rollback", "recover") /\ UNCHANGED <<files, disk>>
  /\ duty' = "rollback"
  /\ UNCHANGED <<base, request, todo, counts>>

RollbackSync == Step("rollbackSync", "recover") /\ Sync

\* "The previous pair was restored."
Restored == pc = "restored" /\ Leave /\ UNCHANGED <<files, disk, counts>>

-----------------------------------------------------------------------------
(* Failures *)

\* An I/O operation of a commit fails before its success boundary ...
FailCommit ==
  /\ Fault /\ pc \in {"prepare", "prepareSync", "replace", "mark", "markSync"}
  /\ pc' = "rollback" /\ todo' = {}
  /\ UNCHANGED <<files, disk, duty, base, request>>

\* ... or after it.
FailCleanup ==
  /\ Fault /\ pc \in {"cleanup", "cleanupSync"} /\ pc' = "retain"
  /\ UNCHANGED <<files, disk, duty, base, request, todo>>

\* Recovery, a rollback or a retention fails and gives up, or the process dies
\* anywhere, and the kernel releases its lock.
Crash == Fault /\ pc # "free" /\ Leave /\ UNCHANGED <<files, disk>>

PowerFailure ==
  /\ Fault /\ docs' \in Survivors(diskDocs) /\ record' \in diskRecord
  /\ diskDocs' = [d \in Docs |-> {docs'[d]}] /\ diskRecord' = {record'} /\ Leave

\* From its look at a document to its rename, the holder cannot notice an edit.
Unguarded == {"prepare", "prepareSync", "replace", "restore", "restoreSync"}

\* A third party, who takes no lock, saves a document or removes it.
Edit(d, content) ==
  /\ edits < MaxEdits /\ edits' = edits + 1
  /\ pc \notin Unguarded
  /\ Put(d, content)
  /\ UNCHANGED <<pc, duty, base, request, todo, faults>>

-----------------------------------------------------------------------------

Recovery ==
  NothingPending \/ Validate \/ Blocked \/ Restore \/ RestoreSync \/ Clear \/ ClearSync

Commit ==
  \/ Refuse \/ Begin \/ Prepare \/ PrepareSync \/ Replace \/ ReplaceSync
  \/ Mark \/ MarkSync \/ Cleanup \/ CleanupSync \/ Retain \/ RetainSync

Failure ==
  FailCommit \/ FailCleanup \/ Rollback \/ RollbackSync \/ Restored \/ Crash \/ PowerFailure

Next ==
  \/ LockToRead
  \/ \E new \in Payloads, revision \in {NoPair, Original} \cup Payloads :
       LockToCommit(new, revision)
  \/ Recovery \/ Read \/ Commit \/ Failure
  \/ \E d \in Docs, content \in {Edited, Missing} : Edit(d, content)

Spec == Init /\ [][Next]_vars

-----------------------------------------------------------------------------
(* Safety *)

\* Types of all variables; a payload and a base belong to a commit or its
\* rollback, and the documents a loop has yet to visit to its loop.
TypeOK ==
  /\ docs \in Pair /\ record \in Record \cup {NoRecord}
  /\ diskDocs \in [Docs -> SUBSET Contents]
  /\ diskRecord \subseteq Record \cup {NoRecord}
  /\ pc \in {"free", "recover", "restore", "restoreSync", "clearSync", "ready", "prepare",
             "prepareSync", "replace", "mark", "markSync", "cleanup", "cleanupSync",
             "retain", "retainSync", "rollback", "rollbackSync", "restored"}
  /\ duty \in {"read", "commit", "rollback"}
  /\ base \in Pair \cup {NoPair} /\ payload \in Payloads \cup {NoPair}
  /\ expected \in {NoPair, Original} \cup Payloads
  /\ todo \subseteq Docs
  /\ faults \in 0..MaxFaults /\ edits \in 0..MaxEdits

\* What a read returns that finds record r and documents content.
Outcome(r, content) ==
  IF r = NoRecord THEN content
  ELSE IF Foreign(r, content) THEN Conflict ELSE Target(r)

\* The outcomes of a read now, or after a power failure.
Outcomes(records, dirs) ==
  {Outcome(r, content) : r \in records, content \in Survivors(dirs)}

Possible == Outcomes(diskRecord, diskDocs)

\* What a process reads after recovery is settled: no power failure, rollback
\* or recovery by another process can take it back.
ReadsSettled == pc = "ready" /\ edits = 0 => Possible = {docs}

\* From the committed marker on, whatever fails, only the new generation will
\* ever be read.
CommitsDurable ==
  pc \in {"cleanup", "cleanupSync", "retain", "retainSync"} /\ edits = 0
    => Possible = {payload}

\* A commit that reports the previous pair restored has left exactly it.
RestorationTrue ==
  pc = "restored" /\ edits = 0 => docs = base /\ Possible = {base}

\* A generation comes into being only over the one its commit expected.
CompareAndSwap ==
  [][edits' = 0 /\ ~(Possible' \subseteq Possible) =>
       expected = NoPair \/ Possible = {expected}]_vars

\* The holder of the lock replaces a third party's edit only when a commit has
\* recorded it as its old generation.
EditsSurvive ==
  [][\A d \in Docs :
          /\ pc # "free" /\ pc' # "free" /\ edits' = edits
          /\ docs[d] = Edited /\ docs'[d] # Edited
       => record # NoRecord /\ record.old[d] = Edited]_vars

\* The two documents behave as one register.
Register == INSTANCE PairRegister WITH
  Values <- Pair \cup {Conflict}, Initial <- Original, possible <- Possible

PairIsOne == Register!Spec

=============================================================================
