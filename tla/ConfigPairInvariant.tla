------------------------- MODULE ConfigPairInvariant -------------------------
(***************************************************************************)
(* The inductive invariant of ConfigPair: what is on the disk, and what    *)
(* the holder of the pair lock knows of it, at each of its steps.          *)
(***************************************************************************)
EXTENDS ConfigPair

Durable(dirs, content) == \A d \in Docs : dirs[d] = {content[d]}

\* Whatever a power failure leaves can be recovered: without a record, content
\* stands alone; with one, no document is foreign to it.
Recoverable(records, dirs, content) ==
  /\ \A r \in records \ {NoRecord}, d \in Docs : dirs[d] \subseteq {r.old[d], r.new[d]}
  /\ \/ /\ NoRecord \in records /\ Durable(dirs, content)
        /\ \A r \in records \ {NoRecord} : Target(r) = content
     \/ /\ NoRecord \notin records
        /\ \A r, s \in records : r.old = s.old /\ r.new = s.new

Committing == {"prepare", "prepareSync", "replace", "mark", "markSync", "cleanup",
               "cleanupSync", "retain", "retainSync", "rollback"}

\* What the holder knows of the files, even if they are edited.
HolderInv ==
  /\ record \in diskRecord /\ \A d \in Docs : docs[d] \in diskDocs[d]
  /\ pc = "free" => duty = "read"
  /\ pc \in Committing => duty = "commit"
  /\ pc \in {"rollbackSync", "restored"} => duty = "rollback"
  /\ duty # "read" => payload \in Payloads
  /\ pc \in Committing \/ duty = "rollback" => base \in Pair
  /\ pc \in {"clearSync", "ready", "restored", "prepare"} => record = NoRecord
  /\ pc \in {"prepareSync", "replace", "mark", "rollbackSync"} => record = Transaction("prepared")
  /\ pc \in {"markSync", "cleanup", "retainSync"} => record = Transaction("committed")
  /\ pc \in {"restore", "restoreSync"} => record # NoRecord /\ ~Foreign(record, docs)
  /\ pc = "prepare" => docs = base
  /\ pc \in {"prepareSync", "replace"} => \A d \in Docs : docs[d] \in {base[d], payload[d]}
  /\ pc \in {"prepare", "prepareSync", "replace", "mark", "markSync"} => expected \in {NoPair, base}

Undone == (record = NoRecord /\ docs = base) \/ record = Transaction("prepared")

\* What it knows if they are not.
Untampered ==
  /\ Recoverable(diskRecord, diskDocs, docs)
  /\ pc \in {"restore", "restoreSync"} => \A d \in Docs \ todo : docs[d] = Target(record)[d]
  /\ pc = "restore" /\ todo # Docs => diskRecord = {record} /\ Durable(diskDocs, docs)
  /\ pc = "prepareSync" => docs = base /\ Durable(diskDocs, docs)
  /\ pc = "replace" =>
       /\ diskRecord = {record}
       /\ \A d \in Docs : docs[d] = IF d \in todo THEN base[d] ELSE payload[d]
  /\ pc \in {"mark", "markSync", "cleanup", "cleanupSync", "retain", "retainSync"} =>
       docs = payload /\ Durable(diskDocs, docs)
  /\ pc \in {"mark", "cleanup"} => diskRecord = {record}
  /\ pc = "markSync" => diskRecord = {Transaction("prepared"), record}
  /\ pc \in {"cleanupSync", "retain", "retainSync"} =>
       diskRecord \subseteq {Transaction("committed"), NoRecord}
  /\ duty = "rollback" => Undone
  /\ pc = "rollback" =>
       \/ Undone
       \/ /\ record = Transaction("committed")
          /\ diskRecord = {Transaction("prepared"), record}

\* Whatever happens, the files can be recovered.
Inv == TypeOK /\ HolderInv /\ (edits = 0 => Untampered)

=============================================================================
