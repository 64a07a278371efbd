------------------------- MODULE PlanLifecycleProofs -------------------------
(***************************************************************************)
(* Proofs about PlanLifecycle: wherever a move, its recovery or the machine *)
(* stops, no plan is lost, none is moved from under a run, and a move that  *)
(* is recorded as done is done.                                            *)
(***************************************************************************)
EXTENDS PlanLifecycle, FiniteSetTheorems, TLAPS

-----------------------------------------------------------------------------
(* The inductive invariant *)

Wellformed ==
  \A i \in Owner : journal[i].phase # "none" => journal[i].source # journal[i].destination

\* What the holder of the lock knows of the move that it completes.
Held ==
  /\ pc = "idle" <=> task = "none"
  /\ pc \notin {"idle", "recover"} =>
       /\ moving \in Owner /\ journal[moving].phase # "none"
       /\ task # "move" => Prepared(moving)
  /\ pc \in {"sync", "verify"} => linked \in File /\ entry[R.destination] = linked
  /\ pc = "unlink" => entry[R.source] # None /\ entry[R.source] = entry[R.destination]

\* There is nothing to move, and nobody moving, while a run executes.
Unmoved ==
  run = "executing" /\ ~overdue =>
    pc \in {"idle", "recover"} /\ \A i \in Owner : ~Prepared(i)

\* Only the last call can be undone by a power failure.
Durable ==
  ~lapsed => \A l \in Place :
    \/ entry[l] = synced[l]
    \/ pc = "sync" /\ l = R.destination /\ synced[l] = None
    \/ pc = "syncUnlink" /\ l = R.source /\ entry[l] = None

\* The first plan is in these places and nothing else is anywhere.
Only(places) == [l \in Place |-> IF l \in places THEN 1 ELSE None]

\* Where plan and identity are while move r is prepared: not begun, linked,
\* synced, unlinked, and without a source.
Underway(r) ==
  \/ /\ pc \in {"idle", "recover", "examine", "link"} /\ owner[1] = r.source
     /\ entry = Only({r.source}) /\ synced = entry
  \/ /\ pc = "sync" /\ owner[1] = r.source
     /\ entry = Only({r.source, r.destination}) /\ synced = Only({r.source})
  \/ /\ pc \in {"idle", "recover", "examine", "verify", "check", "unlink"}
     /\ owner[1] = r.source /\ entry = Only({r.source, r.destination}) /\ synced = entry
  \/ /\ pc = "syncUnlink" /\ owner[1] = r.source
     /\ entry = Only({r.destination}) /\ synced = Only({r.source, r.destination})
  \/ /\ pc \in {"idle", "recover", "examine", "own", "record"}
     /\ owner[1] \in {r.source, r.destination}
     /\ pc = "record" => owner[1] = r.destination
     /\ entry = Only({r.destination}) /\ synced = entry

\* ... and once it is done.
Over(r) ==
  /\ pc \in {"idle", "recover", "examine", "own", "record"} /\ owner[1] = r.destination
  /\ entry = Only({r.destination}) /\ synced = entry

Located ==
  ~Disturbed =>
    /\ \A i \in Owner : i > owners => journal[i].phase = "none" /\ owner[i] = None
    /\ journal[1].phase = "none" =>
         entry = Only({Ready}) /\ synced = entry /\ (owners = 1 => owner[1] = Ready)
    /\ Prepared(1) => journal[1].file = 1 /\ Underway(journal[1])
    /\ journal[1].phase = "moved" => journal[1].file = 1 /\ Over(journal[1])

Inv == TypeOK /\ Wellformed /\ Held /\ Unmoved /\ Durable /\ Located

-----------------------------------------------------------------------------
(* Types *)

LEMMA Constants ==
  /\ None \notin Place /\ None \notin File /\ None \notin Owner /\ None \notin Contents
  /\ Ready \in Place /\ Corrections \subseteq Place /\ 1 \in File /\ 1 \in Owner
  /\ Owner \subseteq Nat /\ File \subseteq Nat /\ 0 \in 0..MaxOwners /\ 0 \in 0..MaxEdits
  /\ 0 \in 0..MaxDeaths
BY LifecycleAssumption DEF Place, File, Owner

LEMMA OwnerAtType ==
  ASSUME NEW l, OwnerAt(l) # None
  PROVE  OwnerAt(l) \in Owner /\ owner[OwnerAt(l)] = l
<1>1. OwnerAt(l) = CHOOSE i \in Owner : owner[i] = l
  BY DEF OwnerAt
<1>2. \E i \in Owner : owner[i] = l
  <2>1. OwnersAt(l) = {} => Cardinality(OwnersAt(l)) = 0
    BY FS_EmptySet
  <2>2. Cardinality(OwnersAt(l)) = 1
    BY DEF OwnerAt
  <2> QED
    BY <2>1, <2>2 DEF OwnersAt
<1> QED
  BY <1>1, <1>2

LEMMA Recorded ==
  ASSUME TypeOK, NEW i \in Owner, journal[i].phase # "none"
  PROVE  /\ journal[i] \in Record /\ journal[i].phase \in {"prepared", "moved"}
         /\ journal[i].source \in Place /\ journal[i].destination \in Place
         /\ journal[i].file \in File /\ journal[i].revision \in Contents
<1>1. journal[i] \in Record \cup {NoRecord}
  BY DEF TypeOK
<1>2. journal[i] \in Record
  BY <1>1 DEF NoRecord
<1> QED
  BY <1>2 DEF Record

\* What the handlers of a move may do to it.
LEMMA Current ==
  ASSUME TypeOK, Held, pc \notin {"idle", "recover"}
  PROVE  /\ moving \in Owner /\ R \in Record
         /\ R.source \in Place /\ R.destination \in Place /\ R.phase # "none"
BY Recorded DEF Held, R

LEMMA InitType == Init => TypeOK
<1> SUFFICES ASSUME Init PROVE TypeOK
  OBVIOUS
<1>1. entry \in [Place -> File \cup {None}] /\ synced \in [Place -> File \cup {None}]
  BY Constants DEF Init
<1>2. bytes \in [File -> Contents \cup {None}] /\ journal \in [Owner -> Record \cup {NoRecord}]
  BY DEF Init
<1>3. owners \in 0..MaxOwners /\ owner \in [Owner -> Place \cup {None}]
  BY Constants, LifecycleAssumption DEF Init
<1> QED
  BY <1>1, <1>2, <1>3, Constants DEF Init, TypeOK

Stop == {"idle", "recover", "examine", "link", "sync", "verify", "check", "unlink",
         "syncUnlink", "own", "record"}

\* The names, the holder and the journal keep their types in the steps of a move.
LEMMA CompleteType == TypeOK /\ Held /\ Complete => TypeOK'
<1> SUFFICES ASSUME TypeOK, Held, Complete PROVE TypeOK'
  OBVIOUS
<1>1. pc \notin {"idle", "recover"}
  BY DEF Complete, Examine, Link, Sync, Verify, Check, Unlink, SyncUnlink, Own, Done
<1>2. /\ moving \in Owner /\ R \in Record /\ R.source \in Place /\ R.destination \in Place
      /\ R.phase # "none"
  BY <1>1, Current
<1>3. CASE Examine
  BY <1>3 DEF Examine, TypeOK, Goto, Leave, plan, names, identities, processes, counts
<1>4. CASE Link
  BY <1>2, <1>4 DEF Link, TypeOK, Leave, identities, processes, counts
<1>5. CASE Sync
  BY <1>2, <1>5 DEF Sync, TypeOK, Goto, identities, processes, counts
<1>6. CASE Verify
  BY <1>2, <1>6 DEF Verify, TypeOK, Goto, Leave, names, identities, processes, counts
<1>7. CASE Check
  BY <1>7 DEF Check, TypeOK, Goto, Leave, plan, names, identities, processes, counts
<1>8. CASE Unlink
  BY <1>2, <1>8 DEF Unlink, TypeOK, Goto, identities, processes, counts
<1>9. CASE SyncUnlink
  BY <1>2, <1>9 DEF SyncUnlink, TypeOK, Goto, identities, processes, counts
<1>10. CASE Own
  <2>1. owner' \in [Owner -> Place \cup {None}]
    BY <1>2, <1>10 DEF Own, TypeOK
  <2> QED
    BY <2>1, <1>10 DEF Own, TypeOK, Goto, Leave, names, processes, counts
<1>11. CASE Done
  <2>1. journal' \in [Owner -> Record \cup {NoRecord}]
    <3>1. [R EXCEPT !.phase = "moved"] \in Record
      BY <1>2 DEF Record
    <3>2. journal' = [journal EXCEPT ![moving] = [R EXCEPT !.phase = "moved"]]
      BY <1>11 DEF Done, R
    <3> QED
      BY <1>2, <3>1, <3>2 DEF TypeOK
  <2> QED
    BY <2>1, <1>11 DEF Done, TypeOK, Leave, names, identities, processes, counts
<1> QED
  BY <1>3, <1>4, <1>5, <1>6, <1>7, <1>8, <1>9, <1>10, <1>11 DEF Complete

\* What the plan service and the controller of a failed run ask for.
Asked ==
  \E source, destination \in Place, c \in Contents :
    /\ source # destination
    /\ \/ Identify(source, destination, c)
       \/ /\ Move(source, destination, c) /\ UNCHANGED <<counts, overdue>>
          /\ run' \in {run, "none"} /\ looked' \in BOOLEAN

LEMMA Requests == TypeOK /\ (Classify \/ ClassifyFailed \/ Requeue) => Asked
<1> SUFFICES ASSUME TypeOK, Classify \/ ClassifyFailed \/ Requeue PROVE Asked
  OBVIOUS
<1>1. \A l \in Corrections : l # Ready /\ l \in Place /\ Ready \in Place
  BY Constants, LifecycleAssumption
<1>2. looked \in BOOLEAN
  BY DEF TypeOK
<1>3. CASE Classify
  BY <1>1, <1>2, <1>3 DEF Classify, Asked
<1>4. CASE ClassifyFailed
  BY <1>1, <1>2, <1>4 DEF ClassifyFailed, Asked
<1>5. CASE Requeue
  <2>1. PICK source \in Corrections, c \in Contents : Prepare(source, Ready, c)
    BY <1>5 DEF Requeue
  <2>2. Move(source, Ready, c) /\ UNCHANGED <<counts, overdue>> /\ run' = run /\ looked' = FALSE
    BY <1>5, <2>1 DEF Requeue, Move
  <2> QED
    BY <1>1, <2>1, <2>2 DEF Asked
<1> QED
  BY <1>3, <1>4, <1>5

LEMMA PrepareType ==
  ASSUME TypeOK, NEW source \in Place, NEW destination \in Place, NEW c \in Contents,
         Prepare(source, destination, c)
  PROVE  /\ journal' \in [Owner -> Record \cup {NoRecord}] /\ OwnerAt(source) \in Owner
         /\ owner[OwnerAt(source)] = source /\ entry[source] \in File
         /\ Intent(source, destination, c) \in Record
<1>1. OwnerAt(source) \in Owner /\ owner[OwnerAt(source)] = source
  BY OwnerAtType DEF Prepare
<1>2. entry[source] \in File
  BY DEF Prepare, Movable, TypeOK
<1>3. Intent(source, destination, c) \in Record
  BY <1>2 DEF Intent, Record
<1> HIDE DEF Intent
<1>4. \/ journal' = journal
      \/ journal' = [journal EXCEPT ![OwnerAt(source)] = Intent(source, destination, c)]
  BY DEF Prepare
<1>5. journal' \in [Owner -> Record \cup {NoRecord}]
  <2>1. CASE journal' = journal
    BY <2>1 DEF TypeOK
  <2>2. CASE journal' = [journal EXCEPT ![OwnerAt(source)] = Intent(source, destination, c)]
    BY <1>1, <1>3, <2>2 DEF TypeOK
  <2> QED
    BY <1>4, <2>1, <2>2
<1> QED
  BY <1>1, <1>2, <1>3, <1>5

LEMMA AskedType == TypeOK /\ Asked => TypeOK'
<1> SUFFICES ASSUME TypeOK, NEW source \in Place, NEW destination \in Place, NEW c \in Contents,
                    \/ Identify(source, destination, c)
                    \/ /\ Move(source, destination, c) /\ UNCHANGED <<counts, overdue>>
                       /\ run' \in {run, "none"} /\ looked' \in BOOLEAN
             PROVE  TypeOK'
  BY DEF Asked
<1>1. CASE Identify(source, destination, c)
  <2>1. owners' \in 0..MaxOwners
    BY <1>1, LifecycleAssumption DEF Identify, TypeOK
  <2>2. owner' \in [Owner -> Place \cup {None}]
    BY <1>1 DEF Identify, TypeOK
  <2> QED
    BY <1>1, <2>1, <2>2 DEF Identify, TypeOK, names, holder, processes, counts
<1>2. ASSUME Move(source, destination, c), UNCHANGED <<counts, overdue>>,
             run' \in {run, "none"}, looked' \in BOOLEAN
      PROVE  TypeOK'
  <2>1. /\ journal' \in [Owner -> Record \cup {NoRecord}]
        /\ UNCHANGED <<names, bytes, files, identities>>
    <3>1. CASE Prepare(source, destination, c)
      BY <3>1, PrepareType DEF Prepare
    <3>2. CASE Replay(source, destination, c)
      BY <3>2 DEF Replay, plan, TypeOK
    <3> QED
      BY <1>2, <3>1, <3>2 DEF Move
  <2>2. pc' = "examine" /\ task' = "move" /\ linked' = None /\ moving' \in Owner
    <3>1. CASE Prepare(source, destination, c)
      BY <3>1, PrepareType DEF Prepare, Take
    <3>2. CASE Replay(source, destination, c)
      BY <3>2 DEF Replay, Take
    <3> QED
      BY <1>2, <3>1, <3>2 DEF Move
  <2> QED
    BY <1>2, <2>1, <2>2 DEF TypeOK, names, identities, counts
<1> QED
  BY <1>1, <1>2

LEMMA MeddleType ==
  ASSUME TypeOK, Outsider \/ Promote
  PROVE  TypeOK' /\ edits' = edits + 1
<1>1. edits \in Nat /\ edits' = edits + 1 /\ edits' \in 0..MaxEdits
      /\ UNCHANGED <<journal, holder, processes, deaths, lapsed, overdue>>
  BY LifecycleAssumption DEF Outsider, Promote, Meddle, TypeOK
<1>2. ASSUME NEW l \in Place, NEW c \in Contents, NewFile(l, c)
      PROVE  /\ entry' \in [Place -> File \cup {None}] /\ synced' \in [Place -> File \cup {None}]
             /\ bytes' \in [File -> Contents \cup {None}] /\ files' \in File
  <2>1. files + 1 \in File
    BY <1>2, LifecycleAssumption DEF NewFile, File, TypeOK
  <2> QED
    BY <1>2, <2>1 DEF NewFile, Rename, TypeOK
<1>3. CASE Outsider
  <2>1. PICK l \in Place :
          \/ /\ entry[l] # None
             /\ \E c \in Contents : bytes' = [bytes EXCEPT ![entry[l]] = c]
             /\ UNCHANGED <<names, files, identities>>
          \/ (\E c \in Contents : NewFile(l, c)) /\ UNCHANGED identities
          \/ entry[l] # None /\ Rename(l, None) /\ UNCHANGED <<bytes, files, identities>>
    BY <1>3 DEF Outsider
  <2>2. CASE (\E c \in Contents : NewFile(l, c)) /\ UNCHANGED identities
    BY <1>1, <1>2, <2>2 DEF TypeOK, holder, processes, identities
  <2>3. CASE entry[l] # None /\ Rename(l, None) /\ UNCHANGED <<bytes, files, identities>>
    BY <1>1, <2>3 DEF Rename, TypeOK, holder, processes, identities
  <2>4. CASE /\ entry[l] # None
             /\ \E c \in Contents : bytes' = [bytes EXCEPT ![entry[l]] = c]
             /\ UNCHANGED <<names, files, identities>>
    BY <1>1, <2>4 DEF TypeOK, holder, processes, identities, names
  <2> QED
    BY <2>1, <2>2, <2>3, <2>4
<1>4. CASE Promote
  <2>1. owners' \in 0..MaxOwners /\ owner' \in [Owner -> Place \cup {None}]
    <3>1. owners \in Nat /\ owners < MaxOwners /\ owners' = owners + 1
          /\ owner' = [owner EXCEPT ![owners + 1] = Ready]
      BY <1>4, LifecycleAssumption DEF Promote, TypeOK
    <3>2. owners + 1 \in 0..MaxOwners
      BY <3>1, LifecycleAssumption
    <3> QED
      BY <3>1, <3>2, Constants DEF TypeOK
  <2>2. PICK c \in Contents : NewFile(Ready, c)
    BY <1>4 DEF Promote
  <2> QED
    BY <1>1, <1>2, <2>1, <2>2, Constants DEF TypeOK, holder, processes
<1> QED
  BY <1>1, <1>3, <1>4

LEMMA NextType == TypeOK /\ Held /\ [Next]_vars => TypeOK'
<1> SUFFICES ASSUME TypeOK, Held, [Next]_vars PROVE TypeOK'
  OBVIOUS
<1> USE DEF TypeOK
<1>1. CASE Complete
  BY <1>1, CompleteType
<1>2. CASE BeginRecover
  BY <1>2 DEF BeginRecover, Take, plan, names, identities, counts
<1>3. CASE BeginStart
  BY <1>3 DEF BeginStart, Take, plan, names, identities, processes, counts
<1>4. ASSUME NEW i \in Owner, RecoverNext(i)
      PROVE  TypeOK'
  BY <1>4 DEF RecoverNext, plan, names, identities, processes, counts
<1>5. CASE EndRecover
  BY <1>5 DEF EndRecover, Leave, plan, names, identities, counts
<1>6. CASE Classify \/ ClassifyFailed \/ Requeue
  BY <1>6, Requests, AskedType
<1>7. CASE Claim
  BY <1>7 DEF Claim, plan, names, identities, holder, counts
<1>8. CASE EndRun
  BY <1>8 DEF EndRun, plan, names, identities, holder, counts
<1>9. CASE RunDies
  <2>1. deaths' \in 0..MaxDeaths
    BY <1>9, LifecycleAssumption DEF RunDies
  <2> QED
    BY <1>9, <2>1 DEF RunDies, Orphaned, plan, names, identities, holder
<1>10. CASE Crash
  <2>1. deaths' \in 0..MaxDeaths
    BY <1>10, LifecycleAssumption DEF Crash
  <2> QED
    BY <1>10, <2>1 DEF Crash, Leave, plan, names, identities, processes
<1>11. CASE PowerFailure
  <2>1. deaths' \in 0..MaxDeaths
    BY <1>11, LifecycleAssumption DEF PowerFailure
  <2>2. entry' \in [Place -> File \cup {None}] /\ synced' = entry'
    BY <1>11 DEF PowerFailure
  <2> QED
    BY <1>11, <2>1, <2>2 DEF PowerFailure, Orphaned, Leave, identities
<1>12. CASE Outsider \/ Promote
  BY <1>12, MeddleType
<1>13. CASE UNCHANGED vars
  BY <1>13 DEF vars, plan, names, identities, holder, processes, counts
<1> QED
  BY <1>1, <1>2, <1>3, <1>4, <1>5, <1>6, <1>7, <1>8, <1>9, <1>10, <1>11, <1>12, <1>13
  DEF Next, Recover

-----------------------------------------------------------------------------
(* The lock and the journal *)

Core == Wellformed /\ Held /\ Unmoved /\ Durable

LEMMA InitCore == Init => Core
<1> SUFFICES ASSUME Init PROVE Core
  OBVIOUS
<1>1. \A i \in Owner : journal[i].phase = "none"
  BY DEF Init, NoRecord
<1> QED
  BY <1>1 DEF Init, Core, Wellformed, Held, Unmoved, Durable

\* The steps that touch no plan: a recovery begins, goes on or ends, and a run
\* is admitted, starts, ends or dies.
Elsewhere ==
  \/ BeginRecover \/ BeginStart \/ (\E i \in Owner : RecoverNext(i)) \/ EndRecover
  \/ Claim \/ EndRun \/ RunDies \/ UNCHANGED vars

LEMMA ElsewherePlan == Elsewhere => UNCHANGED <<plan, edits, lapsed>>
BY DEF Elsewhere, BeginRecover, BeginStart, RecoverNext, EndRecover, Claim, EndRun, RunDies,
       vars, counts, processes

LEMMA ElsewhereHolder ==
  ASSUME TypeOK, Held, Elsewhere
  PROVE  \/ UNCHANGED holder
         \/ pc \in {"idle", "recover"} /\ pc' = "recover" /\ task' # "none"
         \/ pc \in {"idle", "recover"} /\ pc' = "idle" /\ task' = "none"
         \/ /\ pc = "recover" /\ pc' = "examine" /\ task' = task
            /\ moving' \in Owner /\ Prepared(moving')
BY DEF Elsewhere, BeginRecover, BeginStart, RecoverNext, EndRecover, Claim, EndRun, RunDies,
       vars, holder, Take, Leave

LEMMA ElsewhereCore == TypeOK /\ Core /\ Elsewhere => Core'
<1> SUFFICES ASSUME TypeOK, Core, Elsewhere PROVE Core'
  OBVIOUS
<1>1. UNCHANGED <<entry, synced, journal, lapsed>>
  BY ElsewherePlan DEF plan, names
<1>2. \/ UNCHANGED <<pc, task, moving, linked>>
      \/ pc \in {"idle", "recover"} /\ pc' = "recover" /\ task' # "none"
      \/ pc \in {"idle", "recover"} /\ pc' = "idle" /\ task' = "none"
      \/ pc = "recover" /\ pc' = "examine" /\ task' = task /\ moving' \in Owner /\ Prepared(moving')
  BY ElsewhereHolder DEF Core, holder
<1>3. Wellformed'
  BY <1>1 DEF Core, Wellformed
<1>4. Held'
  BY <1>1, <1>2 DEF Core, Held, Prepared, R
<1>5. Durable'
  BY <1>1, <1>2 DEF Core, Durable, R
<1>6. Unmoved'
  <2>1. CASE Claim
    BY <1>1, <2>1 DEF Core, Unmoved, Held, Claim, Guarded, Prepared, holder
  <2>2. CASE EndRecover
    BY <1>1, <2>2 DEF Core, Unmoved, EndRecover, Prepared, Leave
  <2>3. ASSUME NEW i \in Owner, RecoverNext(i) PROVE Unmoved'
    BY <1>1, <2>3 DEF Core, Unmoved, RecoverNext, Prepared, processes
  <2>4. CASE BeginRecover \/ BeginStart \/ EndRun \/ RunDies \/ UNCHANGED vars
    BY <1>1, <2>4 DEF Core, Unmoved, BeginRecover, BeginStart, EndRun, RunDies, Orphaned, vars,
      Prepared, Take, processes, holder
  <2> QED
    BY <2>1, <2>2, <2>3, <2>4 DEF Elsewhere
<1> QED
  BY <1>3, <1>4, <1>5, <1>6 DEF Core

LEMMA AskedCore == TypeOK /\ Core /\ Asked => Core'
<1> SUFFICES ASSUME TypeOK, Core, NEW source \in Place, NEW destination \in Place,
                    NEW c \in Contents, source # destination,
                    \/ Identify(source, destination, c)
                    \/ /\ Move(source, destination, c) /\ UNCHANGED <<counts, overdue>>
                       /\ run' \in {run, "none"} /\ looked' \in BOOLEAN
             PROVE  Core'
  BY DEF Asked
<1>1. CASE Identify(source, destination, c)
  BY <1>1 DEF Identify, names, holder, processes, counts, Core, Wellformed, Held, Unmoved,
    Durable, Prepared, R
<1>2. ASSUME Move(source, destination, c), UNCHANGED <<counts, overdue>>,
             run' \in {run, "none"}, looked' \in BOOLEAN
      PROVE  Core'
  <2>1. /\ pc = "idle" /\ pc' = "examine" /\ task' = "move" /\ UNCHANGED names
        /\ Unclaimed
    BY <1>2 DEF Move, Prepare, Replay, Take, plan
  <2>2. /\ moving' \in Owner /\ journal'[moving'].phase # "none"
        /\ \A i \in Owner : journal'[i] = journal[i] \/ journal'[i].source # journal'[i].destination
    <3>1. CASE Prepare(source, destination, c)
      <4> DEFINE i == OwnerAt(source)
                 new == Intent(source, destination, c)
      <4>1. i \in Owner /\ new \in Record
        BY <3>1, PrepareType
      <4>2. new.source = source /\ new.destination = destination /\ new.phase = "prepared"
        BY DEF Intent
      <4>3. /\ moving' = i
            /\ journal' = IF Prepared(i) THEN journal ELSE [journal EXCEPT ![i] = new]
        BY <3>1 DEF Prepare, Take
      <4> HIDE DEF i, new
      <4> QED
        BY <4>1, <4>2, <4>3 DEF TypeOK, Prepared
    <3>2. CASE Replay(source, destination, c)
      BY <3>2 DEF Replay, Take, plan
    <3> QED
      BY <1>2, <3>1, <3>2 DEF Move
  <2>3. Wellformed'
    BY <2>2 DEF Core, Wellformed
  <2>4. Held'
    BY <2>1, <2>2 DEF Held
  <2>5. Unmoved'
    BY <1>2, <2>1 DEF Unmoved, Unclaimed
  <2>6. Durable'
    BY <1>2, <2>1 DEF Core, Durable, names, counts
  <2> QED
    BY <2>3, <2>4, <2>5, <2>6 DEF Core
<1> QED
  BY <1>1, <1>2

\* A step of a move has its places, and moves only what is to be moved.
LEMMA MoveCore ==
  ASSUME TypeOK, Core, Complete
  PROVE  /\ pc \notin {"idle", "recover"} /\ ~(run = "executing" /\ ~overdue)
         /\ moving \in Owner /\ R.source \in Place /\ R.destination \in Place
         /\ R.source # R.destination /\ R.phase \in {"prepared", "moved"}
<1>1. pc \notin {"idle", "recover"}
  BY DEF Complete, Examine, Link, Sync, Verify, Check, Unlink, SyncUnlink, Own, Done
<1>2. moving \in Owner /\ R.phase # "none" /\ R.source # R.destination
  BY <1>1 DEF Core, Held, Wellformed, R
<1> QED
  BY <1>1, <1>2, Recorded DEF Core, Unmoved, R

LEMMA CompleteRest ==
  ASSUME Complete
  PROVE  /\ UNCHANGED <<processes, counts, overdue>>
         /\ \/ pc' = "idle" /\ task' = "none"
            \/ pc' = "recover" /\ task' # "none"
            \/ pc' \notin {"idle", "recover"} /\ UNCHANGED <<task, moving, journal>>
BY DEF Complete, Examine, Link, Sync, Verify, Check, Unlink, SyncUnlink, Own, Done, Goto, Leave,
       plan, names, identities

LEMMA CompleteCore == TypeOK /\ Core /\ Complete => Core'
<1> SUFFICES ASSUME TypeOK, Core, Complete PROVE Core'
  OBVIOUS
<1>1. /\ pc \notin {"idle", "recover"} /\ ~(run = "executing" /\ ~overdue)
      /\ moving \in Owner /\ R.source \in Place /\ R.destination \in Place
      /\ R.source # R.destination /\ R.phase \in {"prepared", "moved"}
  BY MoveCore
<1>2. /\ UNCHANGED <<run, overdue, lapsed>>
      /\ \/ pc' = "idle" /\ task' = "none"
         \/ pc' = "recover" /\ task' # "none"
         \/ pc' \notin {"idle", "recover"} /\ UNCHANGED <<task, moving, journal>>
  BY CompleteRest DEF processes, counts
<1>3. Unmoved'
  BY <1>1, <1>2 DEF Unmoved
<1>4. Wellformed'
  <2>1. CASE Done
    <3>1. journal' = [journal EXCEPT ![moving] = [R EXCEPT !.phase = "moved"]]
      BY <2>1 DEF Done, R
    <3>2. [R EXCEPT !.phase = "moved"].source # [R EXCEPT !.phase = "moved"].destination
      <4>1. R \in Record
        BY <1>1, Current DEF Core
      <4> QED
        BY <1>1, <4>1 DEF Record
    <3> HIDE DEF R
    <3> QED
      BY <1>1, <3>1, <3>2 DEF Core, Wellformed, TypeOK
  <2>2. CASE ~Done
    <3>1. journal' = journal
      BY <2>2 DEF Complete, Examine, Link, Sync, Verify, Check, Unlink, SyncUnlink, Own, plan
    <3> QED
      BY <3>1 DEF Core, Wellformed
  <2> QED
    BY <2>1, <2>2
<1>5. Held'
  <2>1. (pc = "idle" <=> task = "none")'
    BY <1>1, <1>2 DEF Core, Held
  <2>2. (pc \notin {"idle", "recover"} =>
           /\ moving \in Owner /\ journal[moving].phase # "none"
           /\ task # "move" => Prepared(moving))'
    BY <1>1, <1>2 DEF Core, Held, Prepared, R
  <2>3. (pc \in {"sync", "verify"} => linked \in File /\ entry[R.destination] = linked)'
    <3> SUFFICES ASSUME pc' \in {"sync", "verify"}
                 PROVE  linked' \in File /\ entry'[R'.destination] = linked'
      OBVIOUS
    <3>1. R' = R
      BY <1>2 DEF R
    <3>2. Link \/ Sync
      BY DEF Complete, Examine, Link, Sync, Verify, Check, Unlink, SyncUnlink, Own, Done, Goto,
        Leave
    <3>3. CASE Link
      BY <1>1, <3>1, <3>3 DEF Link, Leave, TypeOK
    <3>4. CASE Sync
      BY <3>1, <3>4 DEF Sync, Goto, Core, Held
    <3> QED
      BY <3>2, <3>3, <3>4
  <2>4. (pc = "unlink" => entry[R.source] # None /\ entry[R.source] = entry[R.destination])'
    <3> SUFFICES ASSUME pc' = "unlink"
                 PROVE  entry'[R'.source] # None /\ entry'[R'.source] = entry'[R'.destination]
      OBVIOUS
    <3>1. R' = R
      BY <1>2 DEF R
    <3>2. Check
      BY DEF Complete, Examine, Link, Sync, Verify, Check, Unlink, SyncUnlink, Own, Done, Goto,
        Leave
    <3> QED
      BY <3>1, <3>2 DEF Check, Goto, Leave, plan, names
  <2> QED
    BY <2>1, <2>2, <2>3, <2>4 DEF Held
<1>6. Durable'
  <2> SUFFICES ASSUME ~lapsed PROVE Durable'
    BY <1>2 DEF Durable
  <2>0. R' = R \/ pc' \in {"idle", "recover"}
    BY <1>2 DEF R
  <2>1. CASE Link
    BY <1>1, <1>2, <2>0, <2>1 DEF Link, Leave, Core, Durable, TypeOK
  <2>2. CASE Sync
    BY <1>1, <1>2, <2>0, <2>2 DEF Sync, Goto, Core, Durable, TypeOK
  <2>3. CASE Verify
    BY <1>1, <1>2, <2>0, <2>3 DEF Verify, Goto, Leave, Core, Durable, TypeOK, names
  <2>4. CASE Unlink
    BY <1>1, <1>2, <2>0, <2>4 DEF Unlink, Goto, Core, Durable, TypeOK
  <2>5. CASE SyncUnlink
    BY <1>1, <1>2, <2>0, <2>5 DEF SyncUnlink, Goto, Core, Durable, TypeOK
  <2>6. CASE Examine \/ Check \/ Own \/ Done
    <3>1. UNCHANGED names /\ pc \notin {"sync", "syncUnlink"}
      BY <2>6 DEF Examine, Check, Own, Done, plan
    <3> QED
      BY <3>1 DEF names, Core, Durable
  <2> QED
    BY <2>1, <2>2, <2>3, <2>4, <2>5, <2>6 DEF Complete
<1> QED
  BY <1>3, <1>4, <1>5, <1>6 DEF Core

LEMMA CrashCore == TypeOK /\ Core /\ Crash => Core'
<1> SUFFICES ASSUME TypeOK, Core, Crash PROVE Core'
  OBVIOUS
<1>1. /\ UNCHANGED <<entry, synced, journal, run, overdue>> /\ pc' = "idle" /\ task' = "none"
      /\ ~lapsed' => ~lapsed /\ pc \notin {"sync", "syncUnlink"}
  BY DEF Crash, Leave, plan, names, processes
<1>2. Wellformed' /\ Held' /\ Unmoved'
  BY <1>1 DEF Core, Wellformed, Held, Unmoved, Prepared
<1>3. Durable'
  BY <1>1 DEF Core, Durable
<1> QED
  BY <1>2, <1>3 DEF Core

LEMMA PowerCore == TypeOK /\ Core /\ PowerFailure => Core'
<1> SUFFICES ASSUME TypeOK, Core, PowerFailure PROVE Core'
  OBVIOUS
<1>1. /\ synced' = entry' /\ journal' = journal /\ pc' = "idle" /\ task' = "none"
      /\ run' = Orphaned
  BY DEF PowerFailure, Leave
<1> QED
  BY <1>1 DEF Core, Wellformed, Held, Unmoved, Durable, Orphaned

LEMMA MeddleCore == TypeOK /\ Core /\ (Outsider \/ Promote) => Core'
<1> SUFFICES ASSUME TypeOK, Core, Outsider \/ Promote PROVE Core'
  OBVIOUS
<1>1. UNCHANGED <<journal, holder, processes, lapsed, overdue>> /\ R' = R
  BY DEF Outsider, Promote, Meddle, R, holder
<1>2. UNCHANGED names \/ \E l \in Place, f \in File \cup {None} : Rename(l, f)
  <2>1. ASSUME NEW l \in Place, NEW c \in Contents, NewFile(l, c)
        PROVE  \E f \in File \cup {None} : Rename(l, f)
    BY <2>1, LifecycleAssumption DEF NewFile, File, TypeOK
  <2> QED
    BY <2>1, Constants DEF Outsider, Promote
<1>3. Wellformed' /\ Unmoved'
  BY <1>1 DEF Core, Wellformed, Unmoved, Prepared, holder, processes
<1>4. CASE UNCHANGED names
  BY <1>1, <1>3, <1>4 DEF Core, Held, Durable, Prepared, names, holder
<1>5. ASSUME NEW l \in Place, NEW f \in File \cup {None}, Rename(l, f) PROVE Core'
  <2>1. Held'
    BY <1>1, <1>5 DEF Core, Held, Prepared, holder, Rename, Unguarded, TypeOK
  <2>2. Durable'
    BY <1>1, <1>5 DEF Core, Durable, holder, Rename, Unguarded, TypeOK
  <2> QED
    BY <1>3, <2>1, <2>2 DEF Core
<1> QED
  BY <1>2, <1>4, <1>5

LEMMA NextCore == TypeOK /\ Core /\ [Next]_vars => Core'
<1> SUFFICES ASSUME TypeOK, Core, [Next]_vars PROVE Core'
  OBVIOUS
<1>1. Elsewhere \/ Complete \/ Asked \/ Crash \/ PowerFailure \/ Outsider \/ Promote
  BY Requests DEF Next, Recover, Elsewhere
<1> QED
  BY <1>1, ElsewhereCore, CompleteCore, AskedCore, CrashCore, PowerCore, MeddleCore

-----------------------------------------------------------------------------
(* What no step does *)

LEMMA AskedNames == Asked => UNCHANGED names /\ UNCHANGED <<edits, lapsed>>
BY DEF Asked, Identify, Move, Prepare, Replay, plan, counts

LEMMA NextKeepsPlan ==
  TypeOK /\ Core /\ [Next]_vars /\ run = "executing" /\ run' = "executing" /\ edits' = edits
  /\ ~overdue => entry'[Ready] = entry[Ready]
<1> SUFFICES ASSUME TypeOK, Core, [Next]_vars, run = "executing", run' = "executing",
                    edits' = edits, ~overdue
             PROVE  entry'[Ready] = entry[Ready]
  OBVIOUS
<1>1. Elsewhere \/ Complete \/ Asked \/ Crash \/ PowerFailure \/ Outsider \/ Promote
  BY Requests DEF Next, Recover, Elsewhere
<1>2. ~Complete
  BY MoveCore
<1>3. ~PowerFailure
  BY DEF PowerFailure, Orphaned
<1>4. ~(Outsider \/ Promote)
  <2>1. edits \in Nat
    BY LifecycleAssumption DEF TypeOK
  <2> QED
    BY <2>1, MeddleType
<1> QED
  BY <1>1, <1>2, <1>3, <1>4, ElsewherePlan, AskedNames DEF Crash, plan, names

\* The file has a name that is on disk already.
Anchored(f) == \E l \in Place : entry[l] = f /\ synced[l] = f

LEMMA KeptAnchored ==
  ASSUME TypeOK, Core, ~lapsed, NEW f \in File, Kept(f)
  PROVE  Anchored(f)
<1>1. PICK l \in Place : entry[l] = f
  BY DEF Kept
<1>2. PICK m \in Place : synced[m] = f
  BY DEF Kept
<1>3. CASE synced[l] = f
  BY <1>1, <1>3 DEF Anchored
<1>4. CASE synced[l] # f
  <2>1. pc = "sync" /\ synced[l] = None /\ l = R.destination
    BY <1>1, <1>4, Constants DEF Core, Durable
  <2>2. entry[m] = f
    BY <1>2, <2>1, Constants DEF Core, Durable
  <2> QED
    BY <1>2, <2>2 DEF Anchored
<1> QED
  BY <1>3, <1>4

LEMMA CompleteKeeps ==
  ASSUME TypeOK, Core, Complete, ~lapsed, NEW f \in File, Anchored(f), ~Superseded(f)
  PROVE  Anchored(f)'
<1>1. PICK l \in Place : entry[l] = f /\ synced[l] = f
  BY DEF Anchored
<1>2. /\ moving \in Owner /\ R.source \in Place /\ R.destination \in Place
      /\ R.source # R.destination /\ f # None
  BY MoveCore, Constants
<1>3. CASE Examine \/ Check \/ Own \/ Done
  BY <1>1, <1>3 DEF Examine, Check, Own, Done, plan, names, Anchored
<1>4. CASE Link
  <2>1. entry'[l] = f /\ synced'[l] = f
    BY <1>1, <1>2, <1>4 DEF Link, TypeOK
  <2> QED
    BY <2>1 DEF Anchored
<1>5. CASE Sync
  <2>1. entry'[l] = f /\ synced'[l] = f
    BY <1>1, <1>2, <1>5 DEF Sync, TypeOK
  <2> QED
    BY <2>1 DEF Anchored
<1>6. CASE Verify
  <2>1. CASE UNCHANGED names
    BY <1>1, <2>1 DEF names, Anchored
  <2>2. CASE ~UNCHANGED names
    <3>1. /\ entry' = [entry EXCEPT ![R.destination] = None]
          /\ synced' = [synced EXCEPT ![R.destination] = None]
          /\ pc = "verify"
      BY <1>6, <2>2 DEF Verify
    <3>2. CASE l # R.destination
      BY <1>1, <3>1, <3>2 DEF Anchored, TypeOK
    <3>3. CASE l = R.destination
      <4>1. linked = f
        BY <1>1, <3>1, <3>3 DEF Core, Held
      <4>2. entry[R.source] = f
        BY <3>1, <4>1 DEF Superseded
      <4>3. synced[R.source] = f
        BY <1>2, <3>1, <4>2 DEF Core, Durable
      <4> QED
        BY <1>2, <3>1, <4>2, <4>3 DEF Anchored, TypeOK
    <3> QED
      BY <3>2, <3>3
  <2> QED
    BY <2>1, <2>2
<1>7. CASE Unlink
  <2>1. /\ entry' = [entry EXCEPT ![R.source] = None] /\ synced' = synced /\ pc = "unlink"
    BY <1>7 DEF Unlink
  <2>2. CASE l # R.source
    BY <1>1, <2>1, <2>2 DEF Anchored, TypeOK
  <2>3. CASE l = R.source
    <3>1. entry[R.destination] = f
      BY <1>1, <2>1, <2>3 DEF Core, Held
    <3>2. synced[R.destination] = f
      BY <1>2, <2>1, <3>1 DEF Core, Durable
    <3> QED
      BY <1>2, <2>1, <3>1, <3>2 DEF Anchored, TypeOK
  <2> QED
    BY <2>2, <2>3
<1>8. CASE SyncUnlink
  <2>1. entry'[l] = f /\ synced'[l] = f
    BY <1>1, <1>2, <1>8 DEF SyncUnlink, TypeOK
  <2> QED
    BY <2>1 DEF Anchored
<1> QED
  BY <1>3, <1>4, <1>5, <1>6, <1>7, <1>8 DEF Complete

LEMMA NextNothingLost ==
  ASSUME TypeOK, Core, [Next]_vars, edits' = edits, ~lapsed,
         NEW f \in File, Kept(f), ~Superseded(f)
  PROVE  Kept(f)'
<1>1. Elsewhere \/ Complete \/ Asked \/ Crash \/ PowerFailure \/ Outsider \/ Promote
  BY Requests DEF Next, Recover, Elsewhere
<1>2. Anchored(f)
  BY KeptAnchored
<1>3. ~(Outsider \/ Promote)
  <2>1. edits \in Nat
    BY LifecycleAssumption DEF TypeOK
  <2> QED
    BY <2>1, MeddleType
<1>4. Anchored(f)'
  <2>1. CASE PowerFailure
    <3>1. /\ synced' = entry'
          /\ \A l \in Place : entry'[l] \in {entry[l], synced[l]}
      BY <2>1 DEF PowerFailure
    <3> QED
      BY <1>2, <3>1 DEF Anchored
  <2>2. CASE Elsewhere \/ Asked \/ Crash
    <3>1. UNCHANGED names
      BY <2>2, ElsewherePlan, AskedNames DEF Crash, plan
    <3> QED
      BY <1>2, <3>1 DEF names, Anchored
  <2> QED
    BY <1>1, <1>2, <1>3, <2>1, <2>2, CompleteKeeps
<1> QED
  BY <1>4 DEF Anchored, Kept

-----------------------------------------------------------------------------
(* Where the plan is *)

LEMMA OnlyAt ==
  ASSUME NEW places, NEW l \in Place
  PROVE  /\ Only(places)[l] = IF l \in places THEN 1 ELSE None
         /\ [Only(places) EXCEPT ![l] = 1] = Only(places \cup {l})
         /\ [Only(places) EXCEPT ![l] = None] = Only(places \ {l})
BY DEF Only

LEMMA OnlyTwo ==
  ASSUME NEW s \in Place, NEW d \in Place, s # d
  PROVE  /\ [Only({s}) EXCEPT ![d] = 1] = Only({s, d})
         /\ [Only({s, d}) EXCEPT ![d] = None] = Only({s})
         /\ [Only({s, d}) EXCEPT ![s] = None] = Only({d})
         /\ Only({s})[s] = 1 /\ Only({s})[d] = None
         /\ Only({d})[s] = None /\ Only({d})[d] = 1
         /\ Only({s, d})[s] = 1 /\ Only({s, d})[d] = 1
<1>1. {s} \cup {d} = {s, d} /\ {s, d} \ {d} = {s} /\ {s, d} \ {s} = {d}
  OBVIOUS
<1>2. [Only({s}) EXCEPT ![d] = 1] = Only({s} \cup {d})
  BY OnlyAt
<1>3. [Only({s, d}) EXCEPT ![d] = None] = Only({s, d} \ {d})
  BY OnlyAt
<1>4. [Only({s, d}) EXCEPT ![s] = None] = Only({s, d} \ {s})
  BY OnlyAt
<1>5. Only({s})[s] = 1 /\ Only({s})[d] = None
  BY OnlyAt
<1>6. Only({d})[s] = None /\ Only({d})[d] = 1
  BY OnlyAt
<1>7. Only({s, d})[s] = 1 /\ Only({s, d})[d] = 1
  BY OnlyAt
<1> QED
  BY <1>1, <1>2, <1>3, <1>4, <1>5, <1>6, <1>7

LEMMA OnlyOne ==
  ASSUME NEW places, NEW l \in Place, Only(places)[l] # None
  PROVE  l \in places
BY OnlyAt

\* A power failure leaves one place more or not.
LEMMA OnlyBetween ==
  ASSUME NEW places, NEW x, NEW e \in [Place -> File \cup {None}],
         \A l \in Place : e[l] \in {Only(places)[l], Only(places \cup {x})[l]}
  PROVE  e = Only(places) \/ e = Only(places \cup {x})
<1>1. ASSUME NEW l \in Place, l # x PROVE e[l] = Only(places)[l] /\ e[l] = Only(places \cup {x})[l]
  <2>1. Only(places)[l] = IF l \in places THEN 1 ELSE None
    BY OnlyAt
  <2>2. Only(places \cup {x})[l] = IF l \in places \cup {x} THEN 1 ELSE None
    BY OnlyAt
  <2> QED
    BY <1>1, <2>1, <2>2
<1>2. Only(places) = [l \in Place |-> Only(places)[l]]
      /\ Only(places \cup {x}) = [l \in Place |-> Only(places \cup {x})[l]]
  BY DEF Only
<1>3. e = [l \in Place |-> e[l]]
  OBVIOUS
<1>4. CASE x \notin Place \/ e[x] = Only(places)[x]
  <2>1. \A l \in Place : e[l] = Only(places)[l]
    BY <1>1, <1>4
  <2> QED
    BY <1>2, <1>3, <2>1
<1>5. CASE x \in Place /\ e[x] = Only(places \cup {x})[x]
  <2>1. \A l \in Place : e[l] = Only(places \cup {x})[l]
    BY <1>1, <1>5
  <2> QED
    BY <1>2, <1>3, <2>1
<1> QED
  BY <1>4, <1>5

\* Nothing that disturbs is ever undone.
LEMMA DisturbedStays ==
  ASSUME TypeOK, Held, [Next]_vars, ~Disturbed'
  PROVE  ~Disturbed
<1>1. /\ edits \in Nat /\ owners \in Nat /\ edits' \in Nat /\ owners' \in Nat
      /\ lapsed \in BOOLEAN /\ lapsed' \in BOOLEAN
  BY NextType, LifecycleAssumption DEF TypeOK
<1>2. Elsewhere \/ Complete \/ Asked \/ Crash \/ PowerFailure \/ Outsider \/ Promote
  BY Requests DEF Next, Recover, Elsewhere
<1>3. ~(Outsider \/ Promote)
  BY <1>1, MeddleType DEF Disturbed
<1>4. /\ edits' = edits /\ (lapsed => lapsed')
      /\ owners' = owners \/ owners' = owners + 1
  <2>1. CASE Elsewhere
    BY <2>1, ElsewherePlan DEF plan, identities
  <2>2. CASE Complete
    BY <2>2, CompleteRest DEF counts, Complete, Examine, Link, Sync, Verify, Check, Unlink,
      SyncUnlink, Own, Done, plan, identities
  <2>3. CASE Asked
    BY <2>3 DEF Asked, Identify, Move, Prepare, Replay, plan, identities, counts
  <2>4. CASE Crash \/ PowerFailure
    BY <1>1, <2>4 DEF Crash, PowerFailure, plan, identities
  <2> QED
    BY <1>2, <1>3, <2>1, <2>2, <2>3, <2>4
<1> QED
  BY <1>1, <1>4 DEF Disturbed

\* There is one identity at most, and it is the one that moves.
LEMMA Alone ==
  ASSUME TypeOK, Located, ~Disturbed
  PROVE  /\ owners \in {0, 1}
         /\ \A i \in Owner : journal[i].phase # "none" \/ owner[i] # None => i = 1 /\ owners = 1
<1>1. owners \in Nat /\ owners <= 1
  BY LifecycleAssumption DEF TypeOK, Disturbed
<1>2. \A i \in Owner : i \in Nat /\ i >= 1
  BY DEF Owner
<1> QED
  BY <1>1, <1>2 DEF Located

LEMMA InitLocated == Init => Located
<1> SUFFICES ASSUME Init PROVE Located
  OBVIOUS
<1>1. \A i \in Owner : journal[i].phase = "none"
  BY DEF Init, NoRecord
<1>2. entry = Only({Ready}) /\ synced = entry
  BY DEF Init, Only
<1>3. \A i \in Owner : owner[i] = IF i <= owners THEN Ready ELSE None
  BY DEF Init
<1>4. owners \in {0, 1} /\ \A i \in Owner : i \in Nat
  BY DEF Init, Owner
<1>5. \A i \in Owner : i > owners => journal[i].phase = "none" /\ owner[i] = None
  BY <1>1, <1>3, <1>4
<1>6. journal[1].phase = "none" /\ (owners = 1 => owner[1] = Ready)
  BY <1>1, <1>3, Constants
<1> QED
  BY <1>2, <1>5, <1>6 DEF Located, Prepared

\* Everything stays where it is.
LEMMA StillLocated ==
  ASSUME Located, UNCHANGED <<names, journal, identities>>, Disturbed' = Disturbed,
         pc' = pc \/ (pc \in {"idle", "recover"} /\ pc' \in {"idle", "recover", "examine"})
  PROVE  Located'
<1> SUFFICES ASSUME ~Disturbed PROVE Located'
  BY DEF Located
<1>1. UNCHANGED <<entry, synced, journal, owner, owners>>
  BY DEF names, identities
<1>2. ASSUME NEW r, Over(r) PROVE Over(r)'
  BY <1>1, <1>2 DEF Over
<1>3. ASSUME NEW r, Underway(r) PROVE Underway(r)'
  BY <1>1, <1>3 DEF Underway
<1> QED
  BY <1>1, <1>2, <1>3 DEF Located, Prepared

LEMMA ElsewhereLocated == TypeOK /\ Held /\ Located /\ Elsewhere => Located'
<1> SUFFICES ASSUME TypeOK, Held, Located, Elsewhere PROVE Located'
  OBVIOUS
<1>1. UNCHANGED <<names, journal, identities>> /\ Disturbed' = Disturbed
  BY ElsewherePlan DEF plan, identities, Disturbed
<1>2. pc' = pc \/ (pc \in {"idle", "recover"} /\ pc' \in {"idle", "recover", "examine"})
  BY ElsewhereHolder DEF holder
<1> QED
  BY <1>1, <1>2, StillLocated

LEMMA AskedLocated == TypeOK /\ Core /\ Located /\ Asked /\ ~Disturbed /\ ~Disturbed' => Located'
<1> SUFFICES ASSUME TypeOK, Core, Located, ~Disturbed, ~Disturbed',
                    NEW source \in Place, NEW destination \in Place,
                    NEW c \in Contents, source # destination,
                    \/ Identify(source, destination, c)
                    \/ /\ Move(source, destination, c) /\ UNCHANGED <<counts, overdue>>
                       /\ run' \in {run, "none"} /\ looked' \in BOOLEAN
             PROVE  Located'
  BY DEF Asked
<1>1. /\ owners \in {0, 1}
      /\ \A i \in Owner : journal[i].phase # "none" \/ owner[i] # None => i = 1 /\ owners = 1
  BY Alone
<1>2. CASE Identify(source, destination, c)
  <2>1. /\ owners' = owners + 1 /\ entry[source] # None /\ UNCHANGED <<journal, entry, synced>>
        /\ owner' = [i \in Owner |-> IF i = owners + 1 THEN source
                                     ELSE IF owner[i] = source THEN None ELSE owner[i]]
    BY <1>2 DEF Identify, Movable, names
  <2>2. owners = 0 /\ owners' = 1
    BY <1>1, <2>1 DEF Disturbed
  <2>3. \A i \in Owner : journal[i].phase = "none" /\ owner[i] = None
    BY <1>1, <2>2
  <2>4. entry = Only({Ready}) /\ synced = entry
    BY <2>3, Constants DEF Located
  <2>5. source = Ready
    BY <2>1, <2>4, OnlyOne
  <2>6. owner'[1] = Ready /\ \A i \in Owner : i # 1 => owner'[i] = None
    BY <2>1, <2>2, <2>3, <2>5, Constants
  <2>7. \A i \in Owner : i > owners' => i # 1
    BY <2>2, Constants
  <2>8. journal'[1].phase = "none" /\ \A i \in Owner : journal'[i].phase = "none"
    BY <2>1, <2>3, Constants
  <2>9. entry' = Only({Ready}) /\ synced' = entry'
    BY <2>1, <2>4
  <2> QED
    BY <2>6, <2>7, <2>8, <2>9 DEF Located, Prepared
<1>3. CASE Move(source, destination, c) /\ UNCHANGED <<counts, overdue>>
  <2>1. /\ UNCHANGED <<entry, synced, owner, owners>> /\ pc = "idle" /\ pc' = "examine"
        /\ Disturbed' = Disturbed
    BY <1>3 DEF Move, Prepare, Replay, Take, plan, names, identities, counts, Disturbed
  <2>2. CASE journal' = journal
    BY <2>1, <2>2, StillLocated DEF names, identities
  <2>3. CASE journal' # journal
    <3> DEFINE i == OwnerAt(source)
               new == Intent(source, destination, c)
    <3>1. Prepare(source, destination, c)
      BY <1>3, <2>3 DEF Move, Replay, plan
    <3>2. i \in Owner /\ owner[i] = source /\ entry[source] \in File
      BY <3>1, PrepareType
    <3>3. /\ new.source = source /\ new.destination = destination /\ new.phase = "prepared"
          /\ new.file = entry[source]
      BY DEF Intent
    <3>4. ~Prepared(i) /\ journal' = [journal EXCEPT ![i] = new]
      BY <2>3, <3>1 DEF Prepare
    <3> HIDE DEF i, new
    <3>5. i = 1 /\ owners = 1
      BY <1>1, <3>2, Constants
    <3>6. /\ entry = Only({source}) /\ synced = entry
      <4>1. journal[1].phase \in {"none", "moved"}
        BY <3>4, <3>5, Recorded, Constants DEF Prepared
      <4>2. \E l : entry = Only({l}) /\ synced = entry
        <5>1. CASE journal[1].phase = "none"
          BY <5>1 DEF Located
        <5>2. CASE journal[1].phase = "moved"
          BY <5>2 DEF Located, Over
        <5> QED
          BY <4>1, <5>1, <5>2
      <4>3. PICK l : entry = Only({l}) /\ synced = entry
        BY <4>2
      <4>4. l = source
        BY <3>2, <4>3, OnlyOne, Constants
      <4> QED
        BY <4>3, <4>4
    <3>7. entry[source] = 1
      BY <3>6, OnlyAt
    <3>8. journal'[1] = new /\ \A j \in Owner : j # 1 => journal'[j] = journal[j]
      BY <3>4, <3>5, Constants DEF TypeOK
    <3>9. Underway(journal[1])'
      BY <2>1, <3>2, <3>3, <3>5, <3>6, <3>8 DEF Underway
    <3>10. \A j \in Owner : j > owners' => journal'[j].phase = "none" /\ owner'[j] = None
      BY <2>1, <3>5, <3>8, Constants DEF Located
    <3>11. journal'[1].phase = "prepared" /\ journal'[1].file = 1
      BY <3>3, <3>7, <3>8
    <3> QED
      BY <3>9, <3>10, <3>11 DEF Located, Prepared
  <2> QED
    BY <2>2, <2>3
<1> QED
  BY <1>2, <1>3

\* A move in an undisturbed history is that of the first plan.
LEMMA MovesFirst ==
  ASSUME TypeOK, Core, Located, ~Disturbed, Complete
  PROVE  /\ moving = 1 /\ owners = 1 /\ journal[1] = R /\ Disturbed' = Disturbed
         /\ R.source \in Place /\ R.destination \in Place /\ R.source # R.destination
         /\ \/ R.phase = "prepared" /\ Underway(R)
            \/ R.phase = "moved" /\ Over(R)
         /\ \A i \in Owner : i # 1 => journal[i].phase = "none" /\ owner[i] = None
<1>1. /\ moving \in Owner /\ R.source \in Place /\ R.destination \in Place
      /\ R.source # R.destination /\ R.phase \in {"prepared", "moved"}
  BY MoveCore
<1>2. \A i \in Owner : journal[i].phase # "none" \/ owner[i] # None => i = 1 /\ owners = 1
  BY Alone
<1>3. moving = 1 /\ owners = 1 /\ journal[1] = R
  BY <1>1, <1>2 DEF R
<1>4. UNCHANGED <<edits, lapsed, owners>>
  BY CompleteRest DEF counts, Complete, Examine, Link, Sync, Verify, Check, Unlink, SyncUnlink,
    Own, Done, plan, identities
<1>5. Disturbed' = Disturbed
  BY <1>4 DEF Disturbed
<1> QED
  BY <1>1, <1>2, <1>3, <1>5 DEF Located, Prepared

LEMMA CompleteLocated == TypeOK /\ Core /\ Located /\ Complete => Located'
<1> SUFFICES ASSUME TypeOK, Core, Located, Complete PROVE Located'
  OBVIOUS
<1>1. CASE Disturbed
  <2>1. UNCHANGED <<edits, lapsed, owners>>
    BY CompleteRest DEF counts, Complete, Examine, Link, Sync, Verify, Check, Unlink, SyncUnlink,
      Own, Done, plan, identities
  <2> QED
    BY <1>1, <2>1 DEF Disturbed, Located
<1>2. CASE ~Disturbed
  <2>1. PICK r : r = R
    OBVIOUS
  <2>2. /\ moving = 1 /\ owners = 1 /\ journal[1] = r /\ Disturbed' = Disturbed
        /\ r.source \in Place /\ r.destination \in Place /\ r.source # r.destination
        /\ \/ r.phase = "prepared" /\ Underway(r)
           \/ r.phase = "moved" /\ Over(r)
        /\ \A i \in Owner : i # 1 => journal[i].phase = "none" /\ owner[i] = None
    BY <1>2, <2>1, MovesFirst
  <2> DEFINE s == r.source
             d == r.destination
  <2>0. s \in Place /\ d \in Place /\ s # d
    BY <2>2
  <2> HIDE DEF s, d
  <2>3. /\ Only({s})[s] = 1 /\ Only({s})[d] = None /\ Only({d})[s] = None /\ Only({d})[d] = 1
        /\ Only({s, d})[s] = 1 /\ Only({s, d})[d] = 1
    BY <2>0, OnlyTwo
  <2>4. /\ [Only({s}) EXCEPT ![d] = 1] = Only({s, d})
        /\ [Only({s, d}) EXCEPT ![d] = None] = Only({s})
        /\ [Only({s, d}) EXCEPT ![s] = None] = Only({d})
    BY <2>0, OnlyTwo
  <2>5. r.file = 1
    BY <1>2, <2>2 DEF Located, Prepared
  <2>6. SUFFICES ASSUME ~Done
                 PROVE  /\ UNCHANGED <<journal, owners>>
                        /\ \A i \in Owner : i # 1 => owner'[i] = None
                        /\ r.phase = "prepared" => Underway(r)'
                        /\ r.phase = "moved" => Over(r)'
    <3>1. ASSUME ~Done, UNCHANGED <<journal, owners>>, \A i \in Owner : i # 1 => owner'[i] = None,
                 r.phase = "prepared" => Underway(r)', r.phase = "moved" => Over(r)'
          PROVE  Located'
      <4>1. journal'[1] = r /\ owners' = 1 /\ \A i \in Owner : i > 1 => i # 1
        BY <2>2, <3>1, Constants
      <4>2. r.phase # "none"
        BY <2>2
      <4>3. Prepared(1)' => Underway(journal[1])'
        BY <3>1, <4>1 DEF Prepared, Underway
      <4>4. journal'[1].phase = "moved" => Over(journal[1])'
        BY <3>1, <4>1 DEF Over
      <4> QED
        BY <2>2, <2>5, <3>1, <4>1, <4>2, <4>3, <4>4 DEF Located
    <3>2. CASE Done
      <4>1. /\ pc = "record" /\ pc' \in {"idle", "recover"}
            /\ UNCHANGED <<entry, synced, owner, owners>>
            /\ journal' = [journal EXCEPT ![1].phase = "moved"]
        BY <2>2, <3>2 DEF Done, Leave, names, identities
      <4>2. r \in Record
        BY <2>1, <4>1, Current DEF Core
      <4>3. /\ journal'[1] = [r EXCEPT !.phase = "moved"]
            /\ \A i \in Owner : i # 1 => journal'[i] = journal[i]
        BY <2>2, <4>1, Constants DEF TypeOK
      <4>4. /\ journal'[1].phase = "moved" /\ journal'[1].file = 1
            /\ journal'[1].source = s /\ journal'[1].destination = d
        BY <2>5, <4>2, <4>3 DEF Record, s, d
      <4>5. entry = Only({d}) /\ synced = entry /\ owner[1] = d
        BY <2>2, <4>1 DEF Underway, Over, d
      <4>6. Over(journal[1])'
        BY <4>1, <4>4, <4>5 DEF Over
      <4>7. \A i \in Owner : i > owners' => journal'[i].phase = "none" /\ owner'[i] = None
        BY <2>2, <4>1, <4>3, Constants
      <4> QED
        BY <4>4, <4>6, <4>7 DEF Located, Prepared
    <3> QED
      BY <3>1, <3>2
  <2> USE DEF Leave, Goto, plan, names, identities
  <2>7. CASE Examine
    <3>1. /\ pc = "examine" /\ UNCHANGED <<entry, synced, journal, owner, owners>>
          /\ \/ pc' = "idle"
             \/ pc' = "own" /\ entry[s] = None
             \/ pc' = "link" /\ entry[s] # None /\ entry[d] = None
             \/ pc' = "check" /\ entry[s] # None /\ entry[d] # None
      BY <2>1, <2>7 DEF Examine, s, d
    <3>2. Over(r) => Over(r)'
      BY <2>3, <3>1, Constants DEF Over, s, d
    <3>3. Underway(r) => Underway(r)'
      BY <2>3, <3>1, Constants DEF Underway, s, d
    <3> QED
      BY <2>2, <3>1, <3>2, <3>3
  <2>8. CASE Link
    <3>1. /\ pc = "link" /\ UNCHANGED <<synced, journal, owner, owners>>
          /\ \/ pc' = "idle" /\ entry' = entry
             \/ pc' = "sync" /\ entry' = [entry EXCEPT ![d] = entry[s]]
      BY <2>1, <2>8 DEF Link, s, d
    <3>2. r.phase = "prepared" /\ entry = Only({s}) /\ synced = entry /\ owner[1] = s
      BY <2>2, <3>1 DEF Over, Underway, s
    <3>3. Underway(r)'
      BY <2>3, <2>4, <3>1, <3>2 DEF Underway, s, d
    <3> QED
      BY <2>2, <3>1, <3>2, <3>3
  <2>9. CASE Sync
    <3>1. /\ pc = "sync" /\ pc' = "verify" /\ UNCHANGED <<entry, journal, owner, owners>>
          /\ synced' = [synced EXCEPT ![d] = entry[d]]
      BY <2>1, <2>9 DEF Sync, d
    <3>2. /\ r.phase = "prepared" /\ entry = Only({s, d}) /\ synced = Only({s})
          /\ owner[1] = s
      BY <2>2, <3>1 DEF Over, Underway, s, d
    <3>3. Underway(r)'
      BY <2>3, <2>4, <3>1, <3>2 DEF Underway, s, d
    <3> QED
      BY <2>2, <3>1, <3>2, <3>3
  <2>10. CASE Verify
    <3>1. /\ pc = "verify" /\ UNCHANGED <<journal, owner, owners>>
          /\ \/ pc' \in {"idle", "check"} /\ UNCHANGED <<entry, synced>>
             \/ /\ pc' = "idle" /\ entry' = [entry EXCEPT ![d] = None]
                /\ synced' = [synced EXCEPT ![d] = None]
      BY <2>1, <2>10 DEF Verify, d
    <3>2. r.phase = "prepared" /\ entry = Only({s, d}) /\ synced = entry /\ owner[1] = s
      BY <2>2, <3>1 DEF Over, Underway, s, d
    <3>3. Underway(r)'
      BY <2>4, <3>1, <3>2 DEF Underway, s, d
    <3> QED
      BY <2>2, <3>1, <3>2, <3>3
  <2>11. CASE Check
    <3>1. /\ pc = "check" /\ UNCHANGED <<entry, synced, journal, owner, owners>>
          /\ pc' \in {"idle", "unlink"} \/ entry[s] = None
      BY <2>1, <2>11 DEF Check, s
    <3>2. r.phase = "prepared" /\ entry = Only({s, d}) /\ synced = entry /\ owner[1] = s
      BY <2>2, <3>1 DEF Over, Underway, s, d
    <3>3. Underway(r)'
      BY <2>3, <3>1, <3>2, Constants DEF Underway, s, d
    <3> QED
      BY <2>2, <3>1, <3>2, <3>3
  <2>12. CASE Unlink
    <3>1. /\ pc = "unlink" /\ pc' = "syncUnlink" /\ UNCHANGED <<synced, journal, owner, owners>>
          /\ entry' = [entry EXCEPT ![s] = None]
      BY <2>1, <2>12 DEF Unlink, s
    <3>2. r.phase = "prepared" /\ entry = Only({s, d}) /\ synced = entry /\ owner[1] = s
      BY <2>2, <3>1 DEF Over, Underway, s, d
    <3>3. Underway(r)'
      BY <2>4, <3>1, <3>2 DEF Underway, s, d
    <3> QED
      BY <2>2, <3>1, <3>2, <3>3
  <2>13. CASE SyncUnlink
    <3>1. /\ pc = "syncUnlink" /\ pc' = "own" /\ UNCHANGED <<entry, journal, owner, owners>>
          /\ synced' = [synced EXCEPT ![s] = entry[s]]
      BY <2>1, <2>13 DEF SyncUnlink, s
    <3>2. /\ r.phase = "prepared" /\ entry = Only({d}) /\ synced = Only({s, d})
          /\ owner[1] = s
      BY <2>2, <3>1 DEF Over, Underway, s, d
    <3>3. Underway(r)'
      BY <2>3, <2>4, <3>1, <3>2 DEF Underway, s, d
    <3> QED
      BY <2>2, <3>1, <3>2, <3>3
  <2>14. CASE Own
    <3>1. /\ pc = "own" /\ UNCHANGED <<entry, synced, journal, owners>>
          /\ \/ pc' = "idle" /\ owner' = owner
             \/ /\ pc' = "record"
                /\ owner' = [i \in Owner |-> IF owner[i] = s THEN d ELSE owner[i]]
      BY <2>1, <2>14 DEF Own, s, d
    <3>2. \A i \in Owner : i # 1 => owner'[i] = None
      BY <2>2, <3>1, Constants DEF s
    <3>3. owner[1] \in {s, d} => owner'[1] \in {s, d} /\ (pc' = "record" => owner'[1] = d)
      BY <3>1, Constants
    <3>4. Over(r) => Over(r)'
      BY <2>2, <3>1, Constants DEF Over, s, d
    <3>5. Underway(r) => Underway(r)'
      BY <3>1, <3>3 DEF Underway, s, d
    <3> QED
      BY <2>2, <3>1, <3>2, <3>4, <3>5
  <2> QED
    BY <2>6, <2>7, <2>8, <2>9, <2>10, <2>11, <2>12, <2>13, <2>14 DEF Complete
<1> QED
  BY <1>1, <1>2

LEMMA CrashLocated == TypeOK /\ Located /\ Crash => Located'
<1> SUFFICES ASSUME TypeOK, Located, Crash, ~Disturbed' PROVE Located'
  BY DEF Located
<1>1. /\ UNCHANGED <<entry, synced, journal, owner, owners, edits>> /\ pc' = "idle"
      /\ lapsed' = (lapsed \/ pc \in {"sync", "syncUnlink"})
  BY DEF Crash, Leave, plan, names, identities
<1>2. ~Disturbed /\ pc \notin {"sync", "syncUnlink"}
  BY <1>1 DEF Disturbed
<1>3. ASSUME NEW r, Over(r) PROVE Over(r)'
  BY <1>1, <1>3 DEF Over
<1>4. ASSUME NEW r, Underway(r) PROVE Underway(r)'
  BY <1>1, <1>2, <1>4 DEF Underway
<1>5. PICK r : r = journal[1]
  OBVIOUS
<1>6. journal'[1] = r
  BY <1>1, <1>5
<1>7. /\ Prepared(1)' => Underway(journal[1])'
      /\ journal'[1].phase = "moved" => Over(journal[1])'
  <2>1. (r.phase = "prepared" => Underway(r)') /\ (r.phase = "moved" => Over(r)')
    BY <1>2, <1>3, <1>4, <1>5 DEF Located, Prepared
  <2> QED
    BY <1>6, <2>1 DEF Underway, Over, Prepared
<1> QED
  BY <1>1, <1>2, <1>7 DEF Located, Prepared

LEMMA PowerLocated == TypeOK /\ Core /\ Located /\ PowerFailure => Located'
<1> SUFFICES ASSUME TypeOK, Core, Located, PowerFailure, ~Disturbed' PROVE Located'
  BY DEF Located
<1>1. /\ UNCHANGED <<journal, owner, owners, edits, lapsed>> /\ pc' = "idle"
      /\ synced' = entry' /\ entry' \in [Place -> File \cup {None}]
      /\ \A l \in Place : entry'[l] \in {entry[l], synced[l]}
  BY DEF PowerFailure, Leave, identities
<1>2. ~Disturbed
  BY <1>1 DEF Disturbed
<1>3. PICK r : r = journal[1]
  OBVIOUS
<1>4. journal'[1] = r
  BY <1>1, <1>3
<1>5. synced = entry => entry' = entry
  <2> SUFFICES ASSUME synced = entry PROVE entry' = entry
    OBVIOUS
  <2>1. \A l \in Place : entry'[l] = entry[l]
    BY <1>1
  <2> QED
    BY <1>1, <2>1 DEF TypeOK
<1>6. ASSUME Over(r) PROVE Over(r)'
  BY <1>1, <1>5, <1>6 DEF Over
<1>7. ASSUME Underway(r) PROVE Underway(r)'
  <2>1. CASE synced = entry
    BY <1>1, <1>5, <1>7, <2>1 DEF Underway
  <2>2. CASE pc = "sync" /\ synced # entry
    <3>1. /\ entry = Only({r.source, r.destination}) /\ synced = Only({r.source})
          /\ owner[1] = r.source
      BY <1>7, <2>2 DEF Underway
    <3>2. {r.source} \cup {r.destination} = {r.source, r.destination}
      OBVIOUS
    <3>3. \A l \in Place :
            entry'[l] \in {Only({r.source})[l], Only({r.source} \cup {r.destination})[l]}
      BY <1>1, <3>1, <3>2
    <3>4. entry' = Only({r.source}) \/ entry' = Only({r.source} \cup {r.destination})
      BY <1>1, <3>3, OnlyBetween
    <3> QED
      BY <1>1, <3>1, <3>2, <3>4 DEF Underway
  <2>3. CASE pc = "syncUnlink" /\ synced # entry
    <3>1. /\ entry = Only({r.destination}) /\ synced = Only({r.source, r.destination})
          /\ owner[1] = r.source
      BY <1>7, <2>3 DEF Underway
    <3>2. {r.destination} \cup {r.source} = {r.source, r.destination}
      OBVIOUS
    <3>3. \A l \in Place :
            entry'[l] \in {Only({r.destination})[l], Only({r.destination} \cup {r.source})[l]}
      BY <1>1, <3>1, <3>2
    <3>4. entry' = Only({r.destination}) \/ entry' = Only({r.destination} \cup {r.source})
      BY <1>1, <3>3, OnlyBetween
    <3> QED
      BY <1>1, <3>1, <3>2, <3>4 DEF Underway
  <2> QED
    BY <1>7, <2>1, <2>2, <2>3 DEF Underway
<1>8. /\ Prepared(1)' => Underway(journal[1])'
      /\ journal'[1].phase = "moved" => Over(journal[1])'
  <2>1. (r.phase = "prepared" => Underway(r)') /\ (r.phase = "moved" => Over(r)')
    BY <1>2, <1>3, <1>6, <1>7 DEF Located, Prepared
  <2> QED
    BY <1>4, <2>1 DEF Underway, Over, Prepared
<1> QED
  BY <1>1, <1>2, <1>5, <1>8 DEF Located, Prepared

LEMMA NextLocated == TypeOK /\ Core /\ Located /\ [Next]_vars => Located'
<1> SUFFICES ASSUME TypeOK, Core, Located, [Next]_vars, ~Disturbed' PROVE Located'
  BY DEF Located
<1>1. Elsewhere \/ Complete \/ Asked \/ Crash \/ PowerFailure \/ Outsider \/ Promote
  BY Requests DEF Next, Recover, Elsewhere
<1>2. Held
  BY DEF Core
<1>3. ~Disturbed
  BY <1>2, DisturbedStays
<1>4. ~(Outsider \/ Promote)
  <2>1. edits \in Nat
    BY LifecycleAssumption DEF TypeOK
  <2> QED
    BY <2>1, MeddleType DEF Disturbed
<1> QED
  BY <1>1, <1>2, <1>3, <1>4, ElsewhereLocated, CompleteLocated, AskedLocated, CrashLocated,
    PowerLocated

-----------------------------------------------------------------------------
(* Theorems *)

LEMMA InvParts == Inv <=> TypeOK /\ Core /\ Located
BY DEF Inv, Core

\* The invariant holds from the start, and every step keeps it.
THEOREM Invariant == Spec => []Inv
<1>1. Init => Inv
  BY InvParts, InitType, InitCore, InitLocated
<1>2. Inv /\ [Next]_vars => Inv'
  <2> SUFFICES ASSUME Inv, [Next]_vars PROVE Inv'
    OBVIOUS
  <2>1. TypeOK /\ Core /\ Located /\ Held
    BY InvParts DEF Core
  <2>2. TypeOK' /\ Core' /\ Located'
    BY <2>1, NextType, NextCore, NextLocated
  <2> QED
    BY <2>2 DEF Inv, Core
<1> QED
  BY <1>1, <1>2, PTL DEF Spec

\* Every variable has its type, what the journal says included.
THEOREM TypeCorrect == Spec => []TypeOK
<1>1. Inv => TypeOK
  BY DEF Inv
<1> QED
  BY <1>1, Invariant, PTL

\* No move, recovery or power failure takes the last durable name of a file,
\* whatever outsiders have put in its way (plan_lifecycle.py:224-267).
THEOREM NoneLost == Spec => NothingLost
<1>1. Inv /\ [Next]_vars =>
        [edits' = edits /\ ~lapsed =>
           \A f \in File : Kept(f) /\ ~Superseded(f) => Kept(f)']_vars
  BY InvParts, NextNothingLost
<1> QED
  BY <1>1, Invariant, PTL DEF Spec, NothingLost

\* A run that executes keeps its plan: neither a request nor the recovery of
\* one moves it (project_admission.py:1024-1046, workflow.py:18424).
THEOREM PlanStays == Spec => RunKeepsPlan
<1>1. Inv /\ [Next]_vars =>
        [run = "executing" /\ run' = "executing" /\ edits' = edits /\ ~overdue =>
           entry'[Ready] = entry[Ready]]_vars
  BY InvParts, NextKeepsPlan
<1> QED
  BY <1>1, Invariant, PTL DEF Spec, RunKeepsPlan

\* A move recorded as done is done for good: file, names and identity are
\* where the journal says, whichever step was the last one of any process
\* before (plan_lifecycle.py:203-279).
THEOREM MovesAreTrue == Spec => []MovedIsTrue
<1>1. Inv => MovedIsTrue
  <2> SUFFICES ASSUME Inv, ~Disturbed, NEW i \in Owner, journal[i].phase = "moved"
               PROVE  LET r == journal[i]
                      IN
                      /\ entry[r.destination] = r.file /\ synced[r.destination] = r.file
                      /\ \A l \in Place \ {r.destination} : r.file \notin {entry[l], synced[l]}
                      /\ owner[i] = r.destination
    BY DEF MovedIsTrue
  <2>1. i = 1
    BY Alone DEF Inv
  <2>2. /\ journal[1].file = 1 /\ owner[1] = journal[1].destination
        /\ entry = Only({journal[1].destination}) /\ synced = entry
    BY <2>1 DEF Inv, Located, Over
  <2>3. journal[1].destination \in Place
    BY <2>1, Recorded DEF Inv
  <2>4. \A l \in Place : entry[l] = IF l \in {journal[1].destination} THEN 1 ELSE None
    BY <2>2, OnlyAt
  <2> QED
    BY <2>1, <2>2, <2>3, <2>4, Constants
<1> QED
  BY <1>1, Invariant, PTL

-----------------------------------------------------------------------------
(* The moves implement the abstract shelf *)

LEMMA OnlyShown ==
  ASSUME NEW places \in SUBSET Place
  PROVE  {l \in Place : Only(places)[l] # None} = places
<1>1. ASSUME NEW l \in Place PROVE Only(places)[l] # None <=> l \in places
  BY OnlyAt, Constants
<1> QED
  BY <1>1

LEMMA TwoShown ==
  ASSUME NEW s \in Place, NEW d \in Place
  PROVE  /\ {l \in Place : Only({s})[l] # None} = {s}
         /\ {l \in Place : Only({d})[l] # None} = {d}
         /\ {l \in Place : Only({s, d})[l] # None} = {s, d}
<1>1. {s} \in SUBSET Place /\ {d} \in SUBSET Place /\ {s, d} \in SUBSET Place
  OBVIOUS
<1>2. {l \in Place : Only({s})[l] # None} = {s}
  BY <1>1, OnlyShown
<1>3. {l \in Place : Only({d})[l] # None} = {d}
  BY <1>1, OnlyShown
<1>4. {l \in Place : Only({s, d})[l] # None} = {s, d}
  BY <1>1, OnlyShown
<1> QED
  BY <1>2, <1>3, <1>4

\* Nothing that the shelf shows changes.
LEMMA ShelfSame ==
  ASSUME UNCHANGED <<entry, journal, owner>>, Used' = Used, Disturbed' = Disturbed
  PROVE  UNCHANGED Shelf!vars
BY DEF Shelf!vars, Home, Aim, Shown, CurrentPlace, Prepared

\* At rest, the plan shows at one place, which is its home.
LEMMA AtRest ==
  ASSUME TypeOK, Located, ~Disturbed, ~Prepared(1)
  PROVE  Home \in Place /\ entry = Only({Home}) /\ synced = entry /\ Shown = {Home} /\ Aim = None
<1>1. Home \in Place
  BY Constants, Recorded DEF Home, CurrentPlace
<1>2. journal[1].phase \in {"none", "moved"}
  BY Constants, Recorded DEF Prepared
<1>3. entry = Only({Home}) /\ synced = entry
  BY <1>2 DEF Located, Over, Home, CurrentPlace
<1>4. Shown = {Home}
  BY <1>1, <1>3, OnlyShown DEF Shown
<1> QED
  BY <1>1, <1>3, <1>4 DEF Aim

\* On its way, it is between the two places of its move.
LEMMA OnItsWay ==
  ASSUME TypeOK, Wellformed, Prepared(1)
  PROVE  /\ Home = journal[1].source /\ Aim = journal[1].destination /\ Aim # None
         /\ Home \in Place /\ Aim \in Place /\ Home # Aim
BY Constants, Recorded DEF Home, Aim, CurrentPlace, Prepared, Wellformed

\* A run that begins to use the plan finds it at rest in its place.
LEMMA ElsewhereShelf ==
  ASSUME TypeOK, Located, ~Disturbed, Elsewhere
  PROVE  [Shelf!Next]_(Shelf!vars)
<1>1. /\ UNCHANGED <<entry, journal, owner>> /\ Disturbed' = Disturbed
      /\ UNCHANGED <<Home, Aim, Shown>>
  BY ElsewherePlan DEF plan, names, identities, Disturbed, Home, Aim, Shown, CurrentPlace, Prepared
<1>2. CASE Used' = Used
  BY <1>1, <1>2, ShelfSame
<1>3. CASE Used /\ ~Used'
  BY <1>1, <1>3 DEF Shelf!Next, Shelf!Use, Used
<1>4. CASE ~Used /\ Used'
  <2>1. entry[Ready] # None /\ \A i \in Owner : ~Prepared(i)
    <3>1. CASE Claim
      BY <1>4, <3>1 DEF Claim, Used
    <3>2. CASE EndRecover
      BY <1>4, <3>2 DEF EndRecover, Used
    <3>3. CASE EndRun \/ RunDies
      BY <1>4, <3>3 DEF EndRun, RunDies, Orphaned, Used
    <3>4. CASE BeginRecover \/ BeginStart \/ (\E i \in Owner : RecoverNext(i)) \/ UNCHANGED vars
      BY <1>4, <3>4 DEF BeginRecover, BeginStart, RecoverNext, vars, processes, Used
    <3> QED
      BY <3>1, <3>2, <3>3, <3>4 DEF Elsewhere
  <2>2. entry = Only({Home}) /\ Shown = {Home} /\ Aim = None
    BY <2>1, AtRest, Constants
  <2>3. Home = Ready
    BY <2>1, <2>2, OnlyOne, Constants
  <2> QED
    BY <1>1, <1>4, <2>2, <2>3 DEF Shelf!Next, Shelf!Use
<1> QED
  BY <1>2, <1>3, <1>4 DEF Used

\* A request gives the plan its identity, or sets it out.
LEMMA AskedShelf ==
  ASSUME TypeOK, Core, Located, ~Disturbed, ~Disturbed', Asked
  PROVE  [Shelf!Next]_(Shelf!vars)
<1>0. PICK source \in Place, destination \in Place, c \in Contents :
        /\ source # destination
        /\ \/ Identify(source, destination, c)
           \/ /\ Move(source, destination, c) /\ UNCHANGED <<counts, overdue>>
              /\ run' \in {run, "none"} /\ looked' \in BOOLEAN
  BY DEF Asked
<1>1. /\ owners \in {0, 1}
      /\ \A i \in Owner : journal[i].phase # "none" \/ owner[i] # None => i = 1 /\ owners = 1
  BY Alone
<1>2. ~Used /\ ~Used' /\ entry' = entry
  BY <1>0 DEF Identify, Move, Prepare, Replay, Unclaimed, Used, plan, names, processes
<1>5. Used' = Used /\ Disturbed' = Disturbed
  BY <1>2 DEF Used, Disturbed
<1>3. CASE Identify(source, destination, c)
  <2>1. /\ owners' = owners + 1 /\ entry[source] # None /\ journal' = journal
        /\ owner' = [i \in Owner |-> IF i = owners + 1 THEN source
                                     ELSE IF owner[i] = source THEN None ELSE owner[i]]
    BY <1>3 DEF Identify, Movable
  <2>2. owners = 0
    BY <1>1, <1>2, <2>1 DEF Disturbed
  <2>3. journal[1].phase = "none" /\ owner[1] = None
    BY <1>1, <2>2, Constants
  <2>4. entry = Only({Home}) /\ Home = Ready
    BY <2>3, AtRest DEF Prepared, Home
  <2>5. source = Home /\ owner'[1] = Home
    BY <2>1, <2>2, <2>4, OnlyOne, Constants
  <2>6. UNCHANGED <<Home, Aim, Shown>>
    BY <1>2, <2>1 DEF Home, Aim, Shown, CurrentPlace, Prepared
  <2> QED
    BY <1>5, <2>3, <2>5, <2>6 DEF Shelf!Next, Shelf!Name
<1>4. CASE Move(source, destination, c)
  <2>1. owner' = owner
    BY <1>4 DEF Move, Prepare, Replay, plan, identities
  <2>2. CASE journal' = journal
    BY <1>2, <1>5, <2>1, <2>2, ShelfSame
  <2>3. CASE journal' # journal
    <3> DEFINE i == OwnerAt(source)
               new == Intent(source, destination, c)
    <3>1. Prepare(source, destination, c)
      BY <1>4, <2>3 DEF Move, Replay, plan
    <3>2. i \in Owner /\ owner[i] = source /\ entry[source] \in File
      BY <3>1, PrepareType
    <3>3. new.source = source /\ new.destination = destination /\ new.phase = "prepared"
      BY DEF Intent
    <3>4. ~Prepared(i) /\ journal' = [journal EXCEPT ![i] = new]
      BY <2>3, <3>1 DEF Prepare
    <3> HIDE DEF i, new
    <3>5. i = 1
      BY <1>1, <3>2, Constants
    <3>6. journal'[1] = new
      BY <3>4, <3>5, Constants DEF TypeOK
    <3>7. entry = Only({Home}) /\ Aim = None
      BY <3>4, <3>5, AtRest
    <3>8. source = Home
      BY <3>2, <3>7, OnlyOne, Constants
    <3>9. Home' = source /\ Aim' = destination
      BY <3>3, <3>6 DEF Home, Aim, CurrentPlace, Prepared
    <3>10. Shown' = Shown
      BY <1>2 DEF Shown
    <3>11. owner[1] = Home
      BY <3>2, <3>5, <3>8
    <3>12. Shelf!SetOut(destination)
      BY <1>0, <1>2, <1>5, <2>1, <3>7, <3>8, <3>9, <3>10, <3>11 DEF Shelf!SetOut
    <3> QED
      BY <3>12 DEF Shelf!Next
  <2> QED
    BY <2>2, <2>3
<1> QED
  BY <1>0, <1>3, <1>4

\* A step of a move shifts the plan, has its identity follow, lets it arrive,
\* or shows nothing.
LEMMA CompleteShelf ==
  ASSUME TypeOK, Core, Located, ~Disturbed, Complete
  PROVE  [Shelf!Next]_(Shelf!vars)
<1>1. PICK r : r = R
  OBVIOUS
<1>2. /\ moving = 1 /\ journal[1] = r /\ Disturbed' = Disturbed
      /\ r.source \in Place /\ r.destination \in Place /\ r.source # r.destination
      /\ \/ r.phase = "prepared" /\ Underway(r)
         \/ r.phase = "moved" /\ Over(r)
  BY <1>1, MovesFirst
<1>3. Used' = Used
  BY CompleteRest DEF processes, Used
<1> DEFINE s == r.source
           d == r.destination
<1>4. s \in Place /\ d \in Place /\ s # d
  BY <1>2
<1>5. Prepared(1) => Home = s /\ Aim = d /\ Aim # None
  BY <1>1, <1>2, OnItsWay DEF Core
<1> HIDE DEF s, d
<1>6. /\ [Only({s}) EXCEPT ![d] = 1] = Only({s, d})
      /\ [Only({s, d}) EXCEPT ![d] = None] = Only({s})
      /\ [Only({s, d}) EXCEPT ![s] = None] = Only({d})
      /\ Only({s})[s] = 1
  BY <1>4, OnlyTwo
<1>7. /\ {l \in Place : Only({s})[l] # None} = {s}
      /\ {l \in Place : Only({d})[l] # None} = {d}
      /\ {l \in Place : Only({s, d})[l] # None} = {s, d}
  BY <1>4, TwoShown
<1>8. CASE Examine \/ Sync \/ Check \/ SyncUnlink
  <2>1. UNCHANGED <<entry, journal, owner>>
    BY <1>8 DEF Examine, Sync, Check, SyncUnlink, plan, names, identities
  <2> QED
    BY <1>2, <1>3, <2>1, ShelfSame
<1>9. CASE Link \/ Verify \/ Unlink
  <2>1. /\ UNCHANGED <<journal, owner>>
        /\ \/ entry' = entry
           \/ pc = "link" /\ entry' = [entry EXCEPT ![d] = entry[s]]
           \/ pc = "verify" /\ entry' = [entry EXCEPT ![d] = None]
           \/ pc = "unlink" /\ entry' = [entry EXCEPT ![s] = None]
    BY <1>1, <1>9 DEF Link, Verify, Unlink, names, identities, s, d
  <2>2. pc \in {"link", "verify", "unlink"}
    BY <1>9 DEF Link, Verify, Unlink
  <2>3. /\ r.phase = "prepared" /\ owner[1] = s
        /\ entry = IF pc = "link" THEN Only({s}) ELSE Only({s, d})
    BY <1>2, <2>2 DEF Over, Underway, s, d
  <2>4. UNCHANGED <<Home, Aim>> /\ Home = s /\ Aim = d /\ Aim # None
    BY <1>2, <1>5, <2>1, <2>3 DEF Home, Aim, CurrentPlace, Prepared
  <2>5. CASE entry' = entry
    BY <1>2, <1>3, <2>1, <2>5, ShelfSame
  <2>6. CASE pc = "link" /\ entry' = [entry EXCEPT ![d] = entry[s]]
    <3>1. Shown = {s} /\ Shown' = {s, d}
      BY <1>6, <1>7, <2>3, <2>6 DEF Shown
    <3>2. Shelf!Shift
      BY <1>2, <1>3, <2>1, <2>3, <2>4, <3>1 DEF Shelf!Shift
    <3> QED
      BY <3>2 DEF Shelf!Next
  <2>7. CASE pc = "verify" /\ entry' = [entry EXCEPT ![d] = None]
    <3>1. Shown = {s, d} /\ Shown' = {s}
      BY <1>6, <1>7, <2>3, <2>7 DEF Shown
    <3>2. Shelf!Shift
      BY <1>2, <1>3, <2>1, <2>3, <2>4, <3>1 DEF Shelf!Shift
    <3> QED
      BY <3>2 DEF Shelf!Next
  <2>8. CASE pc = "unlink" /\ entry' = [entry EXCEPT ![s] = None]
    <3>1. Shown = {s, d} /\ Shown' = {d}
      BY <1>6, <1>7, <2>3, <2>8 DEF Shown
    <3>2. Shelf!Shift
      BY <1>2, <1>3, <2>1, <2>3, <2>4, <3>1 DEF Shelf!Shift
    <3> QED
      BY <3>2 DEF Shelf!Next
  <2> QED
    BY <2>1, <2>5, <2>6, <2>7, <2>8
<1>10. CASE Own
  <2>1. /\ UNCHANGED <<entry, journal>> /\ pc = "own"
        /\ \/ owner' = owner
           \/ owner' = [i \in Owner |-> IF owner[i] = s THEN d ELSE owner[i]]
    BY <1>1, <1>10 DEF Own, names, s, d
  <2>2. UNCHANGED <<Home, Aim, Shown>>
    BY <2>1 DEF Home, Aim, Shown, CurrentPlace, Prepared
  <2>3. entry = Only({d})
    BY <1>2, <2>1 DEF Over, Underway, d
  <2>4. owner'[1] = owner[1] \/ (owner[1] = s /\ owner'[1] = d)
    BY <2>1, Constants
  <2>5. CASE owner'[1] = owner[1]
    BY <1>2, <1>3, <2>2, <2>5 DEF Shelf!vars
  <2>6. CASE owner[1] = s /\ owner'[1] = d
    <3>1. Prepared(1)
      BY <1>2, <1>4, <2>6 DEF Over, Prepared, d
    <3>2. Shown = {d}
      BY <1>7, <2>3 DEF Shown
    <3>3. Shelf!Rename
      BY <1>2, <1>3, <1>5, <2>2, <2>6, <3>1, <3>2 DEF Shelf!Rename
    <3> QED
      BY <3>3 DEF Shelf!Next
  <2> QED
    BY <2>4, <2>5, <2>6
<1>11. CASE Done
  <2>1. /\ pc = "record" /\ UNCHANGED <<entry, owner>>
        /\ journal' = [journal EXCEPT ![1].phase = "moved"]
    BY <1>2, <1>11 DEF Done, names, identities
  <2>2. r \in Record
    BY <1>1, <2>1, Current DEF Core
  <2>3. journal'[1] = [r EXCEPT !.phase = "moved"]
    BY <1>2, <2>1, Constants DEF TypeOK
  <2>4. journal'[1].phase = "moved" /\ journal'[1].destination = d
    BY <2>2, <2>3 DEF Record, d
  <2>5. Home' = d /\ Aim' = None /\ Shown' = Shown
    BY <2>1, <2>4 DEF Home, Aim, CurrentPlace, Prepared, Shown
  <2>6. entry = Only({d}) /\ owner[1] = d
    BY <1>2, <2>1 DEF Over, Underway, d
  <2>7. Shown = {d}
    BY <1>7, <2>6 DEF Shown
  <2>8. CASE r.phase = "prepared"
    <3>1. Aim = d /\ Aim # None
      BY <1>2, <1>5, <2>8 DEF Prepared
    <3>2. Shelf!Arrive
      BY <1>2, <1>3, <2>1, <2>5, <2>6, <2>7, <3>1 DEF Shelf!Arrive
    <3> QED
      BY <3>2 DEF Shelf!Next
  <2>9. CASE r.phase = "moved"
    <3>1. Home = d /\ Aim = None
      BY <1>2, <2>9 DEF Home, Aim, CurrentPlace, Prepared, d
    <3> QED
      BY <1>2, <1>3, <2>1, <2>5, <3>1 DEF Shelf!vars
  <2> QED
    BY <1>2, <2>8, <2>9
<1> QED
  BY <1>8, <1>9, <1>10, <1>11 DEF Complete

LEMMA CrashShelf ==
  ASSUME Crash, ~Disturbed, ~Disturbed'
  PROVE  UNCHANGED Shelf!vars
<1>1. UNCHANGED <<entry, journal, owner>>
  BY DEF Crash, plan, names, identities
<1>2. Used' = Used /\ Disturbed' = Disturbed
  BY DEF Crash, processes, Used, Disturbed
<1> QED
  BY <1>1, <1>2, ShelfSame

\* A power failure takes the last link or unlink back and ends the run.
LEMMA PowerShelf ==
  ASSUME TypeOK, Core, Located, ~Disturbed, ~Disturbed', PowerFailure
  PROVE  [Shelf!Next]_(Shelf!vars)
<1>1. /\ UNCHANGED <<journal, owner>> /\ entry' \in [Place -> File \cup {None}]
      /\ \A l \in Place : entry'[l] \in {entry[l], synced[l]}
  BY DEF PowerFailure, identities
<1>2. UNCHANGED <<Home, Aim>> /\ Disturbed' = Disturbed /\ ~Used'
  BY DEF Home, Aim, CurrentPlace, Prepared, PowerFailure, Orphaned, Used, Disturbed
<1>3. synced = entry => entry' = entry
  <2> SUFFICES ASSUME synced = entry PROVE entry' = entry
    OBVIOUS
  <2>1. \A l \in Place : entry'[l] = entry[l]
    BY <1>1
  <2> QED
    BY <1>1, <2>1 DEF TypeOK
<1>4. CASE entry' = entry
  <2>1. Shown' = Shown
    BY <1>4 DEF Shown
  <2> QED
    BY <1>1, <1>2, <2>1 DEF Shelf!Next, Shelf!Use, Shelf!vars, Used
<1>5. CASE synced # entry
  <2>1. Prepared(1)
    BY <1>5, AtRest
  <2>2. PICK r : r = journal[1]
    OBVIOUS
  <2> DEFINE s == r.source
             d == r.destination
  <2>3. /\ Home = s /\ Aim = d /\ Aim # None /\ s \in Place /\ d \in Place
    BY <2>1, <2>2, OnItsWay DEF Core
  <2>4. Underway(r)
    BY <2>1, <2>2 DEF Located, Underway
  <2>5. /\ pc \in {"sync", "syncUnlink"} /\ owner[1] = s
        /\ \/ entry = Only({s, d}) /\ synced = Only({s})
           \/ entry = Only({d}) /\ synced = Only({s, d})
    BY <1>5, <2>4 DEF Underway
  <2>6. Used' = Used
    BY <1>2, <2>1, <2>5 DEF Core, Unmoved, Used
  <2> HIDE DEF s, d
  <2>7. /\ {l \in Place : Only({s})[l] # None} = {s}
        /\ {l \in Place : Only({d})[l] # None} = {d}
        /\ {l \in Place : Only({s, d})[l] # None} = {s, d}
    BY <2>3, TwoShown
  <2>8. {s} \cup {d} = {s, d} /\ {d} \cup {s} = {s, d}
    OBVIOUS
  <2>9. CASE entry = Only({s, d}) /\ synced = Only({s})
    <3>1. \A l \in Place : entry'[l] \in {Only({s})[l], Only({s} \cup {d})[l]}
      BY <1>1, <2>8, <2>9
    <3>2. entry' = Only({s}) \/ entry' = Only({s, d})
      BY <1>1, <2>8, <3>1, OnlyBetween
    <3>3. Shown = {s, d} /\ Shown' \in {{s}, {s, d}}
      BY <2>7, <2>9, <3>2 DEF Shown
    <3>4. Shelf!Shift \/ UNCHANGED Shelf!vars
      BY <1>1, <1>2, <2>3, <2>5, <2>6, <3>3 DEF Shelf!Shift, Shelf!vars
    <3> QED
      BY <3>4 DEF Shelf!Next
  <2>10. CASE entry = Only({d}) /\ synced = Only({s, d})
    <3>1. \A l \in Place : entry'[l] \in {Only({d})[l], Only({d} \cup {s})[l]}
      BY <1>1, <2>8, <2>10
    <3>2. entry' = Only({d}) \/ entry' = Only({s, d})
      BY <1>1, <2>8, <3>1, OnlyBetween
    <3>3. Shown = {d} /\ Shown' \in {{d}, {s, d}}
      BY <2>7, <2>10, <3>2 DEF Shown
    <3>4. Shelf!Shift \/ UNCHANGED Shelf!vars
      BY <1>1, <1>2, <2>3, <2>5, <2>6, <3>3 DEF Shelf!Shift, Shelf!vars
    <3> QED
      BY <3>4 DEF Shelf!Next
  <2> QED
    BY <2>5, <2>9, <2>10
<1> QED
  BY <1>3, <1>4, <1>5

LEMMA DisturbShelf ==
  ASSUME TypeOK', Disturbed'
  PROVE  Shelf!Disturb
<1>1. (journal[1] \in Record \cup {NoRecord})' /\ (owner[1] \in Place \cup {None})'
  BY Constants DEF TypeOK
<1>2. (journal[1].phase # "none" => journal[1] \in Record)'
  BY <1>1 DEF NoRecord
<1>3. (Home \in Place)' /\ (Aim \in Place \cup {None})'
  BY <1>2, Constants DEF Home, Aim, CurrentPlace, Prepared, Record
<1>4. (Shown \in SUBSET Place)' /\ (Used \in BOOLEAN)' /\ (Disturbed = TRUE)'
  BY DEF Shown, Used, Disturbed
<1> QED
  BY <1>1, <1>3, <1>4 DEF Shelf!Disturb

LEMMA InitShelf == Init => Shelf!Init
<1> SUFFICES ASSUME Init PROVE Shelf!Init
  OBVIOUS
<1>1. journal[1].phase = "none" /\ owner[1] \in {Ready, None}
  BY Constants DEF Init, NoRecord
<1>2. Home = Ready /\ Aim = None
  BY <1>1 DEF Home, Aim, Prepared
<1>3. Shown = {Ready}
  BY Constants DEF Init, Shown
<1>4. Used = FALSE /\ Disturbed = FALSE
  BY DEF Init, Used, Disturbed
<1> QED
  BY <1>1, <1>2, <1>3, <1>4 DEF Shelf!Init

\* The moves implement the abstract shelf: the plan is never out of sight, its
\* identity follows it, and it does not set out while a run uses it.
THEOREM Refinement == Spec => ShelfMoves
<1>1. ASSUME Inv, Inv', [Next]_vars PROVE [Shelf!Next]_(Shelf!vars)
  <2>1. TypeOK /\ Core /\ Held /\ Located /\ TypeOK'
    BY <1>1, InvParts DEF Inv, Core
  <2>2. CASE Disturbed'
    BY <2>1, <2>2, DisturbShelf DEF Shelf!Next
  <2>3. CASE ~Disturbed'
    <3>1. ~Disturbed
      BY <1>1, <2>1, <2>3, DisturbedStays
    <3>2. ~(Outsider \/ Promote)
      <4>1. edits \in Nat
        BY <2>1, LifecycleAssumption DEF TypeOK
      <4> QED
        BY <2>1, <2>3, <3>1, <4>1, MeddleType DEF Disturbed
    <3>3. Elsewhere \/ Complete \/ Asked \/ Crash \/ PowerFailure
      BY <1>1, <2>1, <3>2, Requests DEF Next, Recover, Elsewhere
    <3>4. CASE Crash
      BY <2>3, <3>1, <3>4, CrashShelf
    <3> QED
      BY <2>1, <2>3, <3>1, <3>3, <3>4, ElsewhereShelf, CompleteShelf, AskedShelf, PowerShelf
  <2> QED
    BY <2>2, <2>3
<1> QED
  BY <1>1, InitShelf, Invariant, PTL DEF Spec, ShelfMoves, Shelf!Spec

=============================================================================
