---------------------------- MODULE PlanLifecycle ----------------------------
(***************************************************************************)
(* Journaled moves of plan files between plans/in-progress and the places   *)
(* where plans are corrected (aflow/plan_lifecycle.py, and the identities   *)
(* of aflow/plan_backups.py), with those who ask for them: the plan service *)
(* that classifies and requeues, and a controller that classifies its       *)
(* failed run, each under the guard of aflow/project_admission.py, and a    *)
(* run that recovers what was interrupted before it starts.                 *)
(*                                                                         *)
(* A move is a link and an unlink: names and files are told apart, and a    *)
(* directory entry is durable from the next sync of its directory.  All of  *)
(* it is under one lock, so one process at a time has a state, its holder.  *)
(* Outsiders, among them the plan service's own update and promote, write,  *)
(* replace and remove files without that lock.                              *)
(*                                                                         *)
(* Left out: file names (a move keeps its name, so there is one), what a    *)
(* requeue asks of the contents and of the run's lineage, provenance of     *)
(* backups, symbolic links and malformed journals, promotions that fail.    *)
(***************************************************************************)
EXTENDS Naturals, FiniteSets

CONSTANTS
  Ready,        \* plans/in-progress
  Corrections,  \* plans/failed and plans/needs-plan-change
  Contents,     \* revisions of the plan
  MaxFiles,     \* bound: files
  MaxOwners,    \* bound: plan identities
  MaxEdits,     \* bound: what outsiders do
  MaxDeaths,    \* bound: deaths of a process, power failures
  None

ASSUME LifecycleAssumption ==
  /\ Ready \notin Corrections
  /\ None \notin Corrections \cup {Ready} \cup Contents \cup Nat
  /\ MaxFiles \in Nat \ {0} /\ MaxOwners \in Nat \ {0}
  /\ MaxEdits \in Nat /\ MaxDeaths \in Nat

Place == {Ready} \cup Corrections
File == 1..MaxFiles
Owner == 1..MaxOwners

\* A journal entry of a plan identity.
Record == [source : Place, destination : Place, revision : Contents, file : File,
           phase : {"prepared", "moved"}]
NoRecord == [phase |-> "none"]

VARIABLES
  entry,    \* the plan's entry in each directory: a file or None
  synced,   \* what a power failure leaves of it at least as likely
  bytes,    \* contents of each file; None before it exists
  journal,  \* per identity: its latest move
  owner,    \* current_path of each identity
  files, owners,  \* how many there have been
  pc,       \* where the holder of the lock is
  task,     \* what it came for
  moving,   \* the identity whose move it completes
  linked,   \* the file it has linked
  looked,   \* the plan service has recovered and may move next
  run,      \* the plan's run: "claimed" by admission, "recovered", or both and
            \* "executing"; "failed" until its controller has classified the plan
  edits, deaths,
  lapsed,   \* auxiliary: a process died before it could sync a link or an unlink
  overdue   \* auxiliary: the run was admitted over a prepared move

names == <<entry, synced>>
identities == <<owner, owners>>
holder == <<pc, task, moving, linked>>
plan == <<names, bytes, files, journal, identities>>
counts == <<edits, deaths, lapsed>>
processes == <<looked, run>>
vars == <<plan, holder, processes, counts, overdue>>

Init ==
  /\ \E c \in Contents : bytes = [f \in File |-> IF f = 1 THEN c ELSE None]
  /\ entry = [l \in Place |-> IF l = Ready THEN 1 ELSE None]
  /\ synced = entry
  /\ journal = [i \in Owner |-> NoRecord]
  /\ owners \in {0, 1}
  /\ owner = [i \in Owner |-> IF i <= owners THEN Ready ELSE None]
  /\ files = 1
  /\ pc = "idle" /\ task = "none" /\ moving = None /\ linked = None
  /\ run = "none" /\ looked = FALSE
  /\ edits = 0 /\ deaths = 0 /\ lapsed = FALSE /\ overdue = FALSE

Prepared(i) == journal[i].phase = "prepared"

\* plan_identity_for_path: the unique current owner of a place.
OwnersAt(l) == {i \in Owner : owner[i] = l}
OwnerAt(l) == IF Cardinality(OwnersAt(l)) = 1 THEN CHOOSE i \in Owner : owner[i] = l ELSE None

-----------------------------------------------------------------------------
(* The lock and what it is taken for *)

Take(for, at, i) ==
  /\ pc = "idle"
  /\ pc' = at /\ task' = for /\ moving' = i /\ linked' = None

\* The lock is released; a raise leaves everything as it is.
Leave == pc' = "idle" /\ task' = "none" /\ moving' = None /\ linked' = None

Goto(at) == pc' = at /\ UNCHANGED <<task, moving, linked>>

\* recover and recover_for_path: plan service accesses, and a run before it
\* starts.
BeginRecover ==
  /\ Take("recover", "recover", None)
  /\ looked' = FALSE
  /\ UNCHANGED <<plan, run, counts, overdue>>

BeginStart ==
  /\ run \in {"none", "failed", "claimed"}
  /\ Take("start", "recover", None)
  /\ UNCHANGED <<plan, processes, counts, overdue>>

RecoverNext(i) ==
  /\ pc = "recover" /\ Prepared(i)
  /\ pc' = "examine" /\ moving' = i
  /\ UNCHANGED <<plan, task, linked, processes, counts, overdue>>

\* A run that has recovered executes once it is admitted, if its plan is there.
EndRecover ==
  /\ pc = "recover" /\ \A i \in Owner : ~Prepared(i)
  /\ Leave
  /\ looked' = (looked \/ task = "recover")
  /\ run' = IF task # "start" THEN run
            ELSE IF run \in {"none", "failed"} THEN "recovered"
            ELSE IF run = "claimed" /\ entry[Ready] # None THEN "executing"
            ELSE "none"
  /\ UNCHANGED <<plan, counts, overdue>>

\* Faulty variant: a move is not kept from a plan that has a run.
UnclaimedAlways == TRUE

\* plan_lifecycle_guard: the plan has no claim, and gets none during the move.
Unclaimed == run \in {"none", "recovered", "failed"}

\* move is for one regular file of one name, under the revision its caller
\* has seen.
Movable(source, destination, expected) ==
  /\ entry[source] # None /\ entry[destination] = None
  /\ \A l \in Place \ {source} : entry[l] # entry[source]
  /\ bytes[entry[source]] = expected

\* ensure_plan_identity, durable before the journal entry; to begin again
\* after it is the same as to go on.
Identify(source, destination, expected) ==
  /\ pc = "idle" /\ Unclaimed
  /\ Movable(source, destination, expected) /\ OwnerAt(source) = None
  /\ owners < MaxOwners
  /\ owners' = owners + 1
  /\ owner' = [i \in Owner |-> IF i = owners + 1 THEN source
                               ELSE IF owner[i] = source THEN None ELSE owner[i]]
  /\ UNCHANGED <<names, bytes, files, journal, holder, processes, counts, overdue>>

Intent(source, destination, expected) ==
  [source |-> source, destination |-> destination, revision |-> expected,
   file |-> entry[source], phase |-> "prepared"]

\* The intent is durable before the file is touched.  An earlier one is
\* completed first, and the new one refused.
Prepare(source, destination, expected) ==
  LET i == OwnerAt(source)
  IN
  /\ Unclaimed
  /\ Movable(source, destination, expected) /\ i # None
  /\ Take("move", "examine", i)
  /\ journal' = IF Prepared(i) THEN journal
                ELSE [journal EXCEPT ![i] = Intent(source, destination, expected)]
  /\ UNCHANGED <<names, bytes, files, identities>>

\* A request that comes again after its move: its journal entry is completed
\* once more.
Replay(source, destination, expected) ==
  /\ Unclaimed /\ entry[source] = None
  /\ \E i \in Owner :
       /\ journal[i].phase # "none"
       /\ journal[i].source = source /\ journal[i].destination = destination
       /\ journal[i].revision = expected
       /\ Take("move", "examine", i)
  /\ UNCHANGED plan

Move(source, destination, expected) ==
  Prepare(source, destination, expected) \/ Replay(source, destination, expected)

\* The plan service's classify; it has recovered before.
Classify ==
  /\ looked
  /\ \E destination \in Corrections, c \in Contents :
       \/ Identify(Ready, destination, c)
       \/ Move(Ready, destination, c) /\ looked' = FALSE
          /\ UNCHANGED <<run, counts, overdue>>

\* _classify_failed_original_plan, by the controller whose run has failed, or
\* found its plan invalid before it was admitted.
ClassifyFailed ==
  /\ run \in {"failed", "recovered"}
  /\ \E destination \in Corrections, c \in Contents :
       \/ Identify(Ready, destination, c)
       \/ Move(Ready, destination, c) /\ run' = "none"
          /\ UNCHANGED <<looked, counts, overdue>>

\* requeue: of a plan whose journal has it where it is.
CurrentPlace(i) ==
  IF journal[i].phase = "moved" THEN journal[i].destination ELSE journal[i].source

Requeue ==
  /\ looked
  /\ \E source \in Corrections, c \in Contents :
       /\ OwnerAt(source) # None /\ journal[OwnerAt(source)].phase # "none"
       /\ CurrentPlace(OwnerAt(source)) = source
       /\ Prepare(source, Ready, c)
  /\ looked' = FALSE
  /\ UNCHANGED <<run, counts, overdue>>

-----------------------------------------------------------------------------
(* _complete *)

R == journal[moving]

Fits(f) == f = R.file /\ bytes[f] = R.revision

\* Faulty variant: a move without its source is a conflict.
ExamineSource ==
  /\ pc = "examine"
  /\ IF /\ \A f \in {entry[R.source], entry[R.destination]} \ {None} : Fits(f)
        /\ entry[R.source] # None
     THEN Goto(IF entry[R.destination] = None THEN "link" ELSE "check")
     ELSE Leave
  /\ UNCHANGED <<plan, processes, counts, overdue>>

\* What is at either end must be the recorded file in the recorded revision.
Examine ==
  LET here == entry[R.source]
      there == entry[R.destination]
  IN
  /\ pc = "examine"
  /\ IF /\ \A f \in {here, there} \ {None} : Fits(f)
        /\ here # None \/ there # None
     THEN Goto(IF here = None THEN "own" ELSE IF there = None THEN "link" ELSE "check")
     ELSE Leave
  /\ UNCHANGED <<plan, processes, counts, overdue>>

Link ==
  LET f == entry[R.source]
  IN
  /\ pc = "link"
  /\ IF f # None /\ entry[R.destination] = None
     THEN /\ entry' = [entry EXCEPT ![R.destination] = f]
          /\ pc' = "sync" /\ linked' = f /\ UNCHANGED <<task, moving>>
     ELSE Leave /\ UNCHANGED entry
  /\ UNCHANGED <<synced, bytes, files, journal, identities, processes, counts, overdue>>

\* Faulty variant: the link is not on disk when its source goes.
SyncNothing ==
  /\ pc = "sync"
  /\ Goto("verify")
  /\ UNCHANGED <<plan, processes, counts, overdue>>

Sync ==
  /\ pc = "sync"
  /\ Goto("verify")
  /\ synced' = [synced EXCEPT ![R.destination] = entry[R.destination]]
  /\ UNCHANGED <<entry, bytes, files, journal, identities, processes, counts, overdue>>

\* The link is of the file and revision it was to be of, or is taken back.
Verify ==
  LET here == entry[R.source]
      there == entry[R.destination]
  IN
  /\ pc = "verify"
  /\ IF here # None /\ here = there /\ there = linked /\ bytes[there] = R.revision
     THEN Goto("check") /\ UNCHANGED names
     ELSE /\ Leave
          /\ IF here = None \/ there = None THEN UNCHANGED names
             ELSE /\ entry' = [entry EXCEPT ![R.destination] = None]
                  /\ synced' = [synced EXCEPT ![R.destination] = None]
  /\ UNCHANGED <<bytes, files, journal, identities, processes, counts, overdue>>

\* Faulty variant: the source is removed whatever it is by now.
CheckNothing ==
  /\ pc = "check"
  /\ Goto("unlink")
  /\ UNCHANGED <<plan, processes, counts, overdue>>

Check ==
  LET here == entry[R.source]
  IN
  /\ pc = "check"
  /\ IF here = None THEN Goto("own")
     ELSE IF here = entry[R.destination] THEN Goto("unlink") ELSE Leave
  /\ UNCHANGED <<plan, processes, counts, overdue>>

Unlink ==
  /\ pc = "unlink"
  /\ Goto("syncUnlink")
  /\ entry' = [entry EXCEPT ![R.source] = None]
  /\ UNCHANGED <<synced, bytes, files, journal, identities, processes, counts, overdue>>

SyncUnlink ==
  /\ pc = "syncUnlink"
  /\ Goto("own")
  /\ synced' = [synced EXCEPT ![R.source] = entry[R.source]]
  /\ UNCHANGED <<entry, bytes, files, journal, identities, processes, counts, overdue>>

\* Faulty variant: the identity stays where it was.
OwnNothing ==
  /\ pc = "own"
  /\ IF entry[R.destination] # None THEN Goto("record") ELSE Leave
  /\ UNCHANGED <<plan, processes, counts, overdue>>

\* record_plan_lifecycle_move: the source's owner, if it has one, goes along.
Own ==
  /\ pc = "own"
  /\ IF entry[R.destination] # None /\ Cardinality(OwnersAt(R.source)) <= 1
     THEN /\ Goto("record")
          /\ owner' = [i \in Owner |-> IF owner[i] = R.source THEN R.destination ELSE owner[i]]
     ELSE Leave /\ UNCHANGED owner
  /\ UNCHANGED <<names, bytes, files, journal, owners, processes, counts, overdue>>

\* Faulty variant: a phase that _read does not know.
DoneUnknown ==
  /\ pc = "record"
  /\ journal' = [journal EXCEPT ![moving].phase = "done"]
  /\ Leave
  /\ UNCHANGED <<names, bytes, files, identities, processes, counts, overdue>>

\* Only now is the move done; a recovery goes on with the next one.
Done ==
  /\ pc = "record"
  /\ journal' = [journal EXCEPT ![moving].phase = "moved"]
  /\ IF task \in {"recover", "start"}
     THEN pc' = "recover" /\ moving' = None /\ linked' = None /\ UNCHANGED task
     ELSE Leave
  /\ UNCHANGED <<names, bytes, files, identities, processes, counts, overdue>>

Complete ==
  \/ Examine \/ Link \/ Sync \/ Verify \/ Check \/ Unlink \/ SyncUnlink \/ Own \/ Done

-----------------------------------------------------------------------------
(* The run *)

Guarded == task = "move"

\* Admission: the daemon asks for it before it starts the run's controller,
\* a direct run asks for it itself after its recovery.
Claim ==
  /\ run \in {"none", "failed", "recovered"} /\ entry[Ready] # None /\ ~Guarded
  /\ task # "start"
  /\ run' = IF run = "recovered" THEN "executing" ELSE "claimed"
  /\ overdue' = (run = "recovered" /\ \E i \in Owner : Prepared(i))
  /\ UNCHANGED <<plan, holder, looked, counts>>

\* The run ends, and its claim with it.
EndRun ==
  /\ run \in {"claimed", "executing"} /\ task # "start"
  /\ run' \in IF run = "executing" THEN {"none", "failed"} ELSE {"none"}
  /\ UNCHANGED <<plan, holder, looked, counts, overdue>>

\* The claim of a dead controller stays.
Orphaned ==
  IF run = "executing" THEN "claimed" ELSE IF run = "claimed" THEN run ELSE "none"

RunDies ==
  /\ deaths < MaxDeaths /\ deaths' = deaths + 1
  /\ run \in {"recovered", "executing", "failed"} /\ task # "start"
  /\ run' = Orphaned
  /\ UNCHANGED <<plan, holder, looked, edits, lapsed, overdue>>

-----------------------------------------------------------------------------
(* Deaths and outsiders *)

\* The holder dies, or ends with the error of any of its calls.
Crash ==
  /\ deaths < MaxDeaths /\ deaths' = deaths + 1
  /\ pc # "idle"
  /\ Leave
  /\ lapsed' = (lapsed \/ pc \in {"sync", "syncUnlink"})
  /\ UNCHANGED <<plan, processes, edits, overdue>>

\* Each unsynced entry is as it was or as it has become.
PowerFailure ==
  /\ deaths < MaxDeaths /\ deaths' = deaths + 1
  /\ entry' \in {e \in [Place -> File \cup {None}] : \A l \in Place : e[l] \in {entry[l], synced[l]}}
  /\ synced' = entry'
  /\ Leave
  /\ run' = Orphaned /\ looked' = FALSE
  /\ UNCHANGED <<bytes, files, journal, identities, edits, lapsed, overdue>>

\* Where an outsider meets a check that is already past: between the last look
\* at both names and the unlink, and between the link and the look at the
\* destination, which takes a replacement for the link it made.
Unguarded(l) ==
  \/ pc = "unlink" /\ l \in {R.source, R.destination}
  \/ pc \in {"sync", "verify"} /\ l = R.destination

\* A name gets another file, or none.
Rename(l, f) ==
  /\ ~Unguarded(l)
  /\ entry' = [entry EXCEPT ![l] = f]
  /\ synced' = [synced EXCEPT ![l] = f]

NewFile(l, c) ==
  /\ files < MaxFiles
  /\ files' = files + 1
  /\ bytes' = [bytes EXCEPT ![files + 1] = c]
  /\ Rename(l, files + 1)

Meddle == /\ edits < MaxEdits /\ edits' = edits + 1
          /\ UNCHANGED <<journal, holder, processes, deaths, lapsed, overdue>>

\* Somebody writes into a plan, replaces or creates one, or removes it.
Outsider ==
  /\ Meddle
  /\ \E l \in Place :
       \/ /\ entry[l] # None
          /\ \E c \in Contents : bytes' = [bytes EXCEPT ![entry[l]] = c]
          /\ UNCHANGED <<names, files, identities>>
       \/ /\ \E c \in Contents : NewFile(l, c)
          /\ UNCHANGED identities
       \/ /\ entry[l] # None /\ Rename(l, None)
          /\ UNCHANGED <<bytes, files, identities>>

\* The plan service promotes another plan of that name, with its identity.
Promote ==
  /\ Meddle
  /\ entry[Ready] = None
  /\ \E c \in Contents : NewFile(Ready, c)
  /\ owners < MaxOwners /\ owners' = owners + 1
  /\ owner' = [owner EXCEPT ![owners + 1] = Ready]

Recover == BeginRecover \/ (\E i \in Owner : RecoverNext(i)) \/ EndRecover \/ Complete

Next ==
  \/ Recover \/ BeginStart
  \/ Classify \/ ClassifyFailed \/ Requeue
  \/ Claim \/ EndRun \/ RunDies
  \/ Crash \/ PowerFailure \/ Outsider \/ Promote

\* Fairness: the plan service reads the plans again and again, and the holder
\* goes on.
Spec == Init /\ [][Next]_vars /\ WF_vars(Recover)

-----------------------------------------------------------------------------
(* Properties *)

TypeOK ==
  /\ entry \in [Place -> File \cup {None}] /\ synced \in [Place -> File \cup {None}]
  /\ bytes \in [File -> Contents \cup {None}]
  /\ journal \in [Owner -> Record \cup {NoRecord}]
  /\ owner \in [Owner -> Place \cup {None}]
  /\ files \in File /\ owners \in 0..MaxOwners
  /\ pc \in {"idle", "recover", "examine", "link", "sync", "verify", "check", "unlink",
             "syncUnlink", "own", "record"}
  /\ task \in {"none", "recover", "start", "move"}
  /\ moving \in Owner \cup {None} /\ linked \in File \cup {None}
  /\ run \in {"none", "recovered", "claimed", "executing", "failed"} /\ looked \in BOOLEAN
  /\ edits \in 0..MaxEdits /\ deaths \in 0..MaxDeaths
  /\ lapsed \in BOOLEAN /\ overdue \in BOOLEAN

\* Somebody has edited, a link was never synced, or an interrupted move left
\* the plan without its identity and the next one gave it a second one.
Disturbed == edits > 0 \/ lapsed \/ owners > 1

\* A move recorded as done is done for good: the file is where the journal
\* says and nowhere else, and so is the plan's identity, whichever step was the
\* last one of any process before (plan_lifecycle.py:203-279).
MovedIsTrue ==
  ~Disturbed =>
    \A i \in Owner : journal[i].phase = "moved" =>
      LET r == journal[i]
      IN
      /\ entry[r.destination] = r.file /\ synced[r.destination] = r.file
      /\ \A l \in Place \ {r.destination} : r.file \notin {entry[l], synced[l]}
      /\ owner[i] = r.destination

\* A link whose source somebody has replaced in the meantime is not the plan.
Superseded(f) == pc = "verify" /\ f = linked /\ entry[R.source] # f

Kept(f) == (\E l \in Place : entry[l] = f) /\ (\E l \in Place : synced[l] = f)

\* No move, recovery or power failure takes the last durable name of a file,
\* whatever outsiders have put in its way (plan_lifecycle.py:224-267).
NothingLost ==
  [][edits' = edits /\ ~lapsed =>
       \A f \in File : Kept(f) /\ ~Superseded(f) => Kept(f)']_vars

\* A run that executes keeps its plan: neither a request nor the recovery of
\* one moves it, unless the run was admitted over an interrupted move
\* (project_admission.py:1024-1046, workflow.py:18424).
RunKeepsPlan ==
  [][run = "executing" /\ run' = "executing" /\ edits' = edits /\ ~overdue =>
       entry'[Ready] = entry[Ready]]_vars

\* What was prepared is completed, however often it is interrupted.
MovesFinish ==
  \A i \in Owner : Prepared(i) ~> ~Prepared(i) \/ Disturbed

-----------------------------------------------------------------------------
(* The moves implement an abstract shelf *)

\* Where the latest completed move has put the plan, and where the one under
\* way puts it.
Home == IF journal[1].phase = "none" THEN Ready ELSE CurrentPlace(1)
Aim == IF Prepared(1) THEN journal[1].destination ELSE None
Shown == {l \in Place : entry[l] # None}
Used == run = "executing" /\ ~overdue

Shelf == INSTANCE PlanShelf WITH
  Places <- Place, home <- Home, aim <- Aim, shown <- Shown, named <- owner[1],
  used <- Used, disturbed <- Disturbed

\* Every step of a move, a request, a recovery, a run, a death or a power
\* failure moves the plan on the shelf or leaves it alone: it is never out of
\* sight, its identity never runs ahead of it, and it does not set out while a
\* run uses it (plan_lifecycle.py:203-386).
ShelfMoves == Shelf!Spec

=============================================================================
