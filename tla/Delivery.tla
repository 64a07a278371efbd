------------------------------- MODULE Delivery -------------------------------
(***************************************************************************)
(* Delivery of finished plans: _deliver_completed_plan and its terminal     *)
(* resume (aflow/workflow.py, aflow/cli.py), which publish the approved     *)
(* commit, move the plan to plans/done, record that move in a lifecycle     *)
(* commit and publish that (aflow/publication.py).                          *)
(*                                                                         *)
(* Runs of one project deliver from one checkout: its history, index and   *)
(* files are shared, and only publishing takes a lock.  Everything else is *)
(* guarded by the receipt, publication.json, which each step writes before *)
(* or after one effect; a run may fail or die between any two of them.     *)
(* Outsiders edit, stage, commit and push meanwhile.                       *)
(*                                                                         *)
(* Left out: worktree executions whose own HEAD is published (the checkout *)
(* is the project's here), partial publication settings, symbolic links.   *)
(***************************************************************************)
EXTENDS Naturals, Sequences, FiniteSets

CONSTANTS
  Runs,         \* runs that finish their plans
  Tracked,      \* those whose plan is tracked by Git
  Either,       \* those whose plan may be
  Restored,     \* those whose plan may be in Done from an earlier delivery
  Ignored,      \* paths that Git ignores
  Granted,      \* aflow.publishRemote and aflow.publishBranch are set
  Outsiders,    \* outsiders touch the checkout and the remote
  MaxTrouble,   \* bound: failed calls, deaths and outsiders' steps
  Nobody

\* A plan's two places, and a file that is none of aflow's.
Source(r) == <<r, "in-progress">>
Done(r) == <<r, "done">>
Other == <<Nobody, "other">>
Path == {Source(r) : r \in Runs} \cup {Done(r) : r \in Runs} \cup {Other}
Owned(r) == {Source(r), Done(r)}

Content == {"absent", "final", "edited"}
Tree == [Path -> Content]

ASSUME DeliveryAssumption ==
  /\ Tracked \subseteq Runs /\ Either \subseteq Runs /\ Restored \subseteq Runs
  /\ Ignored \subseteq Path /\ Granted \in BOOLEAN
  /\ Outsiders \in BOOLEAN /\ MaxTrouble \in Nat /\ Nobody \notin Runs

Commit == [kind : {"other", "code", "lifecycle"}, by : Runs \cup {Nobody},
           paths : SUBSET Path, tree : Tree]

\* publication.json: the publication, the plan lifecycle, its staging.
Receipt ==
  [status : {"none", "pending", "failed", "published"}, candidate : Nat,
   phase : {"none", "prepared", "moved", "commit_pending", "committed"},
   content : Content, sourceBlob : Content, doneTracked : BOOLEAN, parent : Nat,
   staging : {"none", "source_pending", "destination_pending", "ready"},
   doneBefore : Content, doneExpected : Content,
   doneShould : BOOLEAN, doneStaged : BOOLEAN,
   paths : SUBSET Path, doneAfter : Content, commit : Nat]

NoReceipt ==
  [status |-> "none", candidate |-> 0, phase |-> "none", content |-> "absent",
   sourceBlob |-> "absent", doneTracked |-> FALSE, parent |-> 0, staging |-> "none",
   doneBefore |-> "absent", doneExpected |-> "absent", doneShould |-> FALSE,
   doneStaged |-> FALSE,
   paths |-> {}, doneAfter |-> "absent", commit |-> 0]

VARIABLES
  main,     \* commits of the checkout's branch; the last is HEAD
  index,    \* Git's index
  work,     \* the files of the checkout
  remote,   \* published branch: how far into main, and foreign commits
  receipt,  \* per run: the receipt of the run that owns its delivery
  owes,     \* a failed receipt is left behind in the run's lineage
  pc,       \* per run: where it is in its delivery
  leg,      \* the delivery phase a failure is recorded under
  seen,     \* the Git state it read last, index entries and staged paths
  fetched,  \* the remote as it fetched it
  lock,     \* holder of the publication lock
  faults, meddled

repo == <<main, index, work>>
durable == <<receipt, owes>>
counts == <<faults, meddled>>
vars == <<repo, remote, durable, pc, leg, seen, fetched, lock, counts>>

Tip == Len(main)
TipTree == main[Tip].tree
Staged == {p \in Path : index[p] # TipTree[p]}

Final(paths) == [p \in Path |-> IF p \in paths THEN "final" ELSE "absent"]

Init ==
  /\ \E some \in SUBSET Either, restored \in SUBSET Restored :
       LET tracked == Tracked \cup some
           sources == {Source(r) : r \in Runs}
           dones == {Done(r) : r \in restored}
           tree == Final({p \in sources \cup dones : p[1] \in tracked})
       IN
       /\ main = <<[kind |-> "other", by |-> Nobody, paths |-> {}, tree |-> tree]>>
       /\ index = tree
       /\ work = Final(sources \cup dones)
  /\ remote = [own |-> 1, foreign |-> 0]
  /\ receipt = [r \in Runs |-> NoReceipt]
  /\ owes = [r \in Runs |-> FALSE]
  /\ pc = [r \in Runs |-> "working"]
  /\ leg = [r \in Runs |-> "approved"]
  /\ seen = [r \in Runs |-> [source |-> "absent", done |-> "absent", staged |-> {}]]
  /\ fetched = [r \in Runs |-> remote]
  /\ lock = Nobody
  /\ faults = 0 /\ meddled = 0

Goto(r, from, to) == pc[r] \in from /\ pc' = [pc EXCEPT ![r] = to]

Write(r, new) == receipt' = [receipt EXCEPT ![r] = new]

Unlock(r) == lock' = IF lock = r THEN Nobody ELSE lock

\* _CompletedPlanDeliveryError: the phase is recorded in run.json.
Fails(r) == pc' = [pc EXCEPT ![r] = "failed"] /\ Unlock(r)

\* What finalize_completed_plan reads of Git.
GitState(r) == [source |-> index[Source(r)], done |-> index[Done(r)], staged |-> Staged]

Look(r) == seen' = [seen EXCEPT ![r] = GitState(r)]

-----------------------------------------------------------------------------
(* Publication: publish_completed_run *)

\* Faulty variant: delivery starts with the plan.
ApprovePlanFirst(r) ==
  /\ Goto(r, {"working"}, "finalize")
  /\ main' = Append(main, [kind |-> "code", by |-> r, paths |-> {}, tree |-> TipTree])
  /\ leg' = [leg EXCEPT ![r] = "lifecycle"]
  /\ UNCHANGED <<index, work, remote, durable, seen, fetched, lock, counts>>

\* The last turn's commits are in; delivery begins.
Approve(r) ==
  /\ Goto(r, {"working"}, IF Granted THEN "publish" ELSE "finalize")
  /\ main' = Append(main, [kind |-> "code", by |-> r, paths |-> {}, tree |-> TipTree])
  /\ leg' = [leg EXCEPT ![r] = IF Granted THEN "approved" ELSE "lifecycle"]
  /\ UNCHANGED <<index, work, remote, durable, seen, fetched, lock, counts>>

\* A failed receipt of its lineage that no published one resolves.
Unresolved(r) ==
  receipt[r].status = "failed" \/ (owes[r] /\ receipt[r].status # "published")

\* Faulty variant: publishers are not serialized.
AdmitUnlocked(r) ==
  /\ pc[r] = "publish"
  /\ IF \E s \in Runs \ {r} : Unresolved(s)
     THEN Fails(r)
     ELSE Goto(r, {"publish"}, "candidate") /\ UNCHANGED lock
  /\ UNCHANGED <<repo, remote, durable, leg, seen, fetched, counts>>

\* The lock, and _require_no_other_failed_publication, which refuses before
\* anything is written.
Admit(r) ==
  /\ pc[r] = "publish" /\ lock = Nobody
  /\ IF \E s \in Runs \ {r} : Unresolved(s)
     THEN Fails(r)
     ELSE Goto(r, {"publish"}, "candidate") /\ lock' = r
  /\ UNCHANGED <<repo, remote, durable, leg, seen, fetched, counts>>

\* git status --porcelain --untracked-files=normal is empty.
Clean ==
  \A p \in Path : \/ p \in Ignored /\ index[p] = "absent" /\ TipTree[p] = "absent"
                  \/ work[p] = index[p] /\ p \notin Staged

Refused(r) ==
  /\ Write(r, [receipt[r] EXCEPT !.status = "failed"])
  /\ Fails(r)

Candidate(r) ==
  /\ pc[r] = "candidate"
  /\ IF Clean
     THEN /\ Goto(r, {"candidate"}, "fetch")
          /\ Write(r, [receipt[r] EXCEPT !.status = "pending", !.candidate = Tip])
          /\ UNCHANGED lock
     ELSE Refused(r)
  /\ UNCHANGED <<repo, remote, owes, leg, seen, fetched, counts>>

Fetch(r) ==
  /\ Goto(r, {"fetch"}, "push")
  /\ fetched' = [fetched EXCEPT ![r] = remote]
  /\ UNCHANGED <<repo, remote, durable, leg, seen, lock, counts>>

\* A fast-forward push of the candidate, or of its merge with accepted
\* foreign history; the remote refuses it when it has moved on.
Push(r) ==
  /\ receipt[r].candidate > fetched[r].own /\ remote = fetched[r]
  /\ Goto(r, {"push"}, "pushed")
  /\ remote' = [remote EXCEPT !.own = receipt[r].candidate]
  /\ UNCHANGED <<repo, durable, leg, seen, fetched, lock, counts>>

\* The push is rejected, or the merge conflicts and keeps its checkout.
PushFails(r) ==
  /\ pc[r] = "push" /\ receipt[r].candidate > fetched[r].own
  /\ remote # fetched[r] \/ fetched[r].foreign > 0
  /\ Refused(r)
  /\ UNCHANGED <<repo, remote, owes, leg, seen, fetched, counts>>

\* Faulty variant: history that the candidate extends counts as published.
PublishedUnpushed(r) ==
  /\ Goto(r, {"push"}, IF leg[r] = "approved" THEN "finalize" ELSE "completed")
  /\ leg' = [leg EXCEPT ![r] = "lifecycle"]
  /\ Write(r, [receipt[r] EXCEPT !.status = "published"])
  /\ Unlock(r)
  /\ UNCHANGED <<repo, remote, owes, seen, fetched, counts>>

\* Pushed, or found in the remote's history already.
Published(r) ==
  /\ \/ pc[r] = "pushed"
     \/ pc[r] = "push" /\ receipt[r].candidate <= fetched[r].own
  /\ Goto(r, {pc[r]}, IF leg[r] = "approved" THEN "finalize" ELSE "completed")
  /\ leg' = [leg EXCEPT ![r] = "lifecycle"]
  /\ Write(r, [receipt[r] EXCEPT !.status = "published"])
  /\ Unlock(r)
  /\ UNCHANGED <<repo, remote, owes, seen, fetched, counts>>

-----------------------------------------------------------------------------
(* The plan's move: finalize_completed_plan *)

\* _require_record_bytes
Recorded(r, p) == work[p] = receipt[r].content

\* No record: ownership needs a clean index, the source, and no other Done plan.
Prepare(r) ==
  /\ pc[r] = "finalize" /\ receipt[r].phase = "none"
  /\ Look(r)
  /\ IF /\ Staged = {} /\ work[Source(r)] # "absent"
        /\ work[Done(r)] \in {"absent", work[Source(r)]}
     THEN /\ Goto(r, {"finalize"}, "move")
          /\ Write(r, [receipt[r] EXCEPT
               !.phase = "prepared", !.content = work[Source(r)],
               !.sourceBlob = index[Source(r)], !.doneTracked = index[Done(r)] # "absent",
               !.parent = Tip])
          /\ UNCHANGED lock
     ELSE Fails(r) /\ UNCHANGED receipt
  /\ UNCHANGED <<repo, remote, owes, leg, fetched, counts>>

\* Faulty variant: the staging intent is not consulted.
ResumableUnstaged(r) ==
  LET k == receipt[r]
  IN
  /\ Staged \subseteq Owned(r)
  /\ k.phase = "committed" \/ index[Source(r)] = k.sourceBlob
  /\ work[Source(r)] # "absent" => k.phase = "prepared" /\ Recorded(r, Source(r))
  /\ work[Source(r)] = "absent" => Recorded(r, Done(r))

\* A record, continued only if index and files are what it says.
Resumable(r) ==
  LET k == receipt[r]
  IN
  /\ Staged \subseteq Owned(r)
  /\ k.phase = "committed" \/ index[Source(r)] = k.sourceBlob
     \/ (k.sourceBlob # "absent" /\ k.staging # "none")
  /\ work[Source(r)] # "absent" => k.phase = "prepared" /\ Recorded(r, Source(r))
  /\ work[Source(r)] = "absent" => Recorded(r, Done(r))

Continue(r) ==
  /\ pc[r] = "finalize" /\ receipt[r].phase # "none"
  /\ Look(r)
  /\ IF Resumable(r)
     THEN /\ Goto(r, {"finalize"}, IF receipt[r].phase # "prepared" THEN "head"
                                   ELSE IF work[Source(r)] # "absent" THEN "move" ELSE "moved")
          /\ UNCHANGED lock
     ELSE Fails(r)
  /\ UNCHANGED <<repo, remote, durable, leg, fetched, counts>>

\* _move_plan_bytes: an identical Done plan is reused, another one refused;
\* what arrived is compared afterwards.
Move(r) ==
  LET reuse == work[Done(r)] # "absent"
      bytes == IF reuse THEN work[Done(r)] ELSE work[Source(r)]
  IN
  /\ pc[r] = "move"
  /\ work' = IF reuse /\ bytes # receipt[r].content THEN work
             ELSE [work EXCEPT ![Source(r)] = "absent", ![Done(r)] = bytes]
  /\ IF bytes = receipt[r].content
     THEN Goto(r, {"move"}, "moved") /\ UNCHANGED lock
     ELSE Fails(r)
  /\ UNCHANGED <<main, index, remote, durable, leg, seen, fetched, counts>>

\* Faulty variant: a phase that _lifecycle_record does not know.
MovedUnknown(r) ==
  /\ Goto(r, {"moved"}, "head")
  /\ Write(r, [receipt[r] EXCEPT !.phase = "done"])
  /\ UNCHANGED <<repo, remote, owes, leg, seen, fetched, lock, counts>>

Moved(r) ==
  /\ Goto(r, {"moved"}, "head")
  /\ Write(r, [receipt[r] EXCEPT !.phase = "moved"])
  /\ UNCHANGED <<repo, remote, owes, leg, seen, fetched, lock, counts>>

-----------------------------------------------------------------------------
(* Its lifecycle commit *)

\* Faulty variant: the paths of the commit are not compared.
CommitMatchesAnyPaths(r, n, paths, blob) ==
  /\ n = receipt[r].parent + 1 /\ main[n].kind = "lifecycle"
  /\ receipt[r].sourceBlob # "absent" => main[n].tree[Source(r)] = "absent"
  /\ blob # "absent" => main[n].tree[Done(r)] = blob

\* _commit_matches: commit n is a lifecycle commit on the recorded parent, of
\* owned paths only, and of the expected ones and the expected Done blob where
\* these are known.
CommitMatches(r, n, paths, blob) ==
  LET c == main[n]
  IN
  /\ n = receipt[r].parent + 1 /\ c.kind = "lifecycle"
  /\ c.paths # {} /\ c.paths \subseteq Owned(r)
  /\ paths # {} => c.paths = paths
  /\ receipt[r].sourceBlob # "absent" => c.tree[Source(r)] = "absent"
  /\ blob # "absent" => c.tree[Done(r)] = blob

\* Faulty variant: the lifecycle commit stays local.
AfterCommitLocal == "completed"

\* Delivered; a lifecycle commit is then published too.
AfterCommit == IF Granted THEN "publish" ELSE "completed"

\* A plan that Git does not know is delivered by its move.
Known(r) == receipt[r].sourceBlob # "absent" \/ receipt[r].doneTracked

Untracked(r) ==
  /\ receipt[r].phase # "committed" /\ ~Known(r)
  /\ Goto(r, {"head"}, "completed")
  /\ UNCHANGED <<repo, remote, durable, leg, seen, fetched, lock, counts>>

\* The commit was made before: the record proves it, or catches up with it.
Recover(r) ==
  LET k == receipt[r]
      n == IF k.phase = "committed" THEN k.commit ELSE Tip
  IN
  /\ k.phase = "committed" \/ (Known(r) /\ Tip # k.parent)
  /\ pc[r] = "head"
  /\ IF CommitMatches(r, n, k.paths, k.doneAfter)
     THEN /\ Goto(r, {"head"}, AfterCommit) /\ UNCHANGED lock
          /\ Write(r, [k EXCEPT !.phase = "committed", !.commit = n])
     ELSE Fails(r) /\ UNCHANGED receipt
  /\ UNCHANGED <<repo, remote, owes, leg, seen, fetched, counts>>

\* The staging intent, from the state read at the start, unless recorded.
\* (The source is to be staged exactly when it is tracked; it was not staged
\* before, being as it is in the parent.)
Intend(r) ==
  LET k == receipt[r]
      expected == IF k.doneTracked \/ Done(r) \notin Ignored THEN work[Done(r)] ELSE "absent"
      should == expected # "absent" /\ (k.doneTracked => expected # seen[r].done)
  IN
  /\ k.phase # "committed" /\ Known(r) /\ Tip = k.parent
  /\ Goto(r, {"head"}, "source")
  /\ IF k.staging # "none" THEN UNCHANGED receipt
     ELSE Write(r, [k EXCEPT
            !.staging = IF k.sourceBlob # "absent" THEN "source_pending"
                        ELSE IF should THEN "destination_pending" ELSE "ready",
            !.doneBefore = seen[r].done, !.doneExpected = expected, !.doneShould = should,
            !.doneStaged = Done(r) \in seen[r].staged])
  /\ UNCHANGED <<repo, remote, owes, leg, seen, fetched, lock, counts>>

\* _source_stage_complete and _destination_stage_complete on Git state g:
\* staged as intended, still as before, or neither, which diverges.
SourceStaged(r, g) ==
  g.source = "absent" /\ (Source(r) \in g.staged <=> receipt[r].sourceBlob # "absent")

SourceBefore(r, g) ==
  /\ receipt[r].sourceBlob # "absent" /\ g.source = receipt[r].sourceBlob
  /\ Source(r) \notin g.staged

DoneIsStaged(r, g) ==
  LET k == receipt[r]
  IN
  IF k.doneShould
  THEN Done(r) \in g.staged /\ g.done = k.doneExpected
  ELSE /\ g.done = k.doneBefore
       /\ Done(r) \in g.staged => k.doneStaged /\ g.done = k.doneExpected

DoneBefore(r, g) ==
  receipt[r].doneShould /\ Done(r) \notin g.staged /\ g.done = receipt[r].doneBefore

\* git add -u of the source.
StageSource(r) ==
  /\ receipt[r].staging = "source_pending" /\ SourceBefore(r, seen[r])
  /\ Goto(r, {"source"}, "sourceAdded")
  /\ index' = IF index[Source(r)] = "absent" THEN index
              ELSE [index EXCEPT ![Source(r)] = work[Source(r)]]
  /\ UNCHANGED <<main, work, remote, durable, leg, seen, fetched, lock, counts>>

\* The state as read before, or anew once staged.
State(r) == IF pc[r] \in {"sourceAdded", "doneAdded"} THEN GitState(r) ELSE seen[r]

SourceChecked(r) ==
  LET k == receipt[r]
      todo == pc[r] = "source" /\ k.staging = "source_pending" /\ SourceBefore(r, seen[r])
  IN
  /\ pc[r] \in {"source", "sourceAdded"} /\ ~todo
  /\ seen' = [seen EXCEPT ![r] = State(r)]
  /\ IF ~SourceStaged(r, State(r)) THEN Fails(r) /\ UNCHANGED receipt
     ELSE /\ Goto(r, {pc[r]}, "done") /\ UNCHANGED lock
          /\ Write(r, IF k.staging # "source_pending" THEN k
                      ELSE [k EXCEPT !.staging = IF k.doneShould THEN "destination_pending"
                                                 ELSE "ready"])
  /\ UNCHANGED <<repo, remote, owes, leg, fetched, counts>>

\* git add -A of the Done plan.
StageDone(r) ==
  /\ receipt[r].staging = "destination_pending" /\ DoneBefore(r, seen[r])
  /\ Goto(r, {"done"}, "doneAdded")
  /\ index' = [index EXCEPT ![Done(r)] = work[Done(r)]]
  /\ UNCHANGED <<main, work, remote, durable, leg, seen, fetched, lock, counts>>

DoneChecked(r) ==
  LET k == receipt[r]
      todo == pc[r] = "done" /\ k.staging = "destination_pending" /\ DoneBefore(r, seen[r])
  IN
  /\ pc[r] \in {"done", "doneAdded"} /\ ~todo
  /\ seen' = [seen EXCEPT ![r] = State(r)]
  /\ IF DoneIsStaged(r, State(r)) \/ (k.staging = "ready" /\ DoneBefore(r, State(r)))
     THEN /\ Goto(r, {pc[r]}, "record") /\ UNCHANGED lock
          /\ Write(r, [k EXCEPT !.staging = "ready"])
     ELSE Fails(r) /\ UNCHANGED receipt
  /\ UNCHANGED <<repo, remote, owes, leg, fetched, counts>>

\* The paths of the commit to be made; nothing staged is nothing to commit.
Record(r) ==
  LET k == receipt[r]
      paths == seen[r].staged
      known == Done(r) \in paths
  IN
  /\ pc[r] = "record"
  /\ seen' = [seen EXCEPT ![r].done = IF known THEN index[Done(r)] ELSE @]
  /\ IF \/ ~(paths \subseteq Owned(r))
        \/ paths # {} /\ k.paths \notin {{}, paths}
        \/ known /\ index[Done(r)] = "absent"
     THEN Fails(r) /\ UNCHANGED receipt
     ELSE /\ Goto(r, {"record"}, IF paths = {} THEN "completed" ELSE "check") /\ UNCHANGED lock
          /\ Write(r, IF paths = {} \/ k.phase = "commit_pending" THEN k
                      ELSE [k EXCEPT !.phase = "commit_pending", !.paths = paths,
                              !.doneAfter = IF known THEN index[Done(r)] ELSE "absent"])
  /\ UNCHANGED <<repo, remote, owes, leg, fetched, counts>>

Check(r) ==
  /\ pc[r] = "check"
  /\ IF Staged = seen[r].staged /\ Tip = receipt[r].parent
     THEN Goto(r, {"check"}, "commit") /\ UNCHANGED lock
     ELSE Fails(r)
  /\ UNCHANGED <<repo, remote, durable, leg, seen, fetched, counts>>

\* git commit takes whatever is staged by now.
GitCommit(r) ==
  /\ pc[r] = "commit"
  /\ IF Staged # {}
     THEN /\ Goto(r, {"commit"}, "verify") /\ UNCHANGED lock
          /\ main' = Append(main, [kind |-> "lifecycle", by |-> r, paths |-> Staged,
                                   tree |-> index])
     ELSE Fails(r) /\ UNCHANGED main
  /\ UNCHANGED <<index, work, remote, durable, leg, seen, fetched, counts>>

Verify(r) ==
  LET k == receipt[r]
      blob == IF Done(r) \in seen[r].staged THEN seen[r].done ELSE k.doneAfter
  IN
  /\ pc[r] = "verify"
  /\ IF CommitMatches(r, Tip, seen[r].staged, blob)
     THEN /\ Goto(r, {"verify"}, AfterCommit) /\ UNCHANGED lock
          /\ Write(r, [k EXCEPT !.phase = "committed", !.commit = Tip, !.doneAfter = blob])
     ELSE Fails(r) /\ UNCHANGED receipt
  /\ UNCHANGED <<repo, remote, owes, leg, seen, fetched, counts>>

-----------------------------------------------------------------------------
(* Failures, deaths, resumes and outsiders *)

Publishing(r) == pc[r] \in {"candidate", "fetch", "push", "pushed"}
Delivering(r) == pc[r] \notin {"working", "completed", "failed", "crashed"}

Trouble == faults + meddled < MaxTrouble

\* A call fails: in publication the receipt says so, before its lock and in
\* the move only the recorded delivery phase does.
CallFails(r) ==
  /\ Trouble /\ faults' = faults + 1
  /\ Delivering(r)
  /\ IF Publishing(r) THEN Refused(r) ELSE Fails(r) /\ UNCHANGED receipt
  /\ UNCHANGED <<repo, remote, owes, leg, seen, fetched, meddled>>

Crash(r) ==
  /\ Trouble /\ faults' = faults + 1
  /\ Delivering(r)
  /\ pc' = [pc EXCEPT ![r] = "crashed"] /\ Unlock(r)
  /\ UNCHANGED <<repo, remote, durable, leg, seen, fetched, meddled>>

\* Terminal resume of a failed delivery: only with a receipt that owns the
\* recorded phase.
Owns(r) == IF leg[r] = "approved" THEN receipt[r].status # "none" ELSE receipt[r].phase # "none"

Retry(r) ==
  /\ Owns(r)
  /\ Goto(r, {"failed"}, IF leg[r] = "approved" THEN "publish" ELSE "finalize")
  /\ UNCHANGED <<repo, remote, durable, leg, seen, fetched, lock, counts>>

\* Resume of a dead run, which recorded no phase: the plan must be in its
\* place, and the whole delivery starts again under a receipt of its own.
Resume(r) ==
  /\ work[Source(r)] # "absent"
  /\ Goto(r, {"crashed"}, IF Granted THEN "publish" ELSE "finalize")
  /\ leg' = [leg EXCEPT ![r] = IF Granted THEN "approved" ELSE "lifecycle"]
  /\ Write(r, NoReceipt)
  /\ owes' = [owes EXCEPT ![r] = Unresolved(r)]
  /\ UNCHANGED <<repo, remote, seen, fetched, lock, counts>>

Meddle ==
  /\ Outsiders /\ Trouble /\ meddled' = meddled + 1
  /\ UNCHANGED <<durable, pc, leg, seen, fetched, lock, faults>>

\* An outsider writes a file, stages one, commits the index, or pushes.
Outsider ==
  /\ Meddle
  /\ \/ /\ \E p \in Path : work' = [work EXCEPT ![p] = "edited"]
        /\ UNCHANGED <<main, index, remote>>
     \/ /\ \E p \in Path : index' = [index EXCEPT ![p] = work[p]]
        /\ UNCHANGED <<main, work, remote>>
     \/ /\ main' = Append(main, [kind |-> "other", by |-> Nobody, paths |-> Staged,
                                 tree |-> index])
        /\ UNCHANGED <<index, work, remote>>
     \/ /\ remote' = [remote EXCEPT !.foreign = remote.foreign + 1]
        /\ UNCHANGED repo

Publish(r) ==
  Admit(r) \/ Candidate(r) \/ Fetch(r) \/ Push(r) \/ PushFails(r) \/ Published(r)

Finalize(r) ==
  \/ Prepare(r) \/ Continue(r) \/ Move(r) \/ Moved(r) \/ Untracked(r) \/ Recover(r)
  \/ Intend(r) \/ StageSource(r) \/ SourceChecked(r) \/ StageDone(r) \/ DoneChecked(r)
  \/ Record(r) \/ Check(r) \/ GitCommit(r) \/ Verify(r)

Deliver(r) == Approve(r) \/ Publish(r) \/ Finalize(r) \/ Retry(r) \/ Resume(r)

Next ==
  \/ \E r \in Runs : Deliver(r) \/ CallFails(r) \/ Crash(r)
  \/ Outsider

\* Fairness: a live process goes on, and somebody resumes what can be resumed.
Spec == Init /\ [][Next]_vars /\ \A r \in Runs : WF_vars(Deliver(r))

-----------------------------------------------------------------------------
(* Properties *)

TypeOK ==
  /\ main \in Seq(Commit) /\ main # <<>>
  /\ index \in Tree /\ work \in Tree
  /\ remote \in [own : Nat, foreign : Nat]
  /\ receipt \in [Runs -> Receipt] /\ owes \in [Runs -> BOOLEAN]
  /\ pc \in [Runs -> {"working", "publish", "candidate", "fetch", "push", "pushed", "finalize",
                      "move", "moved", "head", "source", "sourceAdded", "done", "doneAdded",
                      "record", "check", "commit", "verify", "completed", "failed", "crashed"}]
  /\ leg \in [Runs -> {"approved", "lifecycle"}]
  /\ seen \in [Runs -> [source : Content, done : Content, staged : SUBSET Path]]
  /\ fetched \in [Runs -> [own : Nat, foreign : Nat]]
  /\ lock \in Runs \cup {Nobody}
  /\ faults \in Nat /\ meddled \in Nat /\ faults + meddled <= MaxTrouble

\* A published receipt is true: its candidate is in the remote's history,
\* whichever pushes raced, failed or died before (publication.py:1151-1200).
PublishedIsTrue ==
  \A r \in Runs : receipt[r].status = "published" => receipt[r].candidate <= remote.own

\* Nobody publishes past another run's failed publication: what
\* _require_no_other_failed_publication saw still holds at the push
\* (publication.py:150-190, 1151-1195).
FailureGates ==
  \A r \in Runs : Publishing(r) => \A s \in Runs \ {r} : ~Unresolved(s)

\* The lifecycle commits that a run makes or, after a death, takes for its own.
Declares(r, n) ==
  \/ main[n].kind = "lifecycle" /\ main[n].by = r
  \/ receipt[r].phase = "committed" /\ receipt[r].commit = n

\* The approved code is in the remote's history before its plan is declared
\* done (workflow.py:7560-7590).
CodeBeforePlan ==
  Granted => \A r \in Runs : \A n \in 1..Len(main) : Declares(r, n) =>
    \A m \in 1..n : main[m].kind = "code" /\ main[m].by = r => m <= remote.own

\* A committed record names a lifecycle commit that takes the plan out of
\* plans/in-progress and leaves every path of others as its parent has it,
\* whatever was staged or committed meanwhile (publication.py:1049-1075).  The
\* commit may be another run's, whose git commit took this one's staged paths.
CommitIsOwn ==
  \A r \in Runs : receipt[r].phase = "committed" =>
    LET n == receipt[r].commit
        k == receipt[r]
    IN
    /\ main[n].kind = "lifecycle"
    /\ k.sourceBlob # "absent" => main[n].tree[Source(r)] = "absent"
    /\ \A p \in Path \ Owned(r) : main[n].tree[p] = main[n - 1].tree[p]

\* A completed run with the grant has published its lifecycle commit, if it
\* made one (workflow.py:7583-7590).
CompletedIsPublished ==
  \A r \in Runs : Granted /\ pc[r] = "completed" /\ receipt[r].phase = "committed" =>
    receipt[r].commit <= remote.own

\* The branch as those who follow it see it.
Log == [n \in 1..Len(main) |-> <<main[n].kind, main[n].by>>]
Declaration == [r \in Runs |-> IF receipt[r].phase = "committed" THEN receipt[r].commit ELSE 0]
Through == {r \in Runs : pc[r] = "completed"}

Branch == INSTANCE PublishedBranch WITH
  log <- Log, out <- remote.own, declared <- Declaration, over <- Through

\* Every step of a run, of its failure, its death and its resume, and of an
\* outsider, is one of the branch: code before its declaration, a declaration
\* before the end, and nothing that is published is taken back
\* (workflow.py:7536-7590, publication.py:1151-1200).
ReleasesInOrder == Branch!Spec

\* A run's delivery ends, or is held up for a reason that only a person can
\* remove: no receipt to resume by, a death after the move, another commit on
\* top of the recorded parent, someone's staged paths, an unclean checkout, or
\* another run's failed publication; or outsiders have had their hands in it
\* (publication.py:673-1060, cli.py:1458, workflow.py:7511).
Held(r) ==
  \/ pc[r] = "failed" /\ ~Owns(r)
  \/ pc[r] = "crashed" /\ work[Source(r)] = "absent"
  \/ receipt[r].phase \notin {"none", "committed"} /\ Tip # receipt[r].parent
  \/ ~(Staged \subseteq Owned(r))
  \/ /\ leg[r] = "approved" \/ receipt[r].phase = "committed"
     /\ ~Clean \/ \E s \in Runs \ {r} : Unresolved(s)

Settles ==
  \A r \in Runs : <>[](pc[r] = "completed" \/ Held(r) \/ meddled > 0)

=============================================================================
