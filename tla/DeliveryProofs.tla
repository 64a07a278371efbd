---------------------------- MODULE DeliveryProofs ----------------------------
(***************************************************************************)
(* Proofs about Delivery: whatever fails, dies, is resumed or meddled with, *)
(* receipts are true, failures gate, and the code is published before its   *)
(* plan is declared done; to those who follow it, the branch is the one of *)
(* PublishedBranch.                                                        *)
(***************************************************************************)
EXTENDS Delivery, TLAPS

-----------------------------------------------------------------------------
(* The inductive invariant *)

CodeUpTo(r, n) ==
  \A m \in 1..Len(main) : main[m].kind = "code" /\ main[m].by = r => m <= n

\* A lifecycle commit has the paths that it changes.
Diffs ==
  \A n \in 2..Len(main) : main[n].kind = "lifecycle" =>
    main[n].paths = {p \in Path : main[n].tree[p] # main[n - 1].tree[p]}

\* Who publishes holds the lock, and the remote only moves on.
Serial == \A r \in Runs : (Publishing(r) => lock = r) /\ fetched[r].own <= remote.own

Moving == {"move", "moved"}
Committing ==
  {"source", "sourceAdded", "done", "doneAdded", "record", "check", "commit", "verify"}

\* What a run that moves or commits its plan has done before.
InOrder(r) ==
  /\ pc[r] \in {"finalize", "head"} \cup Moving \cup Committing => leg[r] = "lifecycle"
  /\ pc[r] = "head" => receipt[r].phase # "none"
  /\ pc[r] \in Moving \cup Committing => receipt[r].phase \notin {"none", "committed"}
  /\ Granted /\ leg[r] = "lifecycle" => pc[r] # "working" /\ CodeUpTo(r, remote.own)

\* What a receipt says of the history.
Attested(r) ==
  LET k == receipt[r]
  IN
  /\ k.phase # "none" => k.parent \in 1..Len(main)
  /\ k.phase = "committed" =>
       /\ k.commit = k.parent + 1 /\ k.commit <= Len(main)
       /\ main[k.commit].kind = "lifecycle" /\ main[k.commit].paths \subseteq Owned(r)
       /\ k.sourceBlob # "absent" => main[k.commit].tree[Source(r)] = "absent"

\* What is being published holds all that the run has made.
Whole(r) ==
  LET k == receipt[r]
  IN
  /\ pc[r] \in {"fetch", "push", "pushed"} =>
       CodeUpTo(r, k.candidate) /\ (k.phase = "committed" => k.commit <= k.candidate)
  /\ pc[r] = "pushed" => k.candidate <= remote.own

\* No lifecycle commit of the run comes before its code.
Declared(r) ==
  Granted => \A n \in 1..Len(main) : Declares(r, n) =>
    \A m \in 1..n : main[m].kind = "code" /\ main[m].by = r => m <= remote.own

Sound(r) ==
  /\ InOrder(r) /\ Attested(r) /\ Whole(r) /\ Declared(r)
  /\ receipt[r].status = "published" => receipt[r].candidate <= remote.own
  /\ Granted /\ pc[r] = "completed" /\ receipt[r].phase = "committed" =>
       receipt[r].commit <= remote.own

Inv ==
  /\ TypeOK /\ Diffs /\ Serial /\ FailureGates
  /\ \A r \in Runs : Sound(r)

-----------------------------------------------------------------------------
(* Types *)

Stage ==
  {"working", "publish", "candidate", "fetch", "push", "pushed", "finalize",
   "move", "moved", "head", "source", "sourceAdded", "done", "doneAdded",
   "record", "check", "commit", "verify", "completed", "failed", "crashed"}

GitView == [source : Content, done : Content, staged : SUBSET Path]

LEMMA NoReceiptType == NoReceipt \in Receipt
BY DEF NoReceipt, Receipt, Content

LEMMA PathType ==
  ASSUME NEW r \in Runs
  PROVE  Source(r) \in Path /\ Done(r) \in Path /\ Owned(r) \subseteq Path
BY DEF Path, Owned

LEMMA ViewType ==
  ASSUME TypeOK, NEW r \in Runs
  PROVE  GitState(r) \in GitView /\ Staged \subseteq Path
BY PathType DEF TypeOK, Tree, GitState, GitView, Staged

\* Every field of a receipt.
LEMMA ParseReceipt ==
  ASSUME NEW k \in Receipt
  PROVE  /\ k.status \in {"none", "pending", "failed", "published"} /\ k.candidate \in Nat
         /\ k.phase \in {"none", "prepared", "moved", "commit_pending", "committed"}
         /\ k.content \in Content /\ k.sourceBlob \in Content /\ k.doneTracked \in BOOLEAN
         /\ k.parent \in Nat /\ k.commit \in Nat
         /\ k.staging \in {"none", "source_pending", "destination_pending", "ready"}
         /\ k.doneBefore \in Content /\ k.doneExpected \in Content
         /\ k.doneShould \in BOOLEAN /\ k.doneStaged \in BOOLEAN
         /\ k.paths \subseteq Path /\ k.doneAfter \in Content
BY DEF Receipt

LEMMA TipType ==
  ASSUME TypeOK
  PROVE  Tip \in Nat /\ Tip >= 1 /\ main[Tip] \in Commit /\ TipTree \in Tree
<1>1. main \in Seq(Commit) /\ main # <<>>
  BY DEF TypeOK
<1>2. Len(main) \in Nat /\ Len(main) >= 1 /\ main[Len(main)] \in Commit
  BY <1>1
<1> QED
  BY <1>2 DEF Tip, TipTree, Commit

LEMMA WriteType ==
  ASSUME TypeOK, NEW r \in Runs, NEW k \in Receipt, Write(r, k)
  PROVE  receipt' \in [Runs -> Receipt]
BY DEF TypeOK, Write

LEMMA StageType ==
  ASSUME TypeOK, NEW r \in Runs, NEW from, NEW to \in Stage, Goto(r, from, to)
  PROVE  pc' \in [Runs -> Stage]
BY DEF TypeOK, Goto, Stage

LEMMA FailType ==
  ASSUME TypeOK, NEW r \in Runs, Fails(r)
  PROVE  pc' \in [Runs -> Stage] /\ lock' \in Runs \cup {Nobody}
BY DEF TypeOK, Fails, Unlock, Stage

LEMMA AppendType ==
  ASSUME TypeOK, NEW c \in Commit, main' = Append(main, c)
  PROVE  main' \in Seq(Commit) /\ main' # <<>>
BY DEF TypeOK

\* The receipt and the place of the run that takes a step.
LEMMA PublishReceipts ==
  ASSUME TypeOK, NEW r \in Runs, Publish(r)
  PROVE  receipt' \in [Runs -> Receipt] /\ pc' \in [Runs -> Stage] /\ lock' \in Runs \cup {Nobody}
<1> DEFINE k == receipt[r]
<1>0. k \in Receipt /\ receipt \in [Runs -> Receipt] /\ lock \in Runs \cup {Nobody}
  BY DEF TypeOK
<1>1. ASSUME NEW status \in {"pending", "failed", "published"}
      PROVE  [k EXCEPT !.status = status] \in Receipt
  <2> HIDE DEF k
  <2> QED
    BY <1>0, <1>1 DEF Receipt
<1>2. [k EXCEPT !.status = "pending", !.candidate = Tip] \in Receipt
  <2>1. Tip \in Nat
    BY TipType
  <2> HIDE DEF k
  <2> QED
    BY <1>0, <2>1 DEF Receipt
<1>3. ASSUME Refused(r)
      PROVE  receipt' \in [Runs -> Receipt] /\ pc' \in [Runs -> Stage]
             /\ lock' \in Runs \cup {Nobody}
  BY <1>1, <1>3, WriteType, FailType DEF Refused
<1>4. CASE Admit(r)
  BY <1>0, <1>4, FailType, StageType DEF Admit, durable, Stage
<1>5. CASE Candidate(r)
  BY <1>0, <1>2, <1>3, <1>5, WriteType, StageType DEF Candidate, Stage
<1>6. CASE Fetch(r)
  BY <1>0, <1>6, StageType DEF Fetch, durable, Stage
<1>7. CASE Push(r)
  BY <1>0, <1>7, StageType DEF Push, durable, Stage
<1>8. CASE PushFails(r)
  BY <1>3, <1>8 DEF PushFails
<1>9. CASE Published(r)
  BY <1>0, <1>1, <1>9, WriteType, StageType DEF Published, Stage, Unlock
<1> QED
  BY <1>4, <1>5, <1>6, <1>7, <1>8, <1>9 DEF Publish

LEMMA FinalizeReceipts ==
  ASSUME TypeOK, NEW r \in Runs, Finalize(r)
  PROVE  receipt' \in [Runs -> Receipt] /\ pc' \in [Runs -> Stage] /\ lock' \in Runs \cup {Nobody}
<1> DEFINE k == receipt[r]
<1>0. k \in Receipt /\ receipt \in [Runs -> Receipt] /\ lock \in Runs \cup {Nobody}
  BY DEF TypeOK
<1>1. work[Source(r)] \in Content /\ work[Done(r)] \in Content
      /\ index[Source(r)] \in Content /\ index[Done(r)] \in Content
  BY PathType DEF TypeOK, Tree
<1>2. seen[r].done \in Content /\ seen[r].staged \subseteq Path /\ Tip \in Nat
  BY TipType DEF TypeOK
<1>3. AfterCommit \in Stage
  BY DEF AfterCommit, Stage
<1>4. ASSUME Fails(r), UNCHANGED receipt
      PROVE  receipt' \in [Runs -> Receipt] /\ pc' \in [Runs -> Stage]
             /\ lock' \in Runs \cup {Nobody}
  BY <1>0, <1>4, FailType
<1>5. CASE Prepare(r)
  <2>1. [k EXCEPT !.phase = "prepared", !.content = work[Source(r)],
                  !.sourceBlob = index[Source(r)], !.doneTracked = index[Done(r)] # "absent",
                  !.parent = Tip] \in Receipt
    <3> HIDE DEF k
    <3> QED
      BY <1>0, <1>1, <1>2 DEF Receipt
  <2> QED
    BY <1>0, <1>4, <1>5, <2>1, WriteType, StageType DEF Prepare, Stage
<1>6. CASE Continue(r)
  BY <1>0, <1>6, FailType, StageType DEF Continue, durable, Stage
<1>7. CASE Move(r)
  BY <1>0, <1>7, FailType, StageType DEF Move, durable, Stage
<1>8. CASE Moved(r)
  <2>1. [k EXCEPT !.phase = "moved"] \in Receipt
    <3> HIDE DEF k
    <3> QED
      BY <1>0 DEF Receipt
  <2> QED
    BY <1>0, <1>8, <2>1, WriteType, StageType DEF Moved, Stage
<1>9. CASE Untracked(r)
  BY <1>0, <1>9, StageType DEF Untracked, durable, Stage
<1>10. CASE Recover(r)
  <2> DEFINE n == IF k.phase = "committed" THEN k.commit ELSE Tip
  <2>1. n \in Nat
    BY <1>0, <1>2, ParseReceipt
  <2>2. [k EXCEPT !.phase = "committed", !.commit = n] \in Receipt
    <3> HIDE DEF k, n
    <3> QED
      BY <1>0, <2>1 DEF Receipt
  <2> QED
    BY <1>0, <1>3, <1>4, <1>10, <2>2, WriteType, StageType DEF Recover
<1>11. CASE Intend(r)
  <2> DEFINE expected == IF k.doneTracked \/ Done(r) \notin Ignored THEN work[Done(r)] ELSE "absent"
             should == expected # "absent" /\ (k.doneTracked => expected # seen[r].done)
             staging == IF k.sourceBlob # "absent" THEN "source_pending"
                        ELSE IF should THEN "destination_pending" ELSE "ready"
             before == seen[r].done
             staged == Done(r) \in seen[r].staged
             new == [k EXCEPT !.staging = staging, !.doneBefore = before,
                       !.doneExpected = expected, !.doneShould = should,
                       !.doneStaged = staged]
  <2>1. expected \in Content
    BY <1>1 DEF Content
  <2>2. new \in Receipt
    <3>1. /\ staging \in {"none", "source_pending", "destination_pending", "ready"}
          /\ should \in BOOLEAN /\ staged \in BOOLEAN /\ before \in Content
      BY <1>2
    <3> HIDE DEF k, staging, should, staged, before, expected
    <3> QED
      BY <1>0, <2>1, <3>1 DEF Receipt
  <2>3. receipt' = receipt \/ Write(r, new)
    BY <1>11 DEF Intend
  <2>4. receipt' \in [Runs -> Receipt]
    BY <1>0, <2>2, <2>3, WriteType
  <2> QED
    BY <1>0, <1>11, <2>4, StageType DEF Intend, Stage
<1>12. CASE StageSource(r)
  BY <1>0, <1>12, StageType DEF StageSource, durable, Stage
<1>13. CASE SourceChecked(r)
  <2>1. \A to \in {"destination_pending", "ready"} : [k EXCEPT !.staging = to] \in Receipt
    <3> HIDE DEF k
    <3> QED
      BY <1>0 DEF Receipt
  <2>2. CASE Fails(r) /\ UNCHANGED receipt
    BY <1>4, <2>2
  <2>3. CASE ~(Fails(r) /\ UNCHANGED receipt)
    <3>1. /\ Goto(r, {pc[r]}, "done") /\ UNCHANGED lock
          /\ \E new \in Receipt : Write(r, new)
      BY <1>0, <1>13, <2>1, <2>3 DEF SourceChecked
    <3> QED
      BY <1>0, <3>1, WriteType, StageType DEF Stage
  <2> QED
    BY <2>2, <2>3
<1>14. CASE StageDone(r)
  BY <1>0, <1>14, StageType DEF StageDone, durable, Stage
<1>15. CASE DoneChecked(r)
  <2>1. [k EXCEPT !.staging = "ready"] \in Receipt
    <3> HIDE DEF k
    <3> QED
      BY <1>0 DEF Receipt
  <2> QED
    BY <1>0, <1>4, <1>15, <2>1, WriteType, StageType DEF DoneChecked, Stage
<1>16. CASE Record(r)
  <2> DEFINE after == IF Done(r) \in seen[r].staged THEN index[Done(r)] ELSE "absent"
  <2>1. after \in Content
    BY <1>1 DEF Content
  <2>2. [k EXCEPT !.phase = "commit_pending", !.paths = seen[r].staged,
                  !.doneAfter = after] \in Receipt
    <3> HIDE DEF k, after
    <3> QED
      BY <1>0, <1>2, <2>1 DEF Receipt
  <2>3. CASE Fails(r) /\ UNCHANGED receipt
    BY <1>4, <2>3
  <2>4. CASE ~(Fails(r) /\ UNCHANGED receipt)
    <3>1. /\ Goto(r, {"record"}, "completed") \/ Goto(r, {"record"}, "check")
          /\ UNCHANGED lock
          /\ \E new \in Receipt : Write(r, new)
      BY <1>0, <1>16, <2>2, <2>4 DEF Record
    <3> QED
      BY <1>0, <3>1, WriteType, StageType DEF Stage
  <2> QED
    BY <2>3, <2>4
<1>17. CASE Check(r)
  BY <1>0, <1>17, FailType, StageType DEF Check, durable, Stage
<1>18. CASE GitCommit(r)
  BY <1>0, <1>18, FailType, StageType DEF GitCommit, durable, Stage
<1>19. CASE Verify(r)
  <2> DEFINE blob == IF Done(r) \in seen[r].staged THEN seen[r].done ELSE k.doneAfter
  <2>1. blob \in Content
    BY <1>0, <1>2, ParseReceipt
  <2>2. [k EXCEPT !.phase = "committed", !.commit = Tip, !.doneAfter = blob] \in Receipt
    <3> HIDE DEF k, blob
    <3> QED
      BY <1>0, <1>2, <2>1 DEF Receipt
  <2> QED
    BY <1>0, <1>3, <1>4, <1>19, <2>2, WriteType, StageType DEF Verify
<1> QED
  BY <1>5, <1>6, <1>7, <1>8, <1>9, <1>10, <1>11, <1>12, <1>13, <1>14, <1>15, <1>16, <1>17,
     <1>18, <1>19 DEF Finalize

RepoType ==
  /\ main \in Seq(Commit) /\ main # <<>>
  /\ index \in Tree /\ work \in Tree
  /\ remote \in [own : Nat, foreign : Nat]

PlaceType ==
  /\ owes \in [Runs -> BOOLEAN]
  /\ leg \in [Runs -> {"approved", "lifecycle"}]
  /\ seen \in [Runs -> GitView]
  /\ fetched \in [Runs -> [own : Nat, foreign : Nat]]
  /\ faults \in Nat /\ meddled \in Nat /\ faults + meddled <= MaxTrouble

LEMMA SplitType ==
  TypeOK <=> /\ RepoType /\ PlaceType /\ lock \in Runs \cup {Nobody}
             /\ receipt \in [Runs -> Receipt] /\ pc \in [Runs -> Stage]
BY DEF TypeOK, RepoType, PlaceType, Stage, GitView

LEMMA PublishRest ==
  ASSUME TypeOK, NEW r \in Runs, Publish(r)
  PROVE  RepoType' /\ PlaceType'
<1>1. RepoType /\ PlaceType /\ receipt[r] \in Receipt
  BY SplitType DEF TypeOK
<1>2. receipt[r].candidate \in Nat
  BY <1>1, ParseReceipt
<1>3. CASE Admit(r)
  BY <1>1, <1>3 DEF Admit, RepoType, PlaceType, repo, durable, counts
<1>4. CASE Candidate(r)
  BY <1>1, <1>4 DEF Candidate, RepoType, PlaceType, repo, counts
<1>5. CASE Fetch(r)
  BY <1>1, <1>5 DEF Fetch, RepoType, PlaceType, repo, durable, counts
<1>6. CASE Push(r)
  BY <1>1, <1>2, <1>6 DEF Push, RepoType, PlaceType, repo, durable, counts
<1>7. CASE PushFails(r)
  BY <1>1, <1>7 DEF PushFails, RepoType, PlaceType, repo, counts
<1>8. CASE Published(r)
  BY <1>1, <1>8 DEF Published, RepoType, PlaceType, repo, counts
<1> QED
  BY <1>3, <1>4, <1>5, <1>6, <1>7, <1>8 DEF Publish

LEMMA LifecycleCommit ==
  ASSUME TypeOK, NEW r \in Runs
  PROVE  [kind |-> "lifecycle", by |-> r, paths |-> Staged, tree |-> index] \in Commit
BY ViewType DEF TypeOK, Commit

LEMMA FinalizeRest ==
  ASSUME TypeOK, NEW r \in Runs, Finalize(r)
  PROVE  RepoType' /\ PlaceType'
<1>1. RepoType /\ PlaceType /\ GitState(r) \in GitView
  BY SplitType, ViewType
<1>2. ASSUME UNCHANGED <<owes, leg, fetched, counts>>, seen' \in [Runs -> GitView]
      PROVE  PlaceType'
  BY <1>1, <1>2 DEF PlaceType, counts
<1>3. ASSUME UNCHANGED <<repo, remote>> PROVE RepoType'
  BY <1>1, <1>3 DEF RepoType, repo
<1>4. seen \in [Runs -> GitView] /\ (Look(r) => seen' \in [Runs -> GitView])
  BY <1>1 DEF PlaceType, Look
<1>5. CASE Prepare(r)
  BY <1>2, <1>3, <1>4, <1>5 DEF Prepare
<1>6. CASE Continue(r)
  BY <1>2, <1>3, <1>4, <1>6 DEF Continue, durable
<1>7. CASE Move(r)
  <2>1. work \in Tree /\ Source(r) \in Path /\ Done(r) \in Path /\ "absent" \in Content
    BY <1>1, PathType DEF RepoType, Content
  <2>2. work' \in Tree
    <3>1. \A bytes \in Content :
            [work EXCEPT ![Source(r)] = "absent", ![Done(r)] = bytes] \in Tree
      BY <2>1 DEF Tree
    <3>2. work[Source(r)] \in Content /\ work[Done(r)] \in Content
      BY <2>1 DEF Tree
    <3> QED
      BY <1>7, <2>1, <3>1, <3>2 DEF Move
  <2> QED
    BY <1>1, <1>2, <1>4, <1>7, <2>2 DEF Move, durable, RepoType
<1>8. CASE Moved(r)
  BY <1>2, <1>3, <1>4, <1>8 DEF Moved
<1>9. CASE Untracked(r)
  BY <1>2, <1>3, <1>4, <1>9 DEF Untracked, durable
<1>10. CASE Recover(r)
  BY <1>2, <1>3, <1>4, <1>10 DEF Recover
<1>11. CASE Intend(r)
  BY <1>2, <1>3, <1>4, <1>11 DEF Intend
<1>12. CASE StageSource(r)
  <2>1. index' \in Tree
    BY <1>1, <1>12, PathType DEF StageSource, RepoType, Tree
  <2> QED
    BY <1>1, <1>2, <1>4, <1>12, <2>1 DEF StageSource, durable, RepoType
<1>13. CASE SourceChecked(r)
  <2>1. State(r) \in GitView
    BY <1>1, <1>4 DEF State
  <2>2. seen' \in [Runs -> GitView]
    BY <1>4, <1>13, <2>1 DEF SourceChecked
  <2> QED
    BY <1>2, <1>3, <1>13, <2>2 DEF SourceChecked
<1>14. CASE StageDone(r)
  <2>1. index' \in Tree
    BY <1>1, <1>14, PathType DEF StageDone, RepoType, Tree
  <2> QED
    BY <1>1, <1>2, <1>4, <1>14, <2>1 DEF StageDone, durable, RepoType
<1>15. CASE DoneChecked(r)
  <2>1. State(r) \in GitView
    BY <1>1, <1>4 DEF State
  <2>2. seen' \in [Runs -> GitView]
    BY <1>4, <1>15, <2>1 DEF DoneChecked
  <2> QED
    BY <1>2, <1>3, <1>15, <2>2 DEF DoneChecked
<1>16. CASE Record(r)
  <2>1. index[Done(r)] \in Content
    BY <1>1, PathType DEF RepoType, Tree
  <2>2. seen' \in [Runs -> GitView]
    <3>1. \A done \in Content : [seen EXCEPT ![r].done = done] \in [Runs -> GitView]
      BY <1>4 DEF GitView
    <3>2. seen[r].done \in Content
      BY <1>4 DEF GitView
    <3>3. \E done \in Content : seen' = [seen EXCEPT ![r].done = done]
      BY <1>16, <2>1, <3>2 DEF Record
    <3> QED
      BY <3>1, <3>3
  <2> QED
    BY <1>2, <1>3, <1>16, <2>2 DEF Record
<1>17. CASE Check(r)
  BY <1>2, <1>3, <1>4, <1>17 DEF Check, durable
<1>18. CASE GitCommit(r)
  <2>1. main' \in Seq(Commit) /\ main' # <<>>
    BY <1>1, <1>18, LifecycleCommit, AppendType DEF GitCommit, RepoType
  <2> QED
    BY <1>1, <1>2, <1>4, <1>18, <2>1 DEF GitCommit, durable, RepoType
<1>19. CASE Verify(r)
  BY <1>2, <1>3, <1>4, <1>19 DEF Verify
<1> QED
  BY <1>5, <1>6, <1>7, <1>8, <1>9, <1>10, <1>11, <1>12, <1>13, <1>14, <1>15, <1>16, <1>17,
     <1>18, <1>19 DEF Finalize

LEMMA InitType == Init => TypeOK
<1> SUFFICES ASSUME Init PROVE TypeOK
  OBVIOUS
<1>1. \A S : Final(S) \in Tree
  BY DEF Final, Tree, Content
<1>2. index \in Tree /\ work \in Tree
      /\ main = <<[kind |-> "other", by |-> Nobody, paths |-> {}, tree |-> index]>>
  BY <1>1 DEF Init
<1>3. [kind |-> "other", by |-> Nobody, paths |-> {}, tree |-> index] \in Commit
  BY <1>2 DEF Commit
<1>4. RepoType
  BY <1>2, <1>3 DEF RepoType, Init
<1>5. PlaceType
  <2>1. remote \in [own : Nat, foreign : Nat]
    BY DEF Init
  <2>2. [source |-> "absent", done |-> "absent", staged |-> {}] \in GitView
    BY DEF GitView, Content
  <2> QED
    BY <2>1, <2>2, DeliveryAssumption DEF Init, PlaceType
<1> QED
  BY <1>4, <1>5, NoReceiptType, SplitType DEF Init, Stage

LEMMA NextType ==
  ASSUME TypeOK, [Next]_vars
  PROVE  TypeOK'
<1>0. /\ RepoType /\ PlaceType /\ lock \in Runs \cup {Nobody}
      /\ receipt \in [Runs -> Receipt] /\ pc \in [Runs -> Stage]
  BY SplitType
<1> DEFINE Typed == /\ receipt' \in [Runs -> Receipt] /\ pc' \in [Runs -> Stage]
                    /\ lock' \in Runs \cup {Nobody} /\ RepoType' /\ PlaceType'
<1>1. ASSUME NEW r \in Runs, Approve(r) PROVE Typed
  <2>1. [kind |-> "code", by |-> r, paths |-> {}, tree |-> TipTree] \in Commit
    BY TipType DEF Commit
  <2>2. main' \in Seq(Commit) /\ main' # <<>>
    BY <1>1, <2>1, AppendType DEF Approve
  <2>3. RepoType' /\ PlaceType'
    BY <1>0, <1>1, <2>2 DEF Approve, RepoType, PlaceType, durable, counts
  <2> QED
    BY <1>0, <1>1, <2>3, StageType DEF Approve, durable, Stage
<1>2. ASSUME NEW r \in Runs, Publish(r) PROVE Typed
  BY <1>2, PublishReceipts, PublishRest
<1>3. ASSUME NEW r \in Runs, Finalize(r) PROVE Typed
  BY <1>3, FinalizeReceipts, FinalizeRest
<1>4. ASSUME NEW r \in Runs, Retry(r) PROVE Typed
  BY <1>0, <1>4, StageType DEF Retry, RepoType, PlaceType, repo, durable, counts, Stage
<1>5. ASSUME NEW r \in Runs, Resume(r) PROVE Typed
  <2>1. receipt' \in [Runs -> Receipt] /\ Unresolved(r) \in BOOLEAN
    BY <1>0, <1>5, NoReceiptType, WriteType DEF Resume, Unresolved, PlaceType
  <2> QED
    BY <1>0, <1>5, <2>1, StageType DEF Resume, RepoType, PlaceType, repo, counts, Stage
<1>6. ASSUME NEW r \in Runs, CallFails(r) PROVE Typed
  <2>1. [receipt[r] EXCEPT !.status = "failed"] \in Receipt
    <3>1. receipt[r] \in Receipt
      BY <1>0
    <3> QED
      BY <3>1 DEF Receipt
  <2>2. receipt' \in [Runs -> Receipt]
    BY <1>0, <1>6, <2>1, WriteType DEF CallFails, Refused
  <2>3. pc' \in [Runs -> Stage] /\ lock' \in Runs \cup {Nobody}
    BY <1>6, FailType DEF CallFails, Refused
  <2>4. RepoType' /\ PlaceType'
    BY <1>0, <1>6, DeliveryAssumption DEF CallFails, Trouble, RepoType, PlaceType, repo
  <2> QED
    BY <2>2, <2>3, <2>4
<1>7. ASSUME NEW r \in Runs, Crash(r) PROVE Typed
  BY <1>0, <1>7, DeliveryAssumption
  DEF Crash, Trouble, Unlock, RepoType, PlaceType, repo, durable, Stage
<1>8. ASSUME Outsider PROVE Typed
  <2>1. \A p \in Path : [work EXCEPT ![p] = "edited"] \in Tree /\ [index EXCEPT ![p] = work[p]] \in Tree
    BY <1>0 DEF RepoType, Tree, Content
  <2>2. [kind |-> "other", by |-> Nobody, paths |-> Staged, tree |-> index] \in Commit
    BY <1>0 DEF RepoType, Commit, Staged
  <2>3. RepoType'
    <3>1. CASE UNCHANGED main
      <4>1. /\ index' = index \/ \E p \in Path : index' = [index EXCEPT ![p] = work[p]]
            /\ work' = work \/ \E p \in Path : work' = [work EXCEPT ![p] = "edited"]
            /\ remote' = remote \/ remote' = [remote EXCEPT !.foreign = remote.foreign + 1]
        BY <1>8 DEF Outsider, repo
      <4>2. index' \in Tree /\ work' \in Tree
        BY <1>0, <2>1, <4>1 DEF RepoType
      <4>3. remote' \in [own : Nat, foreign : Nat]
        BY <1>0, <4>1 DEF RepoType
      <4> QED
        BY <1>0, <3>1, <4>2, <4>3 DEF RepoType
    <3>2. CASE ~UNCHANGED main
      <4>1. main' = Append(main, [kind |-> "other", by |-> Nobody, paths |-> Staged,
                                  tree |-> index])
            /\ UNCHANGED <<index, work, remote>>
        BY <1>8, <3>2 DEF Outsider, repo
      <4> QED
        BY <1>0, <2>2, <4>1, AppendType DEF RepoType
    <3> QED
      BY <3>1, <3>2
  <2>4. PlaceType'
    BY <1>0, <1>8, DeliveryAssumption DEF Outsider, Meddle, Trouble, PlaceType, durable
  <2> QED
    BY <1>0, <1>8, <2>3, <2>4 DEF Outsider, Meddle, durable
<1>9. ASSUME UNCHANGED vars PROVE Typed
  BY <1>0, <1>9 DEF vars, repo, durable, counts, RepoType, PlaceType
<1>10. Typed
  BY <1>0, <1>1, <1>2, <1>3, <1>4, <1>5, <1>6, <1>7, <1>8, <1>9
  DEF Next, Deliver
<1> QED
  BY <1>10 DEF TypeOK, RepoType, PlaceType, Stage, GitView

-----------------------------------------------------------------------------
(* What a step does *)

\* The step is not the run's.
Same(r) ==
  /\ receipt'[r] = receipt[r] /\ pc'[r] = pc[r] /\ leg'[r] = leg[r]
  /\ fetched'[r] = fetched[r] /\ owes'[r] = owes[r]

\* The receipt's fields that the invariant speaks of, but for the phase.
Keeps(r) ==
  LET k == receipt[r]
      new == receipt'[r]
  IN
  /\ new.status = k.status /\ new.candidate = k.candidate /\ new.parent = k.parent
  /\ new.commit = k.commit /\ new.sourceBlob = k.sourceBlob

Still == main' = main /\ remote' = remote

\* It fails or dies; in publication the receipt may say so.
Fall(r) ==
  /\ pc'[r] \in {"failed", "crashed"} /\ Still
  /\ leg'[r] = leg[r] /\ fetched'[r] = fetched[r] /\ owes'[r] = owes[r] /\ Unlock(r)
  /\ \/ receipt'[r] = receipt[r]
     \/ Publishing(r) /\ receipt' = [receipt EXCEPT ![r] = [receipt[r] EXCEPT !.status = "failed"]]

\* The lifecycle has neither begun nor ended by this step.
SamePhase(r) ==
  \/ receipt'[r].phase = receipt[r].phase
  \/ receipt[r].phase \notin {"none", "committed"} /\ receipt'[r].phase \notin {"none", "committed"}

\* It goes on with the plan's move and its commit.
Advance(r) ==
  LET k == receipt[r]
      new == receipt'[r]
  IN
  /\ pc[r] \in {"finalize", "head"} \cup Moving \cup Committing
  /\ pc'[r] \in {"head", "completed"} \cup Moving \cup Committing
  /\ \/ Keeps(r) /\ SamePhase(r)
     \/ /\ k.phase = "none" /\ new.phase = "prepared" /\ new.parent = Tip
        /\ new.status = k.status /\ new.candidate = k.candidate
  /\ pc'[r] = "head" => new.phase # "none"
  /\ pc'[r] \in Moving \cup Committing => new.phase \notin {"none", "committed"}
  /\ pc'[r] = "completed" => new.phase # "committed"
  /\ leg'[r] = leg[r] /\ fetched'[r] = fetched[r] /\ owes'[r] = owes[r] /\ lock' = lock
  /\ remote' = remote

\* Its lifecycle commit is the one that the receipt will name.
Settle(r) ==
  LET k == receipt[r]
      new == receipt'[r]
  IN
  /\ pc[r] \in {"head", "verify"} /\ pc'[r] = AfterCommit /\ Still
  /\ new.status = k.status /\ new.candidate = k.candidate /\ new.parent = k.parent
  /\ new.sourceBlob = k.sourceBlob
  /\ new.phase = "committed" /\ new.commit = k.parent + 1
  /\ new.commit = Tip \/ (k.phase = "committed" /\ new.commit = k.commit)
  /\ main[new.commit].kind = "lifecycle" /\ main[new.commit].paths \subseteq Owned(r)
  /\ k.sourceBlob # "absent" => main[new.commit].tree[Source(r)] = "absent"
  /\ leg'[r] = leg[r] /\ fetched'[r] = fetched[r] /\ owes'[r] = owes[r] /\ lock' = lock

LEMMA FailsFall ==
  ASSUME TypeOK, NEW r \in Runs, Fails(r), Still, UNCHANGED <<receipt, owes, leg, fetched>>
  PROVE  Fall(r)
BY DEF TypeOK, Fails, Fall

LEMMA RefusedFalls ==
  ASSUME TypeOK, NEW r \in Runs, Refused(r), Publishing(r), Still, UNCHANGED <<owes, leg, fetched>>
  PROVE  Fall(r)
BY DEF TypeOK, Refused, Fails, Fall, Write

LEMMA FinalizeSteps ==
  ASSUME TypeOK, NEW r \in Runs, InOrder(r), Finalize(r)
  PROVE  Fall(r) \/ Settle(r) \/ (Advance(r) /\ (main' = main \/ GitCommit(r)))
<1> DEFINE k == receipt[r]
           Quiet == UNCHANGED <<owes, leg, fetched, remote, lock>>
<1>0. /\ receipt \in [Runs -> Receipt] /\ pc \in [Runs -> Stage] /\ k \in Receipt
      /\ lock \in Runs \cup {Nobody}
  BY DEF TypeOK, Stage
<1>1. ASSUME Fails(r), UNCHANGED <<receipt, main, remote, owes, leg, fetched>> PROVE Fall(r)
  BY <1>1, FailsFall DEF Still
<1>2. ASSUME Quiet, UNCHANGED <<main, receipt>>,
             NEW from \in {"finalize", "head"} \cup Moving \cup Committing,
             NEW to \in {"head", "completed"} \cup Moving \cup Committing, Goto(r, {from}, to),
             to = "head" => k.phase # "none",
             to \in Moving \cup Committing => k.phase \notin {"none", "committed"},
             to = "completed" => k.phase # "committed"
      PROVE  Advance(r) /\ main' = main
  BY <1>0, <1>2 DEF Advance, SamePhase, Goto, Keeps
<1>3. CASE Prepare(r)
  <2>1. CASE Fails(r) /\ UNCHANGED receipt
    BY <1>1, <1>3, <2>1 DEF Prepare, repo
  <2>2. CASE ~(Fails(r) /\ UNCHANGED receipt)
    <3>1. /\ \E content, blob, tracked :
               Write(r, [k EXCEPT !.phase = "prepared", !.content = content, !.sourceBlob = blob,
                           !.doneTracked = tracked, !.parent = Tip])
          /\ k.phase = "none" /\ Goto(r, {"finalize"}, "move") /\ Quiet /\ main' = main
      BY <1>3, <2>2 DEF Prepare, repo
    <3>2. ASSUME NEW content, NEW blob, NEW tracked
          PROVE  LET new == [k EXCEPT !.phase = "prepared", !.content = content,
                               !.sourceBlob = blob, !.doneTracked = tracked, !.parent = Tip]
                 IN  /\ new.phase = "prepared" /\ new.parent = Tip
                     /\ new.status = k.status /\ new.candidate = k.candidate
      <4> HIDE DEF k
      <4> QED
        BY <1>0 DEF Receipt
    <3>3. /\ receipt'[r].phase = "prepared" /\ receipt'[r].parent = Tip
          /\ receipt'[r].status = k.status /\ receipt'[r].candidate = k.candidate
      BY <1>0, <3>1, <3>2 DEF Write
    <3> QED
      BY <1>0, <3>1, <3>3 DEF Advance, SamePhase, Goto, Moving
  <2> QED
    BY <2>1, <2>2
<1>4. CASE Continue(r)
  <2>1. CASE Fails(r)
    BY <1>1, <1>4, <2>1 DEF Continue, repo, durable
  <2>2. CASE ~Fails(r)
    <3>1. /\ Quiet /\ UNCHANGED <<main, receipt>> /\ k.phase # "none"
          /\ \/ Goto(r, {"finalize"}, "head")
             \/ k.phase = "prepared" /\ (Goto(r, {"finalize"}, "move") \/ Goto(r, {"finalize"}, "moved"))
      BY <1>4, <2>2 DEF Continue, repo, durable
    <3> QED
      BY <1>2, <3>1 DEF Moving, Committing
  <2> QED
    BY <2>1, <2>2
<1>5. CASE Move(r)
  <2>1. CASE Fails(r)
    BY <1>1, <1>5, <2>1 DEF Move, durable
  <2>2. CASE ~Fails(r)
    <3>1. /\ Quiet /\ UNCHANGED <<main, receipt>> /\ Goto(r, {"move"}, "moved")
          /\ k.phase \notin {"none", "committed"}
      BY <1>5, <2>2 DEF Move, durable, InOrder, Moving
    <3> QED
      BY <1>2, <3>1 DEF Moving, Committing
  <2> QED
    BY <2>1, <2>2
<1>6. CASE Moved(r)
  <2>1. /\ receipt'[r].phase = "moved" /\ Keeps(r) /\ Goto(r, {"moved"}, "head")
        /\ k.phase \notin {"none", "committed"} /\ Quiet /\ main' = main
    BY <1>0, <1>6 DEF Moved, Write, repo, Receipt, Keeps, Goto, InOrder, Moving
  <2> QED
    BY <1>0, <2>1 DEF Advance, SamePhase, Goto, Moving, Committing
<1>7. CASE Untracked(r)
  BY <1>2, <1>7 DEF Untracked, repo, durable, Moving, Committing
<1>8. CASE Recover(r)
  <2> DEFINE n == IF k.phase = "committed" THEN k.commit ELSE Tip
  <2>1. CASE Fails(r) /\ UNCHANGED receipt
    BY <1>1, <1>8, <2>1 DEF Recover, repo
  <2>2. CASE ~(Fails(r) /\ UNCHANGED receipt)
    <3>1. /\ CommitMatches(r, n, k.paths, k.doneAfter) /\ Goto(r, {"head"}, AfterCommit)
          /\ Write(r, [k EXCEPT !.phase = "committed", !.commit = n]) /\ Quiet /\ Still
      BY <1>8, <2>2 DEF Recover, repo, Still
    <3>2. LET new == [k EXCEPT !.phase = "committed", !.commit = n]
          IN  /\ receipt'[r] = new /\ new.phase = "committed" /\ new.commit = n
              /\ new.status = k.status /\ new.candidate = k.candidate /\ new.parent = k.parent
              /\ new.sourceBlob = k.sourceBlob
      <4> HIDE DEF n
      <4> QED
        BY <1>0, <3>1 DEF Write, Receipt
    <3>3. pc[r] = "head" /\ pc'[r] = AfterCommit
      BY <1>0, <3>1 DEF Goto
    <3> QED
      BY <3>1, <3>2, <3>3 DEF Settle, CommitMatches
  <2> QED
    BY <2>1, <2>2
<1>9. CASE Intend(r)
  <2>1. /\ receipt'[r].phase = k.phase /\ Keeps(r) /\ Goto(r, {"head"}, "source")
        /\ k.phase \notin {"none", "committed"} /\ Quiet /\ main' = main
    <3>1. receipt' = receipt \/ \E staging, before, expected, should, staged :
            Write(r, [k EXCEPT !.staging = staging, !.doneBefore = before,
                        !.doneExpected = expected, !.doneShould = should,
                        !.doneStaged = staged])
      <4>1. CASE k.staging # "none"
        BY <1>9, <4>1 DEF Intend
      <4>2. CASE k.staging = "none"
        <5> DEFINE blob == IF k.doneTracked \/ Done(r) \notin Ignored
                           THEN work[Done(r)] ELSE "absent"
                   must == blob # "absent" /\ (k.doneTracked => blob # seen[r].done)
                   first == IF k.sourceBlob # "absent" THEN "source_pending"
                            ELSE IF must THEN "destination_pending" ELSE "ready"
        <5>1. Write(r, [k EXCEPT !.staging = first, !.doneBefore = seen[r].done,
                          !.doneExpected = blob, !.doneShould = must,
                          !.doneStaged = Done(r) \in seen[r].staged])
          BY <1>9, <4>2 DEF Intend
        <5> HIDE DEF blob, must, first, k
        <5> QED
          BY <5>1
      <4> QED
        BY <4>1, <4>2
    <3>2. ASSUME NEW staging, NEW before, NEW expected, NEW should, NEW staged
          PROVE  LET new == [k EXCEPT !.staging = staging, !.doneBefore = before,
                               !.doneExpected = expected, !.doneShould = should,
                               !.doneStaged = staged]
                 IN  /\ new.phase = k.phase /\ new.status = k.status
                     /\ new.candidate = k.candidate /\ new.parent = k.parent
                     /\ new.commit = k.commit /\ new.sourceBlob = k.sourceBlob
      <4> HIDE DEF k
      <4> QED
        BY <1>0 DEF Receipt
    <3>3. receipt'[r].phase = k.phase /\ Keeps(r)
      <4>1. CASE receipt' = receipt
        BY <4>1 DEF Keeps
      <4>2. CASE receipt' # receipt
        <5>1. PICK staging, before, expected, should, staged :
                Write(r, [k EXCEPT !.staging = staging, !.doneBefore = before,
                            !.doneExpected = expected, !.doneShould = should,
                            !.doneStaged = staged])
          BY <3>1, <4>2
        <5>2. receipt'[r] = [k EXCEPT !.staging = staging, !.doneBefore = before,
                               !.doneExpected = expected, !.doneShould = should,
                               !.doneStaged = staged]
          BY <1>0, <5>1 DEF Write
        <5> QED
          BY <3>2, <5>2 DEF Keeps
      <4> QED
        BY <4>1, <4>2
    <3> QED
      BY <1>9, <3>3 DEF Intend, repo, InOrder, Goto
  <2> QED
    BY <1>0, <2>1 DEF Advance, SamePhase, Goto, Moving, Committing
<1>10. CASE StageSource(r)
  <2>1. k.phase \notin {"none", "committed"}
    BY <1>10 DEF StageSource, Goto, InOrder, Committing
  <2> QED
    BY <1>2, <1>10, <2>1 DEF StageSource, durable, Moving, Committing
<1>11. ASSUME NEW from \in Committing, pc[r] = from, Quiet, UNCHANGED main,
              NEW to \in Committing, Goto(r, {from}, to),
              \/ receipt' = receipt
              \/ \E staging : Write(r, [k EXCEPT !.staging = staging])
       PROVE  Advance(r) /\ main' = main
  <2>1. receipt'[r].phase = k.phase /\ Keeps(r)
    BY <1>0, <1>11 DEF Write, Keeps, Receipt
  <2>2. k.phase \notin {"none", "committed"}
    BY <1>11 DEF InOrder
  <2> QED
    BY <1>0, <1>11, <2>1, <2>2 DEF Advance, SamePhase, Goto, Committing, Moving
<1>12. CASE SourceChecked(r)
  <2>1. CASE Fails(r) /\ UNCHANGED receipt
    BY <1>1, <1>12, <2>1 DEF SourceChecked, repo
  <2>2. CASE ~(Fails(r) /\ UNCHANGED receipt)
    <3>1. /\ pc[r] \in Committing /\ Goto(r, {pc[r]}, "done") /\ Quiet /\ UNCHANGED main
          /\ receipt' = [receipt EXCEPT ![r] = k] \/ \E staging : Write(r, [k EXCEPT !.staging = staging])
      BY <1>12, <2>2 DEF SourceChecked, Write, repo, Committing
    <3>2. [receipt EXCEPT ![r] = k] = receipt
      BY <1>0
    <3> QED
      BY <1>11, <3>1, <3>2 DEF Committing
  <2> QED
    BY <2>1, <2>2
<1>13. CASE StageDone(r)
  BY <1>11, <1>13 DEF StageDone, durable, Goto, Committing
<1>14. CASE DoneChecked(r)
  <2>1. CASE Fails(r) /\ UNCHANGED receipt
    BY <1>1, <1>14, <2>1 DEF DoneChecked, repo
  <2>2. CASE ~(Fails(r) /\ UNCHANGED receipt)
    BY <1>11, <1>14, <2>2 DEF DoneChecked, repo, Committing
  <2> QED
    BY <2>1, <2>2
<1>15. CASE Record(r)
  <2>0. pc[r] = "record" /\ k.phase \notin {"none", "committed"}
    BY <1>15 DEF Record, InOrder, Committing
  <2>1. CASE Fails(r) /\ UNCHANGED receipt
    BY <1>1, <1>15, <2>1 DEF Record, repo
  <2>2. CASE ~(Fails(r) /\ UNCHANGED receipt)
    <3>1. /\ Goto(r, {"record"}, "completed") \/ Goto(r, {"record"}, "check")
          /\ Quiet /\ main' = main
          /\ \/ receipt' = [receipt EXCEPT ![r] = k]
             \/ \E paths, after : Write(r, [k EXCEPT !.phase = "commit_pending", !.paths = paths,
                                              !.doneAfter = after])
      BY <1>15, <2>2 DEF Record, Write, repo
    <3>2. /\ Keeps(r)
          /\ receipt'[r].phase \in {k.phase, "commit_pending"}
      <4>1. ASSUME NEW paths, NEW after
            PROVE  LET new == [k EXCEPT !.phase = "commit_pending", !.paths = paths,
                                 !.doneAfter = after]
                   IN  /\ new.phase = "commit_pending" /\ new.status = k.status
                       /\ new.candidate = k.candidate /\ new.parent = k.parent
                       /\ new.commit = k.commit /\ new.sourceBlob = k.sourceBlob
        <5> HIDE DEF k
        <5> QED
          BY <1>0 DEF Receipt
      <4>2. CASE receipt' = [receipt EXCEPT ![r] = k]
        BY <1>0, <4>2 DEF Keeps
      <4>3. CASE receipt' # [receipt EXCEPT ![r] = k]
        <5>1. PICK paths, after :
                Write(r, [k EXCEPT !.phase = "commit_pending", !.paths = paths, !.doneAfter = after])
          BY <3>1, <4>3
        <5>2. receipt'[r] = [k EXCEPT !.phase = "commit_pending", !.paths = paths,
                               !.doneAfter = after]
          BY <1>0, <5>1 DEF Write
        <5> QED
          BY <4>1, <5>2 DEF Keeps
      <4> QED
        BY <4>2, <4>3
    <3>3. pc[r] = "record" /\ pc'[r] \in {"completed", "check"}
      BY <1>0, <3>1 DEF Goto
    <3> QED
      BY <2>0, <3>1, <3>2, <3>3 DEF Advance, SamePhase, Committing, Moving
  <2> QED
    BY <2>1, <2>2
<1>16. CASE Check(r)
  <2>1. CASE Fails(r)
    BY <1>1, <1>16, <2>1 DEF Check, repo, durable
  <2>2. CASE ~Fails(r)
    BY <1>11, <1>16, <2>2 DEF Check, repo, durable, Committing
  <2> QED
    BY <2>1, <2>2
<1>17. CASE GitCommit(r)
  <2>0. k.phase \notin {"none", "committed"}
    BY <1>17 DEF GitCommit, InOrder, Committing
  <2>1. CASE Fails(r) /\ UNCHANGED main
    BY <1>1, <1>17, <2>1 DEF GitCommit, durable
  <2>2. CASE ~(Fails(r) /\ UNCHANGED main)
    <3>1. Goto(r, {"commit"}, "verify") /\ Quiet /\ receipt' = receipt
      BY <1>17, <2>2 DEF GitCommit, durable
    <3> QED
      BY <1>0, <1>17, <2>0, <3>1 DEF Advance, SamePhase, Goto, Keeps, Moving, Committing
  <2> QED
    BY <2>1, <2>2
<1>18. CASE Verify(r)
  <2> DEFINE blob == IF Done(r) \in seen[r].staged THEN seen[r].done ELSE k.doneAfter
  <2>1. CASE Fails(r) /\ UNCHANGED receipt
    BY <1>1, <1>18, <2>1 DEF Verify, repo
  <2>2. CASE ~(Fails(r) /\ UNCHANGED receipt)
    <3>1. /\ CommitMatches(r, Tip, seen[r].staged, blob) /\ Goto(r, {"verify"}, AfterCommit)
          /\ Write(r, [k EXCEPT !.phase = "committed", !.commit = Tip, !.doneAfter = blob])
          /\ Quiet /\ Still
      BY <1>18, <2>2 DEF Verify, repo, Still
    <3>2. LET new == [k EXCEPT !.phase = "committed", !.commit = Tip, !.doneAfter = blob]
          IN  /\ receipt'[r] = new /\ new.phase = "committed" /\ new.commit = Tip
              /\ new.status = k.status /\ new.candidate = k.candidate /\ new.parent = k.parent
              /\ new.sourceBlob = k.sourceBlob
      <4> HIDE DEF blob
      <4> QED
        BY <1>0, <3>1 DEF Write, Receipt
    <3>3. pc[r] = "verify" /\ pc'[r] = AfterCommit
      BY <1>0, <3>1 DEF Goto
    <3> QED
      BY <3>1, <3>2, <3>3 DEF Settle, CommitMatches
  <2> QED
    BY <2>1, <2>2
<1> QED
  BY <1>3, <1>4, <1>5, <1>6, <1>7, <1>8, <1>9, <1>10, <1>12, <1>13, <1>14, <1>15, <1>16,
     <1>17, <1>18 DEF Finalize

\* Nothing of another run.
LEMMA OthersPublish ==
  ASSUME TypeOK, NEW a \in Runs, Publish(a), NEW r \in Runs, r # a
  PROVE  Same(r)
<1>0. ASSUME NEW k, Write(a, k) PROVE receipt'[r] = receipt[r]
  BY <1>0 DEF Write, TypeOK
<1>1. ASSUME Fails(a) PROVE pc'[r] = pc[r]
  BY <1>1 DEF Fails, TypeOK
<1>2. ASSUME NEW from, NEW to, Goto(a, from, to) PROVE pc'[r] = pc[r]
  BY <1>2 DEF Goto, TypeOK
<1>3. leg \in [Runs -> {"approved", "lifecycle"}] /\ fetched \in [Runs -> [own : Nat, foreign : Nat]]
  BY DEF TypeOK
<1>4. CASE Admit(a)
  BY <1>1, <1>2, <1>4 DEF Admit, durable, Same
<1>5. CASE Candidate(a)
  BY <1>0, <1>1, <1>2, <1>5 DEF Candidate, Refused, Same
<1>6. CASE Fetch(a)
  BY <1>2, <1>3, <1>6 DEF Fetch, durable, Same
<1>7. CASE Push(a)
  BY <1>2, <1>7 DEF Push, durable, Same
<1>8. CASE PushFails(a)
  BY <1>0, <1>1, <1>8 DEF PushFails, Refused, Same
<1>9. CASE Published(a)
  BY <1>0, <1>2, <1>3, <1>9 DEF Published, Same
<1> QED
  BY <1>4, <1>5, <1>6, <1>7, <1>8, <1>9 DEF Publish

LEMMA OthersFinalize ==
  ASSUME TypeOK, NEW a \in Runs, Finalize(a), NEW r \in Runs, r # a
  PROVE  Same(r)
<1>0. ASSUME NEW k, Write(a, k) PROVE receipt'[r] = receipt[r]
  BY <1>0 DEF Write, TypeOK
<1>1. ASSUME Fails(a) PROVE pc'[r] = pc[r]
  BY <1>1 DEF Fails, TypeOK
<1>2. ASSUME NEW from, NEW to, Goto(a, from, to) PROVE pc'[r] = pc[r]
  BY <1>2 DEF Goto, TypeOK
<1>3. CASE Prepare(a)
  BY <1>0, <1>1, <1>2, <1>3 DEF Prepare, Same
<1>4. CASE Continue(a)
  BY <1>1, <1>2, <1>4 DEF Continue, durable, Same
<1>5. CASE Move(a)
  BY <1>1, <1>2, <1>5 DEF Move, durable, Same
<1>6. CASE Moved(a)
  BY <1>0, <1>2, <1>6 DEF Moved, Same
<1>7. CASE Untracked(a)
  BY <1>2, <1>7 DEF Untracked, durable, Same
<1>8. CASE Recover(a)
  BY <1>0, <1>1, <1>2, <1>8 DEF Recover, Same
<1>9. CASE Intend(a)
  BY <1>0, <1>2, <1>9 DEF Intend, Same
<1>10. CASE StageSource(a)
  BY <1>2, <1>10 DEF StageSource, durable, Same
<1>11. CASE SourceChecked(a)
  BY <1>0, <1>1, <1>2, <1>11 DEF SourceChecked, Same
<1>12. CASE StageDone(a)
  BY <1>2, <1>12 DEF StageDone, durable, Same
<1>13. CASE DoneChecked(a)
  BY <1>0, <1>1, <1>2, <1>13 DEF DoneChecked, Same
<1>14. CASE Record(a)
  BY <1>0, <1>1, <1>2, <1>14 DEF Record, Same
<1>15. CASE Check(a)
  BY <1>1, <1>2, <1>15 DEF Check, durable, Same
<1>16. CASE GitCommit(a)
  BY <1>1, <1>2, <1>16 DEF GitCommit, durable, Same
<1>17. CASE Verify(a)
  BY <1>0, <1>1, <1>2, <1>17 DEF Verify, Same
<1> QED
  BY <1>3, <1>4, <1>5, <1>6, <1>7, <1>8, <1>9, <1>10, <1>11, <1>12, <1>13, <1>14, <1>15,
     <1>16, <1>17 DEF Finalize

Steps(a) == Deliver(a) \/ CallFails(a) \/ Crash(a)

LEMMA Others ==
  ASSUME TypeOK, NEW a \in Runs, Steps(a), NEW r \in Runs, r # a
  PROVE  Same(r)
<1>1. CASE Approve(a)
  BY <1>1 DEF Approve, Goto, durable, Same, TypeOK
<1>2. CASE Retry(a)
  BY <1>2 DEF Retry, Goto, durable, Same, TypeOK
<1>3. CASE Resume(a)
  BY <1>3 DEF Resume, Goto, Write, Same, TypeOK
<1>4. CASE CallFails(a)
  BY <1>4 DEF CallFails, Refused, Fails, Write, Same, TypeOK
<1>5. CASE Crash(a)
  BY <1>5 DEF Crash, durable, Same, TypeOK
<1> QED
  BY <1>1, <1>2, <1>3, <1>4, <1>5, OthersPublish, OthersFinalize DEF Steps, Deliver

\* The step of an outsider, or none.
LEMMA Outside ==
  ASSUME Outsider \/ UNCHANGED vars
  PROVE  (\A r \in Runs : Same(r)) /\ UNCHANGED lock
BY DEF Outsider, Meddle, durable, vars, Same

LEMMA Actor ==
  ASSUME [Next]_vars
  PROVE  (Outsider \/ UNCHANGED vars) \/ \E a \in Runs : Steps(a)
BY DEF Next, Steps

\* What is appended to the history: code once, by a run that begins to deliver, and lifecycle
\* commits of what is staged.
Adds(c) ==
  /\ main' = Append(main, c) /\ c \in Commit
  /\ c.kind = "code" => c.by \in Runs /\ pc[c.by] = "working" /\ pc'[c.by] # "working"
  /\ c.kind = "lifecycle" =>
       /\ c.by \in Runs /\ pc[c.by] = "commit" /\ pc'[c.by] # "commit"
       /\ c.paths = {p \in Path : c.tree[p] # TipTree[p]}

LEMMA HistoryFinalize ==
  ASSUME TypeOK, NEW a \in Runs, Finalize(a)
  PROVE  (main' = main \/ \E c : Adds(c)) /\ remote' = remote
<1>1. CASE GitCommit(a)
  <2> DEFINE c == [kind |-> "lifecycle", by |-> a, paths |-> Staged, tree |-> index]
  <2>1. c \in Commit
    BY LifecycleCommit
  <2>2. remote' = remote /\ (main' = main \/ (main' = Append(main, c) /\ Goto(a, {"commit"}, "verify")))
    BY <1>1 DEF GitCommit
  <2>3. Goto(a, {"commit"}, "verify") => pc[a] = "commit" /\ pc'[a] # "commit"
    BY DEF Goto, TypeOK
  <2>4. c.paths = {p \in Path : c.tree[p] # TipTree[p]} /\ c.kind = "lifecycle" /\ c.by = a
    BY DEF Staged
  <2> HIDE DEF c
  <2>5. main' = Append(main, c) /\ Goto(a, {"commit"}, "verify") => Adds(c)
    BY <2>1, <2>3, <2>4 DEF Adds
  <2> QED
    BY <2>2, <2>5
<1>2. CASE Move(a) \/ StageSource(a) \/ StageDone(a) \/ SourceChecked(a) \/ DoneChecked(a)
  BY <1>2 DEF Move, StageSource, StageDone, SourceChecked, DoneChecked, repo
<1>3. CASE Prepare(a) \/ Continue(a) \/ Moved(a) \/ Untracked(a) \/ Recover(a)
  BY <1>3 DEF Prepare, Continue, Moved, Untracked, Recover, repo
<1>4. CASE Intend(a) \/ Record(a) \/ Check(a) \/ Verify(a)
  BY <1>4 DEF Intend, Record, Check, Verify, repo
<1> QED
  BY <1>1, <1>2, <1>3, <1>4 DEF Finalize

LEMMA HistorySteps ==
  ASSUME TypeOK, Serial, [Next]_vars
  PROVE  (main' = main \/ \E c : Adds(c)) /\ remote.own <= remote'.own
<1>0. /\ remote \in [own : Nat, foreign : Nat] /\ remote.own \in Nat
      /\ \A r \in Runs : fetched[r].own \in Nat /\ receipt[r].candidate \in Nat
  BY ParseReceipt DEF TypeOK
<1>1. CASE Outsider
  <2>1. /\ \/ main' = main
           \/ main' = Append(main, [kind |-> "other", by |-> Nobody, paths |-> Staged, tree |-> index])
        /\ remote' = remote \/ remote' = [remote EXCEPT !.foreign = remote.foreign + 1]
    BY <1>1 DEF Outsider, repo
  <2>2. [kind |-> "other", by |-> Nobody, paths |-> Staged, tree |-> index] \in Commit
    BY DEF Commit, Staged, TypeOK
  <2>3. remote.own <= remote'.own
    BY <1>0, <2>1
  <2> DEFINE c == [kind |-> "other", by |-> Nobody, paths |-> Staged, tree |-> index]
  <2>4. c.kind = "other"
    OBVIOUS
  <2> HIDE DEF c
  <2>5. main' = Append(main, c) => Adds(c)
    BY <2>2, <2>4 DEF Adds, c
  <2> QED
    BY <2>1, <2>3, <2>5 DEF c
<1>2. CASE UNCHANGED vars
  BY <1>0, <1>2 DEF vars, repo
<1>3. ASSUME NEW a \in Runs, Approve(a)
      PROVE  (main' = main \/ \E c : Adds(c)) /\ remote.own <= remote'.own
  <2> DEFINE c == [kind |-> "code", by |-> a, paths |-> {}, tree |-> TipTree]
  <2>1. c \in Commit /\ c.kind = "code" /\ c.by = a
    BY TipType DEF Commit
  <2>2. main' = Append(main, c) /\ remote' = remote
    BY <1>3 DEF Approve
  <2>3. pc[a] = "working" /\ pc'[a] # "working"
    BY <1>3 DEF Approve, Goto, TypeOK
  <2> HIDE DEF c
  <2>4. Adds(c)
    BY <2>1, <2>2, <2>3 DEF Adds
  <2> QED
    BY <1>0, <2>2, <2>4
<1>4. ASSUME NEW a \in Runs, Publish(a)
      PROVE  main' = main /\ remote.own <= remote'.own
  <2>1. CASE Push(a)
    <3>1. receipt[a].candidate > fetched[a].own /\ remote = fetched[a] /\ main' = main
          /\ remote' = [remote EXCEPT !.own = receipt[a].candidate]
      BY <2>1 DEF Push, repo
    <3>2. remote'.own = receipt[a].candidate /\ fetched[a].own = remote.own
      BY <1>0, <3>1
    <3> QED
      BY <1>0, <3>1, <3>2
  <2>2. CASE ~Push(a)
    BY <1>0, <1>4, <2>2 DEF Publish, Admit, Candidate, Fetch, PushFails, Published, repo
  <2> QED
    BY <2>1, <2>2
<1>5. ASSUME NEW a \in Runs, Retry(a) \/ Resume(a) \/ CallFails(a) \/ Crash(a)
      PROVE  main' = main /\ remote.own <= remote'.own
  BY <1>0, <1>5 DEF Retry, Resume, CallFails, Crash, repo
<1> QED
  BY <1>0, <1>1, <1>2, <1>3, <1>4, <1>5, HistoryFinalize DEF Next, Deliver

-----------------------------------------------------------------------------
(* The history *)

History == main' = main \/ \E c : Adds(c)

LEMMA Prefix ==
  ASSUME TypeOK, History
  PROVE  /\ Len(main) \in Nat /\ Len(main') \in Nat /\ Len(main) <= Len(main')
         /\ \A n \in 1..Len(main) : main'[n] = main[n]
         /\ \A n \in 1..Len(main') : n \notin 1..Len(main) =>
              \E c \in Commit : Adds(c) /\ main'[n] = c /\ n = Len(main) + 1
<1>1. main \in Seq(Commit) /\ Len(main) \in Nat
  BY DEF TypeOK
<1>2. CASE main' = main
  BY <1>1, <1>2
<1>3. ASSUME NEW c, Adds(c)
      PROVE  /\ Len(main') = Len(main) + 1 /\ main'[Len(main) + 1] = c /\ c \in Commit
             /\ \A n \in 1..Len(main) : main'[n] = main[n]
  BY <1>1, <1>3 DEF Adds
<1> QED
  BY <1>1, <1>2, <1>3 DEF History

LEMMA CodeFrame ==
  ASSUME TypeOK, History, NEW r \in Runs, pc[r] = "working" => pc'[r] = "working",
         NEW n \in Nat, CodeUpTo(r, n)
  PROVE  \A m \in 1..Len(main') : main'[m].kind = "code" /\ main'[m].by = r => m <= n
<1> SUFFICES ASSUME NEW m \in 1..Len(main'), main'[m].kind = "code", main'[m].by = r
             PROVE  m <= n
  OBVIOUS
<1>1. m \in 1..Len(main)
  BY Prefix DEF Adds
<1> QED
  BY <1>1, Prefix DEF CodeUpTo

LEMMA NextDiffs ==
  ASSUME TypeOK, Diffs, History
  PROVE  Diffs'
<1> SUFFICES ASSUME NEW n \in 2..Len(main'), main'[n].kind = "lifecycle"
             PROVE  main'[n].paths = {p \in Path : main'[n].tree[p] # main'[n - 1].tree[p]}
  BY DEF Diffs
<1>1. Len(main) \in Nat /\ Len(main) >= 1 /\ n - 1 \in Nat
  BY TipType DEF Tip
<1>2. CASE n \in 1..Len(main)
  <2>1. main'[n] = main[n] /\ main'[n - 1] = main[n - 1] /\ n \in 2..Len(main)
    BY <1>1, <1>2, Prefix
  <2> QED
    BY <2>1 DEF Diffs
<1>3. CASE n \notin 1..Len(main)
  <2>1. PICK c \in Commit : Adds(c) /\ main'[n] = c /\ n = Len(main) + 1
    BY <1>1, <1>3, Prefix
  <2>2. main'[n - 1] = main[Len(main)]
    BY <1>1, <2>1, Prefix
  <2> QED
    BY <2>1, <2>2 DEF Adds, TipTree, Tip
<1> QED
  BY <1>2, <1>3

\* What a receipt attests stays so while the receipt does.
LEMMA AttestedFrame ==
  ASSUME TypeOK, History, NEW r \in Runs, Attested(r), Keeps(r),
         receipt'[r].phase # "none" => receipt[r].phase # "none",
         receipt'[r].phase = "committed" => receipt[r].phase = "committed"
  PROVE  Attested(r)'
<1>1. /\ receipt'[r].parent = receipt[r].parent /\ receipt'[r].commit = receipt[r].commit
      /\ receipt'[r].sourceBlob = receipt[r].sourceBlob
      /\ receipt[r].parent \in Nat /\ receipt[r].commit \in Nat
  BY ParseReceipt DEF Keeps, TypeOK
<1>2. receipt[r].phase # "none" => receipt[r].parent \in 1..Len(main')
  BY <1>1, Prefix DEF Attested
<1>3. ASSUME receipt[r].phase = "committed"
      PROVE  /\ receipt[r].commit \in 1..Len(main) /\ receipt[r].commit <= Len(main')
             /\ main'[receipt[r].commit] = main[receipt[r].commit]
  BY <1>1, <1>3, Prefix DEF Attested
<1> QED
  BY <1>1, <1>2, <1>3 DEF Attested

-----------------------------------------------------------------------------
(* A run that takes no step *)

Onward == History /\ remote.own <= remote'.own

LEMMA Numbers ==
  ASSUME TypeOK, NEW r \in Runs
  PROVE  /\ remote.own \in Nat /\ fetched[r].own \in Nat
         /\ receipt[r].candidate \in Nat /\ receipt[r].commit \in Nat /\ receipt[r].parent \in Nat
BY ParseReceipt DEF TypeOK

\* A new lifecycle commit, the run's own or the one it takes for it, comes
\* after its code.
LEMMA NextDeclared ==
  ASSUME TypeOK, TypeOK', Onward, NEW r \in Runs, Sound(r),
         receipt'[r].phase = "committed" =>
           \/ receipt[r].phase = "committed" /\ receipt'[r].commit = receipt[r].commit
           \/ leg[r] = "lifecycle"
  PROVE  Declared(r)'
<1>1. remote.own \in Nat /\ remote'.own \in Nat /\ receipt[r].commit \in Nat
      /\ remote.own <= remote'.own
  BY Numbers DEF Onward, TypeOK
<1> SUFFICES ASSUME Granted, NEW n \in 1..Len(main'), Declares(r, n)', NEW m \in 1..n,
                    main'[m].kind = "code", main'[m].by = r
             PROVE  m <= remote'.own
  BY DEF Declared
<1>2. Len(main) \in Nat /\ m \in 1..Len(main')
  BY Prefix DEF Onward
<1>3. CASE leg[r] = "lifecycle"
  <2>1. CodeUpTo(r, remote.own) /\ pc[r] # "working"
    BY <1>3 DEF Sound, InOrder
  <2>2. m <= remote.own
    BY <1>1, <1>2, <2>1, CodeFrame DEF Onward
  <2> QED
    BY <1>1, <2>2
<1>4. CASE leg[r] # "lifecycle"
  <2>1. n \in 1..Len(main) /\ Declares(r, n)
    <3>1. CASE main'[n].kind = "lifecycle" /\ main'[n].by = r
      <4>1. n \in 1..Len(main)
        BY <1>4, <3>1, Prefix DEF Adds, Onward, Sound, InOrder, Committing
      <4> QED
        BY <3>1, <4>1, Prefix DEF Onward, Declares
    <3>2. CASE receipt'[r].phase = "committed" /\ receipt'[r].commit = n
      BY <1>1, <1>2, <1>4, <3>2 DEF Declares, Sound, Attested
    <3> QED
      BY <3>1, <3>2 DEF Declares
  <2>2. m \in 1..n /\ main'[m] = main[m]
    BY <1>2, <2>1, Prefix DEF Onward
  <2>3. m <= remote.own
    BY <2>1, <2>2 DEF Sound, Declared
  <2> QED
    BY <1>1, <2>3
<1> QED
  BY <1>3, <1>4

LEMMA SameSound ==
  ASSUME TypeOK, TypeOK', Onward, NEW r \in Runs, Same(r), Sound(r)
  PROVE  Sound(r)'
<1>1. /\ remote.own \in Nat /\ remote'.own \in Nat /\ remote.own <= remote'.own
      /\ receipt[r].commit \in Nat /\ receipt[r].candidate \in Nat
  BY Numbers DEF Onward, TypeOK
<1>2. receipt'[r] = receipt[r] /\ pc'[r] = pc[r] /\ leg'[r] = leg[r]
  BY DEF Same
<1>3. \A n \in Nat : CodeUpTo(r, n) =>
        \A m \in 1..Len(main') : main'[m].kind = "code" /\ main'[m].by = r => m <= n
  BY <1>2, CodeFrame DEF Onward
<1>4. InOrder(r)'
  <2>1. Granted /\ leg[r] = "lifecycle" =>
          \A m \in 1..Len(main') : main'[m].kind = "code" /\ main'[m].by = r => m <= remote.own
    BY <1>1, <1>3 DEF Sound, InOrder
  <2>2. Granted /\ leg[r] = "lifecycle" =>
          \A m \in 1..Len(main') : main'[m].kind = "code" /\ main'[m].by = r => m <= remote'.own
    BY <1>1, <2>1, Prefix DEF Onward
  <2> QED
    BY <1>2, <2>2 DEF Sound, InOrder, CodeUpTo, Moving, Committing
<1>5. Attested(r)'
  BY <1>2, AttestedFrame DEF Onward, Keeps, Sound
<1>6. Whole(r)'
  <2>1. pc[r] \in {"fetch", "push", "pushed"} =>
          \A m \in 1..Len(main') : main'[m].kind = "code" /\ main'[m].by = r =>
            m <= receipt[r].candidate
    BY <1>1, <1>3 DEF Sound, Whole
  <2>2. pc[r] = "pushed" => receipt[r].candidate <= remote'.own
    BY <1>1 DEF Sound, Whole
  <2> QED
    BY <1>2, <2>1, <2>2 DEF Sound, Whole, CodeUpTo
<1>7. Declared(r)'
  BY <1>2, NextDeclared
<1> QED
  BY <1>1, <1>2, <1>4, <1>5, <1>6, <1>7 DEF Sound

-----------------------------------------------------------------------------
(* The run that takes the step *)

\* Publishing, in terms of the receipt's fields.
Enter(r) ==
  /\ pc[r] = "publish" /\ pc'[r] = "candidate" /\ lock = Nobody /\ lock' = r
  /\ \A s \in Runs \ {r} : ~Unresolved(s)
  /\ receipt'[r] = receipt[r] /\ owes'[r] = owes[r] /\ leg'[r] = leg[r]
  /\ fetched'[r] = fetched[r] /\ Still

Choose(r) ==
  LET k == receipt[r]
      new == receipt'[r]
  IN
  /\ pc[r] = "candidate" /\ pc'[r] = "fetch" /\ Still /\ lock' = lock
  /\ new.status = "pending" /\ new.candidate = Tip
  /\ new.phase = k.phase /\ new.parent = k.parent /\ new.commit = k.commit
  /\ new.sourceBlob = k.sourceBlob
  /\ leg'[r] = leg[r] /\ fetched'[r] = fetched[r] /\ owes'[r] = owes[r]

Land(r) ==
  LET k == receipt[r]
      new == receipt'[r]
  IN
  /\ pc[r] = "pushed" \/ (pc[r] = "push" /\ k.candidate <= fetched[r].own)
  /\ pc'[r] = IF leg[r] = "approved" THEN "finalize" ELSE "completed"
  /\ leg'[r] = "lifecycle" /\ Still /\ Unlock(r)
  /\ new.status = "published" /\ new.candidate = k.candidate
  /\ new.phase = k.phase /\ new.parent = k.parent /\ new.commit = k.commit
  /\ new.sourceBlob = k.sourceBlob
  /\ fetched'[r] = fetched[r] /\ owes'[r] = owes[r]

LEMMA PublishSteps ==
  ASSUME TypeOK, NEW r \in Runs, Publish(r)
  PROVE  Fall(r) \/ Enter(r) \/ Choose(r) \/ Fetch(r) \/ Push(r) \/ Land(r)
<1> DEFINE k == receipt[r]
<1>0. /\ receipt \in [Runs -> Receipt] /\ pc \in [Runs -> Stage] /\ k \in Receipt
      /\ leg \in [Runs -> {"approved", "lifecycle"}] /\ fetched \in [Runs -> [own : Nat, foreign : Nat]]
  BY DEF TypeOK, Stage
<1>1. CASE Admit(r)
  <2>1. CASE Fails(r)
    BY <1>1, <2>1, FailsFall DEF Admit, Still, repo, durable
  <2>2. CASE ~Fails(r)
    BY <1>0, <1>1, <2>2 DEF Admit, Goto, Enter, Still, repo, durable
  <2> QED
    BY <2>1, <2>2
<1>2. CASE Candidate(r)
  <2>1. CASE Refused(r)
    BY <1>2, <2>1, RefusedFalls DEF Candidate, Publishing, Still, repo
  <2>2. CASE ~Refused(r)
    <3>1. LET new == [k EXCEPT !.status = "pending", !.candidate = Tip]
          IN  /\ new.status = "pending" /\ new.candidate = Tip
              /\ new.phase = k.phase /\ new.parent = k.parent /\ new.commit = k.commit
              /\ new.sourceBlob = k.sourceBlob
      <4> HIDE DEF k
      <4> QED
        BY <1>0 DEF Receipt
    <3>2. /\ receipt'[r] = [k EXCEPT !.status = "pending", !.candidate = Tip]
          /\ pc[r] = "candidate" /\ pc'[r] = "fetch" /\ lock' = lock
      BY <1>0, <1>2, <2>2 DEF Candidate, Goto, Write
    <3> QED
      BY <1>2, <3>1, <3>2 DEF Candidate, Choose, Still, repo
  <2> QED
    BY <2>1, <2>2
<1>3. CASE PushFails(r)
  BY <1>3, RefusedFalls DEF PushFails, Publishing, Still, repo
<1>4. CASE Published(r)
  <2>1. LET new == [k EXCEPT !.status = "published"]
        IN  /\ new.status = "published" /\ new.candidate = k.candidate
            /\ new.phase = k.phase /\ new.parent = k.parent /\ new.commit = k.commit
            /\ new.sourceBlob = k.sourceBlob
    <3> HIDE DEF k
    <3> QED
      BY <1>0 DEF Receipt
  <2>2. /\ receipt'[r] = [k EXCEPT !.status = "published"]
        /\ pc'[r] = IF leg[r] = "approved" THEN "finalize" ELSE "completed"
        /\ leg'[r] = "lifecycle"
    BY <1>0, <1>4 DEF Published, Goto, Write
  <2> QED
    BY <1>4, <2>1, <2>2 DEF Published, Land, Still, repo
<1> QED
  BY <1>1, <1>2, <1>3, <1>4 DEF Publish

LEMMA FaultSteps ==
  ASSUME TypeOK, NEW r \in Runs, CallFails(r) \/ Crash(r)
  PROVE  Fall(r)
<1>1. CASE CallFails(r)
  BY <1>1, FailsFall, RefusedFalls DEF CallFails, Still, repo
<1>2. CASE Crash(r)
  BY <1>2 DEF Crash, Fall, Still, repo, durable, TypeOK
<1> QED
  BY <1>1, <1>2

LEMMA ActorSteps ==
  ASSUME TypeOK, NEW r \in Runs, InOrder(r), Steps(r)
  PROVE  \/ Approve(r) \/ Enter(r) \/ Choose(r) \/ Fetch(r) \/ Push(r) \/ Land(r)
         \/ Fall(r) \/ Settle(r) \/ Advance(r) \/ Retry(r) \/ Resume(r)
BY PublishSteps, FinalizeSteps, FaultSteps DEF Steps, Deliver

\* What has been shown of a run's code stays so, unless it begins.
LEMMA CodeStays ==
  ASSUME TypeOK, TypeOK', Onward, NEW r \in Runs, pc[r] # "working", Sound(r)
  PROVE  /\ Granted /\ leg[r] = "lifecycle" => CodeUpTo(r, remote.own)'
         /\ \A n \in Nat : CodeUpTo(r, n) =>
              \A m \in 1..Len(main') : main'[m].kind = "code" /\ main'[m].by = r => m <= n
<1>1. /\ remote.own \in Nat /\ remote'.own \in Nat /\ remote.own <= remote'.own
  BY Numbers DEF Onward, TypeOK
<1>2. \A n \in Nat : CodeUpTo(r, n) =>
        \A m \in 1..Len(main') : main'[m].kind = "code" /\ main'[m].by = r => m <= n
  BY CodeFrame DEF Onward
<1>3. ASSUME Granted, leg[r] = "lifecycle" PROVE CodeUpTo(r, remote.own)'
  <2>1. \A m \in 1..Len(main') : main'[m].kind = "code" /\ main'[m].by = r => m <= remote.own
    BY <1>1, <1>2, <1>3 DEF Sound, InOrder
  <2>2. Len(main') \in Nat
    BY Prefix DEF Onward
  <2> QED
    BY <1>1, <2>1, <2>2 DEF CodeUpTo
<1> QED
  BY <1>2, <1>3

LEMMA FallSound ==
  ASSUME TypeOK, TypeOK', Onward, NEW r \in Runs, Sound(r), pc[r] # "working", Fall(r)
  PROVE  Sound(r)'
<1>1. /\ remote.own \in Nat /\ remote'.own \in Nat /\ remote.own <= remote'.own
      /\ receipt[r].commit \in Nat /\ receipt[r].candidate \in Nat
  BY Numbers DEF Onward, TypeOK
<1>2. /\ pc'[r] \in {"failed", "crashed"} /\ leg'[r] = leg[r]
      /\ receipt'[r].phase = receipt[r].phase /\ receipt'[r].parent = receipt[r].parent
      /\ receipt'[r].commit = receipt[r].commit /\ receipt'[r].candidate = receipt[r].candidate
      /\ receipt'[r].sourceBlob = receipt[r].sourceBlob
      /\ receipt'[r].status \in {receipt[r].status, "failed"}
  <2>1. receipt[r] \in Receipt /\ receipt \in [Runs -> Receipt]
    BY DEF TypeOK
  <2>2. LET new == [receipt[r] EXCEPT !.status = "failed"]
        IN  /\ new.status = "failed" /\ new.candidate = receipt[r].candidate
            /\ new.phase = receipt[r].phase /\ new.parent = receipt[r].parent
            /\ new.commit = receipt[r].commit /\ new.sourceBlob = receipt[r].sourceBlob
    BY <2>1 DEF Receipt
  <2> QED
    BY <2>1, <2>2 DEF Fall
<1>3. main' = main /\ remote' = remote
  BY DEF Fall, Still
<1>4. InOrder(r)'
  BY <1>2, CodeStays DEF Sound, InOrder, Moving, Committing
<1>5. Attested(r)' /\ Whole(r)'
  BY <1>2, <1>3 DEF Sound, Attested, Whole
<1>6. Declared(r)'
  BY <1>2, NextDeclared
<1> QED
  BY <1>2, <1>3, <1>4, <1>5, <1>6 DEF Sound

LEMMA AdvanceSound ==
  ASSUME TypeOK, TypeOK', Onward, NEW r \in Runs, Sound(r), Advance(r)
  PROVE  Sound(r)'
<1>1. /\ remote.own \in Nat /\ remote'.own \in Nat /\ remote'.own = remote.own
      /\ receipt[r].commit \in Nat /\ receipt[r].candidate \in Nat /\ receipt[r].parent \in Nat
  BY Numbers DEF Advance, TypeOK
<1>2. /\ receipt'[r].status = receipt[r].status /\ receipt'[r].candidate = receipt[r].candidate
      /\ pc[r] # "working" /\ leg[r] = "lifecycle" /\ leg'[r] = leg[r]
      /\ pc'[r] \in {"head", "completed"} \cup Moving \cup Committing
  BY DEF Advance, Keeps, Sound, InOrder, Moving, Committing
<1>3. InOrder(r)'
  BY <1>2, CodeStays DEF Advance, InOrder, Moving, Committing
<1>4. Attested(r)'
  <2>1. CASE Keeps(r) /\ SamePhase(r)
    <3>1. /\ receipt'[r].phase # "none" => receipt[r].phase # "none"
          /\ receipt'[r].phase = "committed" => receipt[r].phase = "committed"
      BY <2>1 DEF SamePhase
    <3> QED
      BY <2>1, <3>1, AttestedFrame DEF Onward, Sound
  <2>2. CASE ~(Keeps(r) /\ SamePhase(r))
    <3>1. receipt'[r].phase = "prepared" /\ receipt'[r].parent = Tip
      BY <2>2 DEF Advance
    <3>2. Tip \in 1..Len(main')
      BY TipType, Prefix DEF Tip, Onward
    <3> QED
      BY <3>1, <3>2 DEF Attested
  <2> QED
    BY <2>1, <2>2
<1>5. Whole(r)'
  BY <1>2 DEF Whole, Moving, Committing
<1>6. Declared(r)'
  BY <1>2, NextDeclared
<1>7. pc'[r] = "completed" => receipt'[r].phase # "committed"
  BY DEF Advance
<1> QED
  BY <1>1, <1>2, <1>3, <1>4, <1>5, <1>6, <1>7 DEF Sound

LEMMA SettleSound ==
  ASSUME TypeOK, TypeOK', Onward, NEW r \in Runs, Sound(r), Settle(r)
  PROVE  Sound(r)'
<1>1. /\ receipt[r].commit \in Nat /\ receipt[r].candidate \in Nat /\ receipt[r].parent \in Nat
      /\ Tip \in Nat /\ Tip >= 1
  BY Numbers, TipType
<1>2. /\ receipt'[r].status = receipt[r].status /\ receipt'[r].candidate = receipt[r].candidate
      /\ pc[r] \in {"head", "verify"} /\ leg[r] = "lifecycle" /\ leg'[r] = leg[r]
      /\ pc'[r] \in {"publish", "completed"} /\ (Granted => pc'[r] = "publish")
      /\ main' = main /\ remote' = remote
  BY DEF Settle, Still, AfterCommit, Sound, InOrder, Committing
<1>3. InOrder(r)'
  BY <1>2, CodeStays DEF InOrder, Moving, Committing
<1>4. Attested(r)'
  <2>1. receipt[r].phase # "none"
    BY <1>2 DEF Sound, InOrder, Committing
  <2>2. receipt[r].parent \in 1..Len(main)
    BY <2>1 DEF Sound, Attested
  <2>3. receipt'[r].commit <= Len(main)
    BY <1>1 DEF Settle, Sound, Attested, Tip
  <2> QED
    BY <1>2, <2>2, <2>3 DEF Settle, Attested
<1>5. Whole(r)'
  BY <1>2 DEF Whole
<1>6. Declared(r)'
  BY <1>2, NextDeclared
<1> QED
  BY <1>2, <1>3, <1>4, <1>5, <1>6 DEF Sound

LEMMA PublishSound ==
  ASSUME TypeOK, TypeOK', Serial, Onward, NEW r \in Runs, Sound(r),
         Enter(r) \/ Choose(r) \/ Fetch(r) \/ Push(r) \/ Land(r)
  PROVE  Sound(r)'
<1> DEFINE k == receipt[r]
           new == receipt'[r]
<1>1. /\ remote.own \in Nat /\ remote'.own \in Nat /\ remote.own <= remote'.own
      /\ k.commit \in Nat /\ k.candidate \in Nat /\ fetched[r].own \in Nat
      /\ fetched[r].own <= remote.own /\ Tip \in Nat
  BY Numbers, TipType DEF Onward, TypeOK, Serial
<1>2. /\ pc[r] \in {"publish", "candidate", "fetch", "push", "pushed"} /\ main' = main
      /\ new.phase = k.phase /\ new.parent = k.parent /\ new.commit = k.commit
      /\ new.sourceBlob = k.sourceBlob
  BY DEF Enter, Choose, Fetch, Push, Land, Still, Goto, repo, durable
<1>3. Attested(r)'
  BY <1>2 DEF Sound, Attested
<1>4. Declared(r)'
  BY <1>2, NextDeclared
<1>5. \A n \in Nat : CodeUpTo(r, n) <=>
        \A m \in 1..Len(main') : main'[m].kind = "code" /\ main'[m].by = r => m <= n
  BY <1>2 DEF CodeUpTo
<1>6. CASE Land(r)
  <2>1. k.candidate <= remote.own /\ CodeUpTo(r, k.candidate)
        /\ (k.phase = "committed" => k.commit <= k.candidate)
    BY <1>1, <1>6 DEF Land, Sound, Whole
  <2>2. /\ new.status = "published" /\ new.candidate = k.candidate /\ leg'[r] = "lifecycle"
        /\ pc'[r] \in {"finalize", "completed"} /\ remote' = remote
    BY <1>6 DEF Land, Still
  <2>3. CodeUpTo(r, remote.own)'
    BY <1>1, <1>2, <2>1, <2>2, TipType DEF CodeUpTo, Tip
  <2>4. InOrder(r)'
    BY <2>2, <2>3 DEF InOrder, Moving, Committing
  <2>5. Whole(r)'
    BY <2>2 DEF Whole
  <2> QED
    BY <1>1, <1>2, <1>3, <1>4, <2>1, <2>2, <2>4, <2>5 DEF Sound
<1>7. CASE ~Land(r)
  <2>1. /\ pc'[r] \in {"candidate", "fetch", "push", "pushed"} /\ leg'[r] = leg[r]
    BY <1>7 DEF Enter, Choose, Fetch, Push, Goto, TypeOK
  <2>2. InOrder(r)'
    BY <1>2, <2>1, CodeStays DEF Sound, InOrder, Moving, Committing
  <2>3. CASE Choose(r)
    <3>1. CodeUpTo(r, Tip) /\ (k.phase = "committed" => k.commit <= Tip)
      BY <1>1 DEF CodeUpTo, Tip, Sound, Attested
    <3>2. Whole(r)'
      BY <1>1, <1>2, <1>5, <2>3, <3>1 DEF Choose, Whole, CodeUpTo
    <3>3. new.status = "pending"
      BY <2>3 DEF Choose
    <3> QED
      BY <1>3, <1>4, <2>1, <2>2, <3>2, <3>3 DEF Sound
  <2>4. CASE ~Choose(r)
    <3>1. new = k
      BY <1>7, <2>4 DEF Enter, Fetch, Push, durable
    <3>2. CASE Push(r)
      <4>1. remote'.own = k.candidate /\ pc[r] = "push"
        BY <3>2 DEF Push, Goto, TypeOK
      <4>2. Whole(r)'
        BY <1>1, <1>2, <1>5, <3>1, <4>1 DEF Sound, Whole, CodeUpTo
      <4> QED
        BY <1>1, <1>3, <1>4, <2>1, <2>2, <3>1, <4>2 DEF Sound
    <3>3. CASE ~Push(r)
      <4>1. \/ pc'[r] = "candidate"
            \/ pc[r] = "fetch" /\ pc'[r] = "push"
        BY <1>7, <2>4, <3>3 DEF Enter, Fetch, Goto, TypeOK
      <4>2. Whole(r)'
        BY <1>1, <1>2, <1>5, <3>1, <4>1 DEF Sound, Whole, CodeUpTo
      <4> QED
        BY <1>1, <1>3, <1>4, <2>1, <2>2, <3>1, <4>2 DEF Sound
    <3> QED
      BY <3>2, <3>3
  <2> QED
    BY <2>3, <2>4
<1> QED
  BY <1>6, <1>7

LEMMA OtherwiseSound ==
  ASSUME TypeOK, TypeOK', Onward, NEW r \in Runs, Sound(r),
         Approve(r) \/ Retry(r) \/ Resume(r)
  PROVE  Sound(r)'
<1>1. /\ remote.own \in Nat /\ remote'.own \in Nat /\ remote'.own = remote.own
  BY Numbers DEF Approve, Retry, Resume, TypeOK
<1>2. /\ pc'[r] \in {"publish", "finalize"}
      /\ leg'[r] \in {"approved", "lifecycle"}
      /\ pc'[r] = "finalize" => leg'[r] = "lifecycle"
      /\ Granted /\ leg'[r] = "lifecycle" => leg[r] = "lifecycle" /\ pc[r] # "working"
  <2>1. CASE Approve(r)
    BY <2>1 DEF Approve, Goto, TypeOK
  <2>2. CASE Retry(r)
    <3>1. leg' = leg /\ pc[r] = "failed"
          /\ pc'[r] = IF leg[r] = "approved" THEN "publish" ELSE "finalize"
      BY <2>2 DEF Retry, Goto, TypeOK
    <3> QED
      BY <3>1 DEF TypeOK
  <2>3. CASE Resume(r)
    BY <2>3 DEF Resume, Goto, TypeOK
  <2> QED
    BY <2>1, <2>2, <2>3
<1>3. \/ receipt'[r] = receipt[r]
      \/ receipt'[r].status = "none" /\ receipt'[r].phase = "none"
  BY DEF Approve, Retry, Resume, Write, NoReceipt, TypeOK, durable
<1>4. InOrder(r)'
  BY <1>2, CodeStays DEF InOrder, Moving, Committing
<1>5. Attested(r)'
  <2>1. CASE receipt'[r] = receipt[r]
    BY <2>1, AttestedFrame DEF Keeps, Onward, Sound
  <2>2. CASE receipt'[r].phase = "none"
    BY <2>2 DEF Attested
  <2> QED
    BY <1>3, <2>1, <2>2
<1>6. Whole(r)'
  BY <1>2 DEF Whole
<1>7. Declared(r)'
  BY <1>3, NextDeclared
<1> QED
  BY <1>1, <1>2, <1>3, <1>4, <1>5, <1>6, <1>7 DEF Sound

LEMMA NextSound ==
  ASSUME TypeOK, TypeOK', Serial, Onward, [Next]_vars, \A r \in Runs : Sound(r)
  PROVE  \A r \in Runs : Sound(r)'
<1> SUFFICES ASSUME NEW r \in Runs PROVE Sound(r)'
  OBVIOUS
<1>1. CASE Same(r)
  BY <1>1, SameSound
<1>2. CASE ~Same(r)
  <2>1. Steps(r)
    BY <1>2, Actor, Others, Outside
  <2>2. CASE Fall(r) /\ pc[r] # "working"
    BY <2>2, FallSound
  <2>3. CASE Fall(r) /\ pc[r] = "working"
    <3>1. Approve(r)
      BY <2>1, <2>3 DEF Steps, Deliver, Publish, Finalize, Admit, Candidate, Fetch, Push, PushFails,
         Published, Prepare, Continue, Move, Moved, Untracked, Recover, Intend, StageSource,
         SourceChecked, StageDone, DoneChecked, Record, Check, GitCommit, Verify, Retry, Resume,
         CallFails, Crash, Goto, Delivering
    <3> QED
      BY <3>1, OtherwiseSound
  <2> QED
    BY <2>1, <2>2, <2>3, ActorSteps, PublishSound, SettleSound, AdvanceSound, OtherwiseSound DEF Sound
<1> QED
  BY <1>1, <1>2

-----------------------------------------------------------------------------
(* The lock and the gate *)

LEMMA LockSteps ==
  ASSUME TypeOK, NEW a \in Runs, InOrder(a), Steps(a)
  PROVE  \/ lock' = lock \/ (lock = a /\ lock' = Nobody) \/ (lock = Nobody /\ lock' = a)
BY ActorSteps DEF Approve, Enter, Choose, Fetch, Push, Land, Fall, Settle, Advance, Retry, Resume,
   Unlock

LEMMA NextSerial ==
  ASSUME TypeOK, TypeOK', Serial, Onward, [Next]_vars, \A r \in Runs : Sound(r)
  PROVE  Serial'
<1> SUFFICES ASSUME NEW r \in Runs
             PROVE  (Publishing(r)' => lock' = r) /\ fetched'[r].own <= remote'.own
  BY DEF Serial
<1>1. /\ remote.own \in Nat /\ remote'.own \in Nat /\ remote.own <= remote'.own
      /\ fetched[r].own \in Nat /\ fetched[r].own <= remote.own
      /\ Publishing(r) => lock = r
  BY Numbers DEF Onward, TypeOK, Serial
<1>2. CASE Steps(r)
  <2>1. fetched'[r].own <= remote'.own
    <3>1. fetched'[r] = fetched[r] \/ (fetched'[r] = remote /\ remote' = remote)
      BY <1>2, ActorSteps
      DEF Sound, Approve, Enter, Choose, Fetch, Push, Land, Fall, Settle, Advance, Retry, Resume, TypeOK
    <3> QED
      BY <1>1, <3>1
  <2>2. Publishing(r)' => lock' = r
    <3>1. CASE Enter(r)
      BY <3>1 DEF Enter
    <3>2. CASE Choose(r) \/ Fetch(r) \/ Push(r)
      BY <1>1, <3>2 DEF Choose, Fetch, Push, Goto, Publishing
    <3>3. CASE Approve(r) \/ Land(r) \/ Retry(r) \/ Resume(r) \/ Fall(r)
      BY <3>3 DEF Approve, Land, Retry, Resume, Fall, Goto, Publishing, TypeOK
    <3>4. CASE Advance(r) \/ Settle(r)
      BY <3>4 DEF Advance, Settle, AfterCommit, Moving, Committing, Publishing
    <3> QED
      BY <1>2, <3>1, <3>2, <3>3, <3>4, ActorSteps DEF Sound
  <2> QED
    BY <2>1, <2>2
<1>3. CASE ~Steps(r)
  <2>1. Same(r)
    BY <1>3, Actor, Others, Outside
  <2>2. lock = r => lock' = r
    <3>1. CASE UNCHANGED lock
      BY <3>1
    <3>2. CASE ~UNCHANGED lock
      <4>1. PICK a \in Runs : Steps(a) /\ a # r
        BY <1>3, <3>2, Actor, Outside
      <4> QED
        BY <4>1, LockSteps, DeliveryAssumption DEF Sound
    <3> QED
      BY <3>1, <3>2
  <2> QED
    BY <1>1, <2>1, <2>2 DEF Same, Publishing
<1> QED
  BY <1>2, <1>3

\* A run fails to publish only while it publishes.
LEMMA Owing ==
  ASSUME TypeOK, NEW s \in Runs, InOrder(s), Steps(s), Unresolved(s)'
  PROVE  Unresolved(s) \/ Publishing(s)
<1>1. receipt \in [Runs -> Receipt] /\ owes \in [Runs -> BOOLEAN]
  BY DEF TypeOK
<1>2. CASE Resume(s)
  BY <1>1, <1>2 DEF Resume, Write, NoReceipt, Unresolved
<1>3. CASE Approve(s) \/ Enter(s) \/ Fetch(s) \/ Push(s) \/ Retry(s)
  BY <1>3 DEF Approve, Enter, Fetch, Push, Retry, durable, Unresolved
<1>4. CASE Choose(s) \/ Land(s)
  BY <1>4 DEF Choose, Land, Publishing
<1>5. CASE Fall(s)
  BY <1>1, <1>5 DEF Fall, Unresolved
<1>6. CASE Settle(s) \/ Advance(s)
  BY <1>6 DEF Settle, Advance, Keeps, Unresolved
<1> QED
  BY <1>2, <1>3, <1>4, <1>5, <1>6, ActorSteps

LEMMA NextGates ==
  ASSUME TypeOK, Serial, FailureGates, [Next]_vars, \A r \in Runs : Sound(r)
  PROVE  FailureGates'
<1> SUFFICES ASSUME NEW r \in Runs, Publishing(r)', NEW s \in Runs \ {r}, Unresolved(s)'
             PROVE  FALSE
  BY DEF FailureGates
<1>1. CASE Steps(s)
  <2>1. Same(r) /\ Publishing(r)
    BY <1>1, Others DEF Same, Publishing
  <2>2. ~Unresolved(s) /\ lock = r
    BY <2>1 DEF FailureGates, Serial
  <2> QED
    BY <1>1, <2>2, Owing DEF Sound, Serial
<1>2. CASE ~Steps(s)
  <2>1. Unresolved(s)
    <3>1. Same(s)
      BY <1>2, Actor, Others, Outside
    <3> QED
      BY <3>1 DEF Same, Unresolved
  <2>2. ~Publishing(r)
    BY <2>1 DEF FailureGates
  <2>3. ~Same(r)
    BY <2>2 DEF Same, Publishing
  <2>4. Steps(r)
    BY <2>3, Actor, Others, Outside
  <2>5. Enter(r)
    <3>1. CASE Choose(r) \/ Fetch(r) \/ Push(r)
      BY <2>2, <3>1 DEF Choose, Fetch, Push, Goto, Publishing
    <3>2. CASE Approve(r) \/ Land(r) \/ Retry(r) \/ Resume(r) \/ Fall(r)
      BY <3>2 DEF Approve, Land, Retry, Resume, Fall, Goto, Publishing, TypeOK
    <3>3. CASE Advance(r) \/ Settle(r)
      BY <3>3 DEF Advance, Settle, AfterCommit, Moving, Committing, Publishing
    <3> QED
      BY <2>4, <3>1, <3>2, <3>3, ActorSteps DEF Sound
  <2> QED
    BY <2>1, <2>5 DEF Enter
<1> QED
  BY <1>1, <1>2

-----------------------------------------------------------------------------
(* The theorems *)

LEMMA InitInv == Init => Inv
<1> SUFFICES ASSUME Init PROVE Inv
  OBVIOUS
<1>1. TypeOK
  BY InitType
<1>2. Len(main) = 1 /\ main[1].kind = "other" /\ remote.own = 1 /\ remote.own \in Nat
  BY DEF Init
<1>3. \A r \in Runs : /\ receipt[r] = NoReceipt /\ pc[r] = "working" /\ leg[r] = "approved"
                      /\ ~owes[r] /\ fetched[r].own = 1
  BY DEF Init
<1>4. Diffs
  BY <1>2 DEF Diffs
<1>5. Serial /\ FailureGates
  BY <1>2, <1>3 DEF Serial, FailureGates, Publishing
<1>6. ASSUME NEW r \in Runs PROVE Sound(r)
  <2>1. receipt[r].phase = "none" /\ receipt[r].status = "none"
    BY <1>3 DEF NoReceipt
  <2>2. InOrder(r) /\ Attested(r) /\ Whole(r)
    BY <1>3, <2>1 DEF InOrder, Attested, Whole, Moving, Committing
  <2>3. Declared(r)
    BY <1>2, <2>1 DEF Declared, Declares
  <2> QED
    BY <1>3, <2>1, <2>2, <2>3 DEF Sound
<1> QED
  BY <1>1, <1>4, <1>5, <1>6 DEF Inv

\* The inductive invariant holds.
THEOREM Invariant == Spec => []Inv
<1>1. Init => Inv
  BY InitInv
<1>2. Inv /\ [Next]_vars => Inv'
  <2> SUFFICES ASSUME Inv, [Next]_vars PROVE Inv'
    OBVIOUS
  <2>1. /\ TypeOK /\ Diffs /\ Serial /\ FailureGates
        /\ \A r \in Runs : Sound(r)
    BY DEF Inv
  <2>2. TypeOK'
    BY <2>1, NextType
  <2>3. Onward
    BY <2>1, HistorySteps DEF Onward, History
  <2>4. Diffs'
    BY <2>1, <2>3, NextDiffs DEF Onward
  <2>5. Serial' /\ FailureGates'
    BY <2>1, <2>2, <2>3, NextSerial, NextGates
  <2>6. \A r \in Runs : Sound(r)'
    BY <2>1, <2>2, <2>3, NextSound
  <2> QED
    BY <2>2, <2>4, <2>5, <2>6 DEF Inv
<1> QED
  BY <1>1, <1>2, PTL DEF Spec

\* Every variable has its type, whatever outsiders write.
THEOREM TypeCorrect == Spec => []TypeOK
<1>1. Inv => TypeOK
  BY DEF Inv
<1> QED
  BY <1>1, Invariant, PTL

\* A published receipt's candidate is in the remote's history, for every
\* number of runs, failures and outsiders (publication.py:1151-1200).
THEOREM PublicationIsTrue == Spec => []PublishedIsTrue
<1>1. Inv => PublishedIsTrue
  BY DEF Inv, Sound, PublishedIsTrue
<1> QED
  BY <1>1, Invariant, PTL

\* Nobody publishes past another run's failed publication
\* (publication.py:150-190).
THEOREM FailuresGate == Spec => []FailureGates
<1>1. Inv => FailureGates
  BY DEF Inv
<1> QED
  BY <1>1, Invariant, PTL

\* The approved code is in the remote's history before its plan is declared
\* done (workflow.py:7560-7590).
THEOREM CodeComesFirst == Spec => []CodeBeforePlan
<1>1. Inv => CodeBeforePlan
  BY DEF Inv, Sound, Declared, CodeBeforePlan
<1> QED
  BY <1>1, Invariant, PTL

\* The commit that a record names touches nothing of others
\* (publication.py:1049-1075).
THEOREM CommitsAreOwn == Spec => []CommitIsOwn
<1>1. Inv => CommitIsOwn
  <2> SUFFICES ASSUME Inv, NEW r \in Runs, receipt[r].phase = "committed"
               PROVE  LET n == receipt[r].commit
                          k == receipt[r]
                      IN
                      /\ main[n].kind = "lifecycle"
                      /\ k.sourceBlob # "absent" => main[n].tree[Source(r)] = "absent"
                      /\ \A p \in Path \ Owned(r) : main[n].tree[p] = main[n - 1].tree[p]
    BY DEF CommitIsOwn
  <2>1. Attested(r) /\ Diffs /\ TypeOK
    BY DEF Inv, Sound
  <2>2. receipt[r].parent \in 1..Len(main) /\ receipt[r].commit = receipt[r].parent + 1
        /\ receipt[r].commit <= Len(main) /\ receipt[r].parent \in Nat
    BY <2>1, Numbers DEF Attested
  <2>3. receipt[r].commit \in 2..Len(main)
    BY <2>2
  <2> QED
    BY <2>1, <2>3 DEF Attested, Diffs
<1> QED
  BY <1>1, Invariant, PTL

\* A completed run has published its lifecycle commit (workflow.py:7583-7590).
THEOREM CompletedArePublished == Spec => []CompletedIsPublished
<1>1. Inv => CompletedIsPublished
  BY DEF Inv, Sound, CompletedIsPublished
<1> QED
  BY <1>1, Invariant, PTL

-----------------------------------------------------------------------------
(* What those who follow the published branch see *)

\* What is published, or about to be, has been made; and without the grant
\* nobody publishes.
Within == remote.own <= Len(main) /\ \A r \in Runs : receipt[r].candidate <= Len(main)

Private ==
  ~Granted => \A r \in Runs :
    pc[r] # "working" => leg[r] = "lifecycle" /\ pc[r] # "publish" /\ ~Publishing(r)

\* The declaration that a run has recorded.
Declaring(r) == IF receipt[r].phase = "committed" THEN receipt[r].commit ELSE 0

Entry == {"other", "code", "lifecycle"} \X (Runs \cup {Nobody})

\* The log of a history.
Listed(s) == [n \in 1..Len(s) |-> <<s[n].kind, s[n].by>>]

LEMMA ListedType ==
  ASSUME NEW s \in Seq(Commit)
  PROVE  Listed(s) \in Seq(Entry) /\ Len(Listed(s)) = Len(s) /\ Len(s) \in Nat
<1>1. Len(s) \in Nat /\ DOMAIN Listed(s) = 1..Len(s)
  BY DEF Listed
<1>2. \A n \in 1..Len(s) : Listed(s)[n] \in Entry
  <2> TAKE n \in 1..Len(s)
  <2>1. s[n] \in Commit
    OBVIOUS
  <2>2. s[n].kind \in {"other", "code", "lifecycle"} /\ s[n].by \in Runs \cup {Nobody}
    BY <2>1 DEF Commit
  <2> QED
    BY <2>2 DEF Listed, Entry
<1>3. Listed(s) \in [1..Len(s) -> Entry]
  BY <1>2 DEF Listed
<1> QED
  BY <1>1, <1>3

\* A commit appended to the history is one appended to the log.
LEMMA LogAppend ==
  ASSUME TypeOK, NEW c \in Commit, main' = Append(main, c)
  PROVE  Log' = Append(Log, <<c.kind, c.by>>)
<1> DEFINE entry == <<c.kind, c.by>>
<1>1. main \in Seq(Commit) /\ main' \in Seq(Commit) /\ entry \in Entry
  BY DEF TypeOK, Commit, Entry
<1>2. /\ Len(main') = Len(main) + 1 /\ main'[Len(main) + 1] = c /\ Len(main) \in Nat
      /\ \A n \in 1..Len(main) : main'[n] = main[n]
  BY <1>1
<1>3. Log = Listed(main) /\ Log' = Listed(main')
  BY DEF Log, Listed
<1>4. /\ Listed(main') \in Seq(Entry) /\ Len(Listed(main')) = Len(main) + 1
      /\ Listed(main) \in Seq(Entry) /\ Len(Listed(main)) = Len(main)
  BY <1>1, <1>2, ListedType
<1>5. \A n \in 1..Len(main) : Listed(main')[n] = Listed(main)[n]
  BY <1>2 DEF Listed
<1>6. Listed(main')[Len(main) + 1] = entry
  BY <1>2 DEF Listed
<1> HIDE DEF entry
<1>7. /\ Append(Listed(main), entry) \in Seq(Entry)
      /\ Len(Append(Listed(main), entry)) = Len(main) + 1
      /\ Append(Listed(main), entry)[Len(main) + 1] = entry
      /\ \A n \in 1..Len(main) : Append(Listed(main), entry)[n] = Listed(main)[n]
  BY <1>1, <1>2, <1>4
<1>8. \A n \in 1..(Len(main) + 1) : Listed(main')[n] = Append(Listed(main), entry)[n]
  BY <1>2, <1>5, <1>6, <1>7
<1>9. Listed(main') = Append(Listed(main), entry)
  BY <1>2, <1>4, <1>7, <1>8
<1> QED
  BY <1>3, <1>9 DEF entry

\* The step of a run is that of nobody else.
LEMMA Alone ==
  ASSUME TypeOK, NEW a \in Runs, Steps(a)
  PROVE  pc[a] # "completed" /\ \A r \in Runs \ {a} : Same(r)
<1>1. pc[a] # "completed"
  BY DEF Steps, Deliver, Approve, Publish, Finalize, Admit, Candidate, Fetch, Push, PushFails,
     Published, Prepare, Continue, Move, Moved, Untracked, Recover, Intend, StageSource,
     SourceChecked, StageDone, DoneChecked, Record, Check, GitCommit, Verify, Retry, Resume,
     CallFails, Crash, Goto, Delivering
<1> QED
  BY <1>1, Others

LEMMA FallPhase ==
  ASSUME TypeOK, NEW r \in Runs, Fall(r)
  PROVE  /\ receipt'[r].phase = receipt[r].phase /\ receipt'[r].commit = receipt[r].commit
         /\ receipt'[r].candidate = receipt[r].candidate
<1>1. receipt[r] \in Receipt /\ receipt \in [Runs -> Receipt]
  BY DEF TypeOK
<1>2. LET new == [receipt[r] EXCEPT !.status = "failed"]
      IN  /\ new.phase = receipt[r].phase /\ new.commit = receipt[r].commit
          /\ new.candidate = receipt[r].candidate
  BY <1>1 DEF Receipt
<1> QED
  BY <1>1, <1>2 DEF Fall

LEMMA NextPrivate ==
  ASSUME TypeOK, Private, \A r \in Runs : InOrder(r), [Next]_vars
  PROVE  Private'
<1> SUFFICES ASSUME ~Granted, NEW r \in Runs, pc'[r] # "working"
             PROVE  leg'[r] = "lifecycle" /\ pc'[r] # "publish"
                    /\ pc'[r] \notin {"candidate", "fetch", "push", "pushed"}
  BY DEF Private, Publishing
<1>0. pc[r] # "working" => leg[r] = "lifecycle" /\ pc[r] # "publish"
        /\ pc[r] \notin {"candidate", "fetch", "push", "pushed"}
  BY DEF Private, Publishing
<1>1. CASE Same(r)
  BY <1>0, <1>1 DEF Same
<1>2. CASE ~Same(r)
  <2>1. Steps(r)
    BY <1>2, Actor, Others, Outside
  <2>2. CASE Approve(r)
    BY <2>2 DEF Approve, Goto, TypeOK
  <2>3. CASE Enter(r) \/ Choose(r) \/ Fetch(r) \/ Push(r) \/ Land(r)
    BY <1>0, <2>3 DEF Enter, Choose, Fetch, Push, Land, Goto
  <2>4. CASE Fall(r) /\ ~Approve(r)
    <3>1. pc[r] # "working"
      BY <2>1, <2>4 DEF Steps, Deliver, Publish, Finalize, Admit, Candidate, Fetch, Push, PushFails,
         Published, Prepare, Continue, Move, Moved, Untracked, Recover, Intend, StageSource,
         SourceChecked, StageDone, DoneChecked, Record, Check, GitCommit, Verify, Retry, Resume,
         CallFails, Crash, Goto, Delivering
    <3> QED
      BY <1>0, <2>4, <3>1 DEF Fall
  <2>5. CASE Settle(r)
    BY <1>0, <2>5 DEF Settle, AfterCommit
  <2>6. CASE Advance(r)
    BY <1>0, <2>6 DEF Advance, Moving, Committing
  <2>7. CASE Retry(r)
    <3>1. pc[r] = "failed" /\ leg' = leg
          /\ pc'[r] = IF leg[r] = "approved" THEN "publish" ELSE "finalize"
      BY <2>7 DEF Retry, Goto, TypeOK
    <3> QED
      BY <1>0, <3>1
  <2>8. CASE Resume(r)
    BY <2>8 DEF Resume, Goto, TypeOK
  <2> QED
    BY <2>1, <2>2, <2>3, <2>4, <2>5, <2>6, <2>7, <2>8, ActorSteps
<1> QED
  BY <1>1, <1>2

\* What a step does to the remote and to the candidates.
LEMMA NextWithin ==
  ASSUME TypeOK, TypeOK', Within, Onward, \A r \in Runs : InOrder(r), [Next]_vars
  PROVE  Within'
<1>1. /\ Len(main) \in Nat /\ Len(main') \in Nat /\ Len(main) <= Len(main')
      /\ remote.own \in Nat /\ Tip = Len(main)
  <2>1. Len(main) \in Nat /\ Len(main') \in Nat /\ Len(main) <= Len(main')
    BY Prefix DEF Onward
  <2> QED
    BY <2>1 DEF Tip, TypeOK
<1>2. \A r \in Runs : receipt'[r].candidate \in Nat /\ receipt[r].candidate \in Nat
  BY ParseReceipt DEF TypeOK
<1>3. ASSUME NEW r \in Runs
      PROVE  receipt'[r].candidate <= Len(main')
  <2>1. CASE Same(r)
    BY <1>1, <1>2, <2>1 DEF Same, Within
  <2>2. CASE ~Same(r)
    <3>1. Steps(r)
      BY <2>2, Actor, Others, Outside
    <3>2. receipt'[r].candidate \in {receipt[r].candidate, Tip, 0}
      <4>1. CASE Approve(r) \/ Enter(r) \/ Fetch(r) \/ Push(r) \/ Retry(r)
        BY <4>1 DEF Approve, Enter, Fetch, Push, Retry, durable
      <4>2. CASE Choose(r) \/ Land(r) \/ Settle(r) \/ Advance(r)
        BY <4>2 DEF Choose, Land, Settle, Advance, Keeps
      <4>3. CASE Fall(r)
        BY <4>3, FallPhase
      <4>4. CASE Resume(r)
        BY <4>4 DEF Resume, Write, NoReceipt, TypeOK
      <4> QED
        BY <3>1, <4>1, <4>2, <4>3, <4>4, ActorSteps
    <3> QED
      BY <1>1, <1>2, <3>2 DEF Within
  <2> QED
    BY <2>1, <2>2
<1>4. remote'.own \in {remote.own} \cup {receipt[r].candidate : r \in Runs}
  <2>1. CASE Outsider \/ UNCHANGED vars
    <3>1. remote' = remote \/ remote' = [remote EXCEPT !.foreign = remote.foreign + 1]
      BY <2>1 DEF Outsider, repo, vars
    <3> QED
      BY <3>1 DEF TypeOK
  <2>2. ASSUME NEW a \in Runs, Steps(a) PROVE remote' = remote \/ Push(a)
    <3>1. CASE Approve(a) \/ Retry(a) \/ Resume(a) \/ Enter(a) \/ Fetch(a)
      BY <3>1 DEF Approve, Retry, Resume, Enter, Fetch, Still
    <3>2. CASE Choose(a) \/ Land(a) \/ Fall(a) \/ Settle(a) \/ Advance(a)
      BY <3>2 DEF Choose, Land, Fall, Settle, Advance, Still
    <3> QED
      BY <2>2, <3>1, <3>2, ActorSteps
  <2>3. ASSUME NEW a \in Runs, Push(a) PROVE remote'.own = receipt[a].candidate
    BY <2>3 DEF Push, TypeOK
  <2> QED
    BY <2>1, <2>2, <2>3, Actor
<1> QED
  BY <1>1, <1>2, <1>3, <1>4 DEF Within

\* What the step of a run does to what it has declared and to who is through.
LEMMA ActorShown ==
  ASSUME TypeOK, NEW a \in Runs, Steps(a)
  PROVE  /\ Declaration' = [Declaration EXCEPT ![a] = Declaring(a)']
         /\ Through' = IF pc'[a] = "completed" THEN Through \cup {a} ELSE Through
         /\ Declaration[a] = Declaring(a) /\ a \notin Through
<1>1. pc[a] # "completed" /\ \A r \in Runs \ {a} : receipt'[r] = receipt[r] /\ pc'[r] = pc[r]
  BY Alone DEF Same
<1>2. \A r \in Runs : Declaration'[r] = Declaring(r)' /\ Declaration[r] = Declaring(r)
  BY DEF Declaration, Declaring
<1>3. \A r \in Runs \ {a} : Declaring(r)' = Declaring(r)
  BY <1>1 DEF Declaring
<1>4. Declaration' = [Declaration EXCEPT ![a] = Declaring(a)']
  <2>1. Declaration = [r \in Runs |-> Declaring(r)] /\ Declaration' = [r \in Runs |-> Declaring(r)']
    BY DEF Declaration, Declaring
  <2>2. [Declaration EXCEPT ![a] = Declaring(a)'] = [r \in Runs |-> Declaring(r)']
    <3> HIDE DEF Declaring
    <3> QED
      BY <1>3, <2>1
  <2> QED
    BY <2>1, <2>2
<1>5. Through' = IF pc'[a] = "completed" THEN Through \cup {a} ELSE Through
  BY <1>1 DEF Through
<1> QED
  BY <1>1, <1>2, <1>4, <1>5 DEF Through

\* A run that is past publishing its code has all of it out.
LEMMA CodeOut ==
  ASSUME TypeOK, NEW r \in Runs, InOrder(r), leg[r] = "lifecycle", Granted
  PROVE  Branch!CodeIsOut(r)
<1>1. CodeUpTo(r, remote.own)
  BY DEF InOrder
<1>2. Len(Log) = Len(main) /\ \A n \in 1..Len(main) : Log[n] = <<main[n].kind, main[n].by>>
  BY ListedType DEF Log, Listed, TypeOK
<1> QED
  BY <1>1, <1>2 DEF CodeUpTo, Branch!CodeIsOut

\* Steps that do not settle or begin a lifecycle commit leave the log and
\* what is published alone; at most the run is through.
LEMMA QuietStep ==
  ASSUME TypeOK, NEW a \in Runs, InOrder(a), Steps(a), Still,
         Declaring(a)' = Declaring(a),
         pc'[a] = "completed" =>
           leg[a] = "lifecycle" /\ (Granted => Declaring(a) <= remote.own)
  PROVE  Branch!Finish(a) \/ UNCHANGED Branch!vars
<1>1. Log' = Log /\ remote'.own = remote.own
  BY DEF Still, Log
<1>2. Declaration' = Declaration /\ Declaration[a] = Declaring(a) /\ a \notin Through
  <2>1. Declaration' = [Declaration EXCEPT ![a] = Declaration[a]]
    BY ActorShown
  <2> QED
    BY <2>1, ActorShown DEF Declaration
<1>3. CASE pc'[a] = "completed"
  <2>1. Through' = Through \cup {a}
    BY <1>3, ActorShown
  <2>2. Granted => Branch!CodeIsOut(a) /\ Declaration[a] <= remote.own
    BY <1>2, <1>3, CodeOut
  <2> QED
    BY <1>1, <1>2, <2>1, <2>2 DEF Branch!Finish
<1>4. CASE pc'[a] # "completed"
  <2>1. Through' = Through
    BY <1>4, ActorShown
  <2> QED
    BY <1>1, <1>2, <2>1 DEF Branch!vars
<1> QED
  BY <1>3, <1>4

LEMMA PublishBranch ==
  ASSUME TypeOK, Serial, Within, Private, NEW a \in Runs, Sound(a), Steps(a),
         Enter(a) \/ Choose(a) \/ Fetch(a) \/ Push(a) \/ Land(a)
  PROVE  Branch!Publish \/ Branch!Finish(a) \/ UNCHANGED Branch!vars
<1> DEFINE k == receipt[a]
<1>0. /\ remote.own \in Nat /\ k.candidate \in Nat /\ k.commit \in Nat /\ fetched[a].own \in Nat
      /\ InOrder(a) /\ fetched[a].own <= remote.own /\ Len(main) \in Nat
  BY Numbers DEF Sound, Serial, TypeOK
<1>1. CASE Push(a)
  <2>1. /\ k.candidate > fetched[a].own /\ remote = fetched[a] /\ pc[a] = "push"
        /\ remote'.own = k.candidate /\ main' = main /\ receipt' = receipt
        /\ pc'[a] = "pushed"
    BY <1>1 DEF Push, Goto, repo, durable, TypeOK
  <2>2. Granted
    BY <2>1 DEF Private, Publishing
  <2>3. remote'.own \in (remote.own + 1)..Len(Log)
    <3>1. Len(Log) = Len(main)
      BY ListedType DEF Log, Listed, TypeOK
    <3>2. k.candidate <= Len(main) /\ k.candidate > remote.own
      BY <2>1 DEF Within
    <3> QED
      BY <1>0, <2>1, <3>1, <3>2
  <2>4. Log' = Log /\ Declaration' = Declaration /\ Through' = Through
    BY <2>1, ActorShown DEF Log, Declaration
  <2> QED
    BY <2>2, <2>3, <2>4 DEF Branch!Publish
<1>2. CASE Land(a)
  <2>1. Declaring(a)' = Declaring(a) /\ Still
    BY <1>2 DEF Land, Declaring
  <2>2. pc'[a] = "completed" => leg[a] = "lifecycle"
    BY <1>2 DEF Land, TypeOK
  <2>3. Declaring(a) <= remote.own
    <3>1. k.candidate <= remote.own
      BY <1>0, <1>2 DEF Land, Sound, Whole
    <3>2. k.phase = "committed" => k.commit <= k.candidate
      BY <1>2 DEF Land, Sound, Whole
    <3> QED
      BY <1>0, <3>1, <3>2 DEF Declaring
  <2> QED
    BY <1>0, <2>1, <2>2, <2>3, QuietStep
<1>3. CASE Enter(a) \/ Choose(a) \/ Fetch(a)
  <2>1. Declaring(a)' = Declaring(a) /\ Still /\ pc'[a] # "completed"
    BY <1>3 DEF Enter, Choose, Fetch, Declaring, Still, repo, durable, Goto, TypeOK
  <2> QED
    BY <1>0, <2>1, QuietStep
<1> QED
  BY <1>1, <1>2, <1>3

LEMMA SettleBranch ==
  ASSUME TypeOK, NEW a \in Runs, Sound(a), Steps(a), Settle(a)
  PROVE  Branch!Claim(a)
<1> DEFINE k == receipt[a]
           n == receipt'[a].commit
<1>0. /\ InOrder(a) /\ leg[a] = "lifecycle"
      /\ k.commit \in Nat /\ k.parent \in Nat /\ Tip \in 1..Len(main)
  BY Numbers, TipType DEF Sound, InOrder, Settle, Committing, Tip
<1>1. Len(Log) = Len(main) /\ \A m \in 1..Len(main) : Log[m] = <<main[m].kind, main[m].by>>
  BY ListedType DEF Log, Listed, TypeOK
<1>2. n \in 1..Len(main) /\ main[n].kind = "lifecycle" /\ receipt'[a].phase = "committed"
  <2>1. k.phase = "committed" => k.commit = k.parent + 1 /\ k.commit <= Len(main)
    BY DEF Sound, Attested
  <2> QED
    BY <1>0, <2>1 DEF Settle
<1>3. n \in Branch!Declarations
  BY <1>1, <1>2 DEF Branch!Declarations
<1>4. Declaration' = [Declaration EXCEPT ![a] = n] /\ a \notin Through
  BY <1>2, ActorShown DEF Declaring
<1>5. Log' = Log /\ remote'.own = remote.own
  BY DEF Settle, Still, Log
<1>6. Through' = Through \/ (~Granted /\ Through' = Through \cup {a})
  BY ActorShown DEF Settle, AfterCommit
<1>7. Granted => Branch!CodeIsOut(a)
  BY <1>0, CodeOut
<1> QED
  BY <1>3, <1>4, <1>5, <1>6, <1>7 DEF Branch!Claim

LEMMA AdvanceBranch ==
  ASSUME TypeOK, NEW a \in Runs, Sound(a), Steps(a), Advance(a), main' = main \/ GitCommit(a)
  PROVE  Branch!Declare(a) \/ Branch!Finish(a) \/ UNCHANGED Branch!vars
<1>0. /\ InOrder(a) /\ leg[a] = "lifecycle" /\ remote.own \in Nat
  BY Numbers DEF Sound, InOrder, Advance, Moving, Committing
<1>1. Declaring(a)' = Declaring(a) /\ remote' = remote
  BY DEF Advance, Keeps, SamePhase, Declaring
<1>2. CASE main' = main
  <2>1. pc'[a] = "completed" => Declaring(a) = 0
    BY <1>1 DEF Advance, Declaring
  <2> QED
    BY <1>0, <1>1, <1>2, <2>1, QuietStep DEF Still
<1>3. CASE GitCommit(a) /\ main' # main
  <2> DEFINE c == [kind |-> "lifecycle", by |-> a, paths |-> Staged, tree |-> index]
  <2>1. c \in Commit /\ main' = Append(main, c) /\ pc'[a] = "verify"
    BY <1>3, LifecycleCommit DEF GitCommit, Goto, TypeOK
  <2>2. <<c.kind, c.by>> = <<"lifecycle", a>>
    OBVIOUS
  <2> HIDE DEF c
  <2>3. Log' = Append(Log, <<"lifecycle", a>>)
    BY <2>1, <2>2, LogAppend
  <2>4. Declaration' = Declaration /\ Through' = Through /\ a \notin Through
    <3>1. Declaration' = [Declaration EXCEPT ![a] = Declaration[a]]
      BY <1>1, ActorShown
    <3> QED
      BY <2>1, <3>1, ActorShown DEF Declaration
  <2>5. Granted => Branch!CodeIsOut(a)
    BY <1>0, CodeOut
  <2> QED
    BY <1>1, <2>3, <2>4, <2>5 DEF Branch!Declare
<1> QED
  BY <1>2, <1>3

LEMMA OtherwiseBranch ==
  ASSUME TypeOK, NEW a \in Runs, InOrder(a), Steps(a), Approve(a) \/ Retry(a) \/ Resume(a)
  PROVE  Branch!Work \/ Branch!Forget(a) \/ Branch!Finish(a) \/ UNCHANGED Branch!vars
<1>1. CASE Approve(a)
  <2> DEFINE c == [kind |-> "code", by |-> a, paths |-> {}, tree |-> TipTree]
  <2>1. c \in Commit /\ main' = Append(main, c)
    BY <1>1, TipType DEF Commit, Approve
  <2>2. <<c.kind, c.by>> = <<"code", a>>
    OBVIOUS
  <2> HIDE DEF c
  <2>3. Log' = Append(Log, <<"code", a>>)
    BY <2>1, <2>2, LogAppend
  <2>4. Declaration' = Declaration /\ remote' = remote
    BY <1>1 DEF Approve, durable, Declaration
  <2>5. Through' = Through /\ a \notin Through
    BY <1>1, ActorShown DEF Approve, Goto, TypeOK
  <2> QED
    BY <2>3, <2>4, <2>5 DEF Branch!Work
<1>2. CASE Retry(a)
  <2>1. pc'[a] \in {"publish", "finalize"} /\ Still /\ Declaring(a)' = Declaring(a)
    BY <1>2 DEF Retry, Goto, Still, repo, durable, Declaring, TypeOK
  <2> QED
    BY <2>1, QuietStep
<1>3. CASE Resume(a)
  <2>1. Declaring(a)' = 0 /\ pc'[a] # "completed"
    BY <1>3 DEF Resume, Write, NoReceipt, Declaring, Goto, TypeOK
  <2>2. Log' = Log /\ remote' = remote
    BY <1>3 DEF Resume, repo, Log
  <2>3. Declaration' = [Declaration EXCEPT ![a] = 0] /\ Through' = Through /\ a \notin Through
    BY <2>1, ActorShown
  <2> QED
    BY <2>2, <2>3 DEF Branch!Forget
<1> QED
  BY <1>1, <1>2, <1>3

LEMMA OutsideBranch ==
  ASSUME TypeOK, Outsider \/ UNCHANGED vars
  PROVE  Branch!Work \/ UNCHANGED Branch!vars
<1>1. Declaration' = Declaration /\ Through' = Through
  BY Outside DEF Same, Declaration, Through
<1>2. remote'.own = remote.own
  BY DEF Outsider, vars, repo, TypeOK
<1> DEFINE c == [kind |-> "other", by |-> Nobody, paths |-> Staged, tree |-> index]
<1>3. c \in Commit
  BY DEF Commit, Staged, TypeOK
<1>4. main' = main \/ main' = Append(main, c)
  BY DEF Outsider, vars, repo
<1>5. <<c.kind, c.by>> = <<"other", Nobody>>
  OBVIOUS
<1> HIDE DEF c
<1>6. main' = Append(main, c) => Log' = Append(Log, <<"other", Nobody>>)
  BY <1>3, <1>5, LogAppend
<1>7. main' = main => Log' = Log
  BY DEF Log
<1> QED
  BY <1>1, <1>2, <1>4, <1>6, <1>7 DEF Branch!Work, Branch!vars

LEMMA NextBranch ==
  ASSUME Inv, Within, Private, [Next]_vars
  PROVE  [Branch!Next]_(Branch!vars)
<1>1. TypeOK /\ Serial /\ \A r \in Runs : Sound(r) /\ InOrder(r)
  BY DEF Inv, Sound
<1>2. CASE Outsider \/ UNCHANGED vars
  BY <1>1, <1>2, OutsideBranch DEF Branch!Next
<1>3. ASSUME NEW a \in Runs, Steps(a)
      PROVE  [Branch!Next]_(Branch!vars)
  <2>1. CASE Approve(a) \/ Retry(a) \/ Resume(a)
    BY <1>1, <1>3, <2>1, OtherwiseBranch DEF Branch!Next
  <2>2. CASE Enter(a) \/ Choose(a) \/ Fetch(a) \/ Push(a) \/ Land(a)
    BY <1>1, <1>3, <2>2, PublishBranch DEF Branch!Next
  <2>3. CASE Fall(a)
    <3>1. Declaring(a)' = Declaring(a) /\ Still /\ pc'[a] # "completed"
      BY <1>1, <2>3, FallPhase DEF Fall, Declaring
    <3> QED
      BY <1>1, <1>3, <3>1, QuietStep DEF Branch!Next
  <2>4. CASE Settle(a)
    BY <1>1, <1>3, <2>4, SettleBranch DEF Branch!Next
  <2>5. CASE Advance(a) /\ (main' = main \/ GitCommit(a))
    BY <1>1, <1>3, <2>5, AdvanceBranch DEF Branch!Next
  <2>6. \/ Approve(a) \/ Retry(a) \/ Resume(a)
        \/ Enter(a) \/ Choose(a) \/ Fetch(a) \/ Push(a) \/ Land(a)
        \/ Fall(a) \/ Settle(a) \/ (Advance(a) /\ (main' = main \/ GitCommit(a)))
    BY <1>1, <1>3, PublishSteps, FinalizeSteps, FaultSteps DEF Steps, Deliver
  <2> QED
    BY <2>1, <2>2, <2>3, <2>4, <2>5, <2>6
<1> QED
  BY <1>2, <1>3, Actor

LEMMA InitBranch == Init => Branch!Init /\ Within /\ Private
<1> SUFFICES ASSUME Init PROVE Branch!Init /\ Within /\ Private
  OBVIOUS
<1>1. Len(main) = 1 /\ main[1].kind = "other" /\ main[1].by = Nobody
  BY DEF Init
<1>2. Log = <<<<"other", Nobody>>>>
  BY <1>1 DEF Log
<1>3. remote.own = 1 /\ \A r \in Runs : receipt[r] = NoReceipt /\ pc[r] = "working"
  BY DEF Init
<1>4. Declaration = [r \in Runs |-> 0] /\ Through = {}
  BY <1>3 DEF Declaration, Through, NoReceipt
<1> QED
  BY <1>1, <1>2, <1>3, <1>4 DEF Branch!Init, Within, Private, NoReceipt

\* Delivery implements the published branch, for any number of runs, failures,
\* deaths, resumes and outsiders: code is published before the run's plan is
\* declared done, whoever makes the declaration; it is published before the
\* run is through; and nothing is taken back (workflow.py:7536-7590,
\* publication.py:1151-1200).
THEOREM Refinement == Spec => ReleasesInOrder
<1>1. Init => Branch!Init /\ Within /\ Private
  BY InitBranch
<1>2. Inv /\ Inv' /\ Within /\ Private /\ [Next]_vars => Within' /\ Private' /\ [Branch!Next]_(Branch!vars)
  <2> SUFFICES ASSUME Inv, Inv', Within, Private, [Next]_vars
               PROVE  Within' /\ Private' /\ [Branch!Next]_(Branch!vars)
    OBVIOUS
  <2>1. TypeOK /\ TypeOK' /\ Serial /\ \A r \in Runs : InOrder(r)
    BY DEF Inv, Sound
  <2>2. Onward
    BY <2>1, HistorySteps DEF Onward, History
  <2> QED
    BY <2>1, <2>2, NextWithin, NextPrivate, NextBranch
<1> QED
  BY <1>1, <1>2, Invariant, PTL DEF Spec, ReleasesInOrder, Branch!Spec

=============================================================================
