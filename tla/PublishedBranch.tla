--------------------------- MODULE PublishedBranch ---------------------------
(***************************************************************************)
(* What delivery promises those who follow the published branch, without   *)
(* receipts, locks, index, files or processes: commits are published in    *)
(* the order in which they were made and never taken back; a run declares  *)
(* its plan done, or takes a declaration for its own, only when its code   *)
(* is published; and when it is through, so is what it declared, for good. *)
(***************************************************************************)
EXTENDS Naturals, Sequences

CONSTANTS Runs, Nobody,
  Granted    \* publishing is permitted; otherwise nothing leaves the host

VARIABLES
  log,        \* the branch: kind and author of its commits
  out,        \* how many of them are published
  declared,   \* per run: the commit that declares its plan done, or 0
  over        \* the runs that are through

vars == <<log, out, declared, over>>

Declarations == {n \in 1..Len(log) : log[n][1] = "lifecycle"}

CodeIsOut(r) == \A m \in 1..Len(log) : log[m] = <<"code", r>> => m <= out

Init ==
  /\ log = <<<<"other", Nobody>>>> /\ out = 1
  /\ declared = [r \in Runs |-> 0] /\ over = {}

\* Code of a run that is not through, or anything of anybody else.
Work ==
  /\ log' \in {Append(log, <<"code", r>>) : r \in Runs \ over} \cup {Append(log, <<"other", Nobody>>)}
  /\ UNCHANGED <<out, declared, over>>

Publish ==
  /\ Granted /\ out' \in (out + 1)..Len(log)
  /\ UNCHANGED <<log, declared, over>>

Declare(r) ==
  /\ r \notin over /\ (Granted => CodeIsOut(r))
  /\ log' = Append(log, <<"lifecycle", r>>)
  /\ UNCHANGED <<out, declared, over>>

\* A declaration becomes the run's, which may then be through.
Claim(r) ==
  /\ r \notin over /\ (Granted => CodeIsOut(r))
  /\ \E n \in Declarations : declared' = [declared EXCEPT ![r] = n]
  /\ over' = over \/ (~Granted /\ over' = over \cup {r})
  /\ UNCHANGED <<log, out>>

\* A run that died and is resumed knows of none.
Forget(r) ==
  /\ r \notin over /\ declared' = [declared EXCEPT ![r] = 0]
  /\ UNCHANGED <<log, out, over>>

Finish(r) ==
  /\ r \notin over /\ over' = over \cup {r}
  /\ Granted => CodeIsOut(r) /\ declared[r] <= out
  /\ UNCHANGED <<log, out, declared>>

Next ==
  \/ Work \/ Publish
  \/ \E r \in Runs : Declare(r) \/ Claim(r) \/ Forget(r) \/ Finish(r)

Spec == Init /\ [][Next]_vars

=============================================================================
