------------------------- MODULE MCProjectAdmission -------------------------
(***************************************************************************)
(* Small instances of ProjectAdmission for TLC.                            *)
(***************************************************************************)
EXTENDS ProjectAdmission, TLC

CONSTANTS d1, d2, a, b, c, p1, p2

\* Independent runs, two of one plan and one of another.
NoSources == [r \in Runs |-> NoRun]
TwoPlans == [r \in Runs |-> IF r = c THEN p2 ELSE p1]

\* Runs of one plan.
SharedPlan == [r \in Runs |-> p1]

\* Two successors of one run.
Successors == [r \in Runs |-> IF r = a THEN NoRun ELSE a]

Symmetry == Permutations(Daemons)

\* The two successors of one run are interchangeable as well.
SuccessorSymmetry ==
  {f \in Permutations(Daemons \cup {b, c}) : \A d \in Daemons : f[d] \in Daemons}

=============================================================================
