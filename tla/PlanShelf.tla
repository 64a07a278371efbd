------------------------------ MODULE PlanShelf ------------------------------
(***************************************************************************)
(* What the moves of a plan promise those who look for it, without links,  *)
(* directories, journals or processes: the plan shows at its place or at   *)
(* the place it is on its way to, at both for a while and never at none;   *)
(* its identity follows once it shows at one place only; then it has       *)
(* arrived.  While a run uses the plan it does not set out.  Nothing is    *)
(* promised once the shelf has been disturbed.                             *)
(***************************************************************************)

CONSTANTS Places, Ready, None

VARIABLES
  home,      \* the place of its last arrival
  aim,       \* the place it is on its way to, or None
  shown,     \* the places where it shows
  named,     \* the place of its identity, None before it has one
  used,      \* a run uses it
  disturbed

vars == <<home, aim, shown, named, used, disturbed>>

Init ==
  /\ home = Ready /\ aim = None /\ shown = {Ready} /\ named \in {Ready, None}
  /\ used = FALSE /\ disturbed = FALSE

Name ==
  /\ named = None /\ named' = home
  /\ UNCHANGED <<home, aim, shown, used, disturbed>>

SetOut(l) ==
  /\ aim = None /\ named = home /\ l # home /\ ~used
  /\ aim' = l
  /\ UNCHANGED <<home, shown, named, used, disturbed>>

\* Forwards from one place over both to the other; a power failure may take
\* the last step back, and ends the run.
Shift ==
  /\ aim # None /\ named = home
  /\ \/ shown = {home} /\ shown' = {home, aim}
     \/ shown = {home, aim} /\ shown' \in {{home}, {aim}}
     \/ shown = {aim} /\ shown' = {home, aim}
  /\ UNCHANGED <<home, aim, named, used, disturbed>>

Rename ==
  /\ aim # None /\ shown = {aim} /\ named' = aim
  /\ UNCHANGED <<home, aim, shown, used, disturbed>>

Arrive ==
  /\ aim # None /\ shown = {aim} /\ named = aim
  /\ home' = aim /\ aim' = None
  /\ UNCHANGED <<shown, named, used, disturbed>>

\* A run begins to use a plan that is ready and not on its way, or ends.
Use ==
  /\ used' => aim = None /\ shown = {Ready}
  /\ UNCHANGED <<home, aim, shown, named, disturbed>>
  /\ used' \in BOOLEAN

Disturb ==
  /\ disturbed' = TRUE
  /\ home' \in Places /\ aim' \in Places \cup {None} /\ shown' \in SUBSET Places
  /\ named' \in Places \cup {None} /\ used' \in BOOLEAN

Next ==
  \/ Name \/ (\E l \in Places : SetOut(l)) \/ Shift \/ Rename \/ Arrive \/ Use \/ Disturb

Spec == Init /\ [][Next]_vars

=============================================================================
