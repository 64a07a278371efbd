---------------------------- MODULE MCRunControls ----------------------------
(***************************************************************************)
(* Small instances of RunControls.                                         *)
(***************************************************************************)
EXTENDS RunControls

CONSTANTS k1, k2, h1, h2, x

\* A person chooses a team or none, stops the run, or names what the
\* configuration lacks.
MCDrafts ==
  {[stop |-> "absent", choice |-> x, fits |-> TRUE],
   [stop |-> "absent", choice |-> None, fits |-> TRUE],
   [stop |-> "true", choice |-> None, fits |-> TRUE],
   [stop |-> "absent", choice |-> x, fits |-> FALSE]}

=============================================================================
