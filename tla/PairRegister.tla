----------------------------- MODULE PairRegister -----------------------------
(***************************************************************************)
(* What the configuration pair promises its readers and writers: a         *)
(* register that holds a pair as one value.  A write that is interrupted   *)
(* leaves two possible values, until one of them is settled for good.      *)
(* Nothing is promised once a file was edited behind the register's back.  *)
(***************************************************************************)
EXTENDS Naturals

CONSTANTS Values, Initial

VARIABLES
  possible,  \* values a later read may return
  edits      \* edits made behind the register's back

Init == possible = {Initial} /\ edits = 0

\* A write reaches the point from which it may succeed.
Attempt ==
  \E old, new \in Values : possible = {old} /\ possible' = {old, new} /\ UNCHANGED edits

\* The write is acknowledged or taken back, or what it left is read.
Settle == \E v \in possible : possible' = {v} /\ UNCHANGED edits

Tampered == edits' > 0 /\ possible' \in SUBSET Values

Next == Attempt \/ Settle \/ Tampered

Spec == Init /\ [][Next]_<<possible, edits>>

=============================================================================
