-------------------------- MODULE ExclusiveResource --------------------------
(***************************************************************************)
(* What the broker of execution resources promises, without its journal,   *)
(* processes or crashes: a resource is held by one user at a time, only    *)
(* its holder may start using it, and it changes hands only when it is not *)
(* in use.                                                                 *)
(***************************************************************************)

CONSTANTS
  Users,      \* those who take resources (invocations)
  Resources,
  Nobody,     \* the holder of a free resource, not a user
  Nothing     \* what an idle user uses, not a resource

VARIABLES
  holder,  \* per resource: its holder
  using    \* per user: the resource it is using now

Init ==
  /\ holder = [r \in Resources |-> Nobody]
  /\ using = [u \in Users |-> Nothing]

Grant(u, r) ==
  /\ holder[r] = Nobody
  /\ holder' = [holder EXCEPT ![r] = u]
  /\ UNCHANGED using

Begin(u, r) ==
  /\ holder[r] = u /\ using[u] = Nothing
  /\ using' = [using EXCEPT ![u] = r]
  /\ UNCHANGED holder

\* Some users stop, for example when the host fails.
Cease(stopped) ==
  /\ using' = [u \in Users |-> IF u \in stopped THEN Nothing ELSE using[u]]
  /\ UNCHANGED holder

Free(r) ==
  /\ \A u \in Users : using[u] # r
  /\ holder' = [holder EXCEPT ![r] = Nobody]
  /\ UNCHANGED using

Next ==
  \/ \E u \in Users, r \in Resources : Grant(u, r) \/ Begin(u, r)
  \/ \E stopped \in SUBSET Users : Cease(stopped)
  \/ \E r \in Resources : Free(r)

Spec == Init /\ [][Next]_<<holder, using>>

=============================================================================
