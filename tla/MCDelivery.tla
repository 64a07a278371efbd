----------------------------- MODULE MCDelivery -----------------------------
(***************************************************************************)
(* Small instances of Delivery.  One run's plan may be tracked by Git and  *)
(* in Done already, the other's directories are ignored.                   *)
(***************************************************************************)
EXTENDS Delivery

CONSTANTS a, b

MCIgnored == {p \in Path : p[1] # a}

=============================================================================
