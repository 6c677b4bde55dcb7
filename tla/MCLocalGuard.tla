---------------------------- MODULE MCLocalGuard ----------------------------
(***************************************************************************)
(* Instances of LocalGuard.tla: two calls of one guard, and a second       *)
(* manager that was given the same key pair.                               *)
(***************************************************************************)
EXTENDS LocalGuard, FiniteSets

CONSTANTS
  m1, k1,
  MaxHeld    \* bound on the receipts in circulation

OneGuard == [c \in Call |-> m1]

OneKey == [m \in Manager |-> k1]

FewHeld == Cardinality(held) <= MaxHeld
=============================================================================
