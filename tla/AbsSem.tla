------------------------------- MODULE AbsSem -------------------------------
(***************************************************************************)
(* What a semaphore promises: a down returns only by taking a permit, and  *)
(* permits come from the initial value and from up alone.                  *)
(***************************************************************************)
EXTENDS Integers

CONSTANT InitValue

VARIABLES
  permits,   \* the permits nobody has taken
  taken      \* returns of down less calls of up

vars == <<permits, taken>>

Init == permits = InitValue /\ taken = 0

Take ==
  /\ permits > 0
  /\ permits' = permits - 1
  /\ taken' = taken + 1

Give ==
  /\ permits' = permits + 1
  /\ taken' = taken - 1

Spec == Init /\ [][Take \/ Give]_vars

=============================================================================
