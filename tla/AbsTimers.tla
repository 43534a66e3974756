----------------------------- MODULE AbsTimers -----------------------------
(***************************************************************************)
(* What timers promise: each armed process has a countdown of its own, and *)
(* every tick takes one from each of them.                                 *)
(***************************************************************************)
EXTENDS Naturals

CONSTANTS Sleeper, MaxTicks

VARIABLE left    \* ticks left for each process, 0 when it has no timer

Init == left = [p \in Sleeper |-> 0]

Arm(p, ticks) == left[p] = 0 /\ left' = [left EXCEPT ![p] = ticks]

Cancel(p) == left' = [left EXCEPT ![p] = 0]

Tick == left' = [p \in Sleeper |-> IF left[p] > 0 THEN left[p] - 1 ELSE 0]

Next ==
  \/ \E p \in Sleeper : Cancel(p) \/ \E ticks \in 1..MaxTicks : Arm(p, ticks)
  \/ Tick

Spec == Init /\ [][Next]_left

=============================================================================
