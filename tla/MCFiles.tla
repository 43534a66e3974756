-------------------------------- MODULE MCFiles --------------------------------
(* Files for TLC: the processes that run programs are interchangeable.     *)
EXTENDS Files, TLC

Users == Permutations(Proc \ {initproc})

=============================================================================
