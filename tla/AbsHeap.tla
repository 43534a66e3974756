------------------------------- MODULE AbsHeap -------------------------------
(***************************************************************************)
(* What an allocator promises: blocks of memory that are in use at the     *)
(* same time do not overlap, and a block stays the caller's until the      *)
(* caller gives it back.                                                   *)
(***************************************************************************)
VARIABLE live     \* the blocks handed out, each a set of addresses

Init == live = {}

Alloc ==
  /\ live \subseteq live'
  /\ \A b \in live' \ live : \A c \in live' \ {b} : b \cap c = {}

Free == live' \subseteq live

Next == Alloc \/ Free

Spec == Init /\ [][Next]_live

=============================================================================
