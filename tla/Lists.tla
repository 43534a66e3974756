-------------------------------- MODULE Lists --------------------------------
(***************************************************************************)
(* The kernel's circular lists (libs/list.h: run queue, wait queues, timer *)
(* list) are sequences here, first element first; list_add_before on the   *)
(* list head appends.                                                      *)
(***************************************************************************)
EXTENDS Naturals, Sequences, FiniteSets

InList(x, list) == \E i \in 1..Len(list) : list[i] = x

NoRepeat(list) == \A i, j \in 1..Len(list) : list[i] = list[j] => i = j

(* The lists of the elements of a finite set, each of them once.           *)
Orderings(S) ==
  {list \in [1..Cardinality(S) -> S] : NoRepeat(list) /\ \A x \in S : InList(x, list)}

=============================================================================
