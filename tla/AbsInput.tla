------------------------------ MODULE AbsInput ------------------------------
(***************************************************************************)
(* What stdin promises: a queue of at most Size characters.  When it is    *)
(* full, a character more takes the place of the one that is read next.    *)
(***************************************************************************)
EXTENDS Naturals, Sequences

CONSTANTS Size, Char

VARIABLE input

Init == input = <<>>

Put(c) == input' = IF Len(input) < Size THEN Append(input, c) ELSE <<c>> \o Tail(input)

Take(n) == input' = SubSeq(input, n + 1, Len(input))

Next == (\E c \in Char : Put(c)) \/ (\E n \in 1..Len(input) : Take(n))

Spec == Init /\ [][Next]_input

=============================================================================
