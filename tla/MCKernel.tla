------------------------------ MODULE MCKernel ------------------------------
(* Kernel with its user processes interchangeable, for the safety run.     *)
EXTENDS Kernel

UserSymmetry == Permutations(User)

=============================================================================
