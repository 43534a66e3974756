--------------------------------- MODULE MCSfs ---------------------------------
(* Sfs for TLC: the files are interchangeable.                             *)
EXTENDS Sfs, TLC

Files == Permutations(File)

=============================================================================
