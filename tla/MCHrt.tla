-------------------------------- MODULE MCHrt --------------------------------
(* Hrt for TLC: the entries are interchangeable, and so are the threads.    *)
EXTENDS Hrt, TLC

Symmetry == Permutations(Entries) \cup Permutations(Threads)
=============================================================================
