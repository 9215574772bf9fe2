----------------------------- MODULE MCUorbNode -----------------------------
(* Instances of UorbNode for TLC. *)
EXTENDS UorbNode, TLC

\* Publishers are interchangeable, and so are subscribers of one kind.
Symmetry ==
  Permutations(Publishers) \cup Permutations(WorkSubs)
    \cup Permutations(BlockingSubs)
    \cup Permutations(Subs \ (WorkSubs \cup BlockingSubs))
=============================================================================
