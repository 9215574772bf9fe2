------------------------------- MODULE FifoOps -------------------------------
(***************************************************************************)
(* What the queues of this project need of sequences beyond the standard   *)
(* module.  The results are given position by position, the form in which  *)
(* the proofs reason about them.                                           *)
(***************************************************************************)
EXTENDS Naturals, Sequences

\* e is an element of s.
Has(s, e) == \E k \in 1..Len(s) : s[k] = e

\* No element occurs twice in s.
Distinct(s) == \A j, k \in 1..Len(s) : s[j] = s[k] => j = k

\* s without its k-th element.
Without(s, k) == [j \in 1..(Len(s) - 1) |-> IF j < k THEN s[j] ELSE s[j + 1]]

\* s without an occurrence of e, or s when e does not occur in it.
Drop(s, e) ==
  IF Has(s, e) THEN Without(s, CHOOSE k \in 1..Len(s) : s[k] = e) ELSE s
=============================================================================
