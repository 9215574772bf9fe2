----------------------------- MODULE MCWorkQueue -----------------------------
(* Instances of WorkQueue for TLC. *)
EXTENDS WorkQueue, TLC

CONSTANTS i1, i2, t1, t2, w1, w2

OneItem == {i1}
TwoItems == {i1, i2}
OneThread == {t1}
TwoThreads == {t1, t2}
OneQueue == {w1}
TwoQueues == {w1, w2}

\* Items, threads and queues are interchangeable.
Symmetry ==
  Permutations(Items) \cup Permutations(Threads) \cup Permutations(Queues)
=============================================================================
