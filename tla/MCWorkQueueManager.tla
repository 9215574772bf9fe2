-------------------------- MODULE MCWorkQueueManager --------------------------
(* Instances of WorkQueueManager for TLC. *)
EXTENDS WorkQueueManager, TLC

CONSTANTS c1, c2, k1, k2, r1, r2, r3

OneClient == {c1}
TwoClients == {c1, c2}
OneConfig == {k1}
TwoConfigs == {k1, k2}
TwoRunners == {r1, r2}
ThreeRunners == {r1, r2, r3}

\* Clients, configurations and runners are interchangeable.
Symmetry ==
  Permutations(Clients) \cup Permutations(Configs) \cup Permutations(Runners)
=============================================================================
