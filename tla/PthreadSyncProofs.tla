-------------------------- MODULE PthreadSyncProofs --------------------------
(***************************************************************************)
(* PthreadSync keeps its promises for any number of threads, size of the   *)
(* tables of waiters and count of the barrier: the counters of the lock    *)
(* are right, so the lock implements ReadersWriterLock and is destroyed    *)
(* only when it is unused; and from what is in the tables and who has been *)
(* notified follows that no sleeper is forgotten and that the barrier      *)
(* holds.                                                                  *)
(***************************************************************************)
EXTENDS PthreadSync, FiniteSetTheorems, TLAPS

USE SyncConstants DEF lockVars, RwConds, Conds

-----------------------------------------------------------------------------
(* The inductive invariants.                                               *)

\* TypeOK without the ranges of the counters, which CountsMatch gives.
Types ==
  /\ rw_mutex \in Threads \cup {NULL}
  /\ rw_refcount \in Int /\ rw_nwaitreaders \in Int /\ rw_nwaitwriters \in Int
  /\ destroyed \in BOOLEAN /\ wasted \in BOOLEAN
  /\ wait_task \in [Conds -> SUBSET Threads]
  /\ count \in 0..BarrierCount
  /\ pc \in [Threads -> {"idle", "sleep", "awake", "late", "read", "write"}]
  /\ cond \in [Threads -> Conds \cup {NULL}]
  /\ timed \in [Threads -> BOOLEAN]
  /\ notified \subseteq Threads /\ passed \subseteq Threads
  /\ early \subseteq Threads

\* A thread has a condition variable exactly while it waits.
CondInv ==
  \A t \in Threads : cond[t] = NULL <=> pc[t] \in {"idle", "read", "write"}

\* A writer is alone.
OneWriter ==
  \A t, u \in Threads :
    pc[t] = "write" /\ pc[u] \in {"read", "write"} => t = u

HoldersCounted ==
  rw_refcount = IF In({"write"}) # {} THEN -1 ELSE Cardinality(In({"read"}))

WaitersCounted ==
  /\ rw_nwaitreaders = Cardinality(Waiters("rw_condreaders"))
  /\ rw_nwaitwriters = Cardinality(Waiters("rw_condwriters"))

\* Who is in a table waits; who waits for a lock and sleeps without a
\* notification is in the table, and so is a writer that has timed out,
\* unless a signal was wasted on it.
TablesInv ==
  /\ \A c \in Conds : wait_task[c] \subseteq Waiters(c)
  /\ \A t \in Threads :
       /\ cond[t] \in RwConds /\ pc[t] = "sleep" /\ t \notin notified
            => t \in wait_task[cond[t]]
       /\ cond[t] = "rw_condwriters" /\ pc[t] = "late"
            => t \in wait_task[cond[t]] \/ wasted

\* Waiters that nobody has woken, and writers that have been.
Stuck(t) ==
  \/ cond[t] \in RwConds /\ pc[t] = "sleep" /\ t \notin notified
  \/ cond[t] = "rw_condwriters" /\ pc[t] = "late"
WokenWriter(t) ==
  /\ cond[t] = "rw_condwriters"
  /\ pc[t] = "awake" \/ (pc[t] = "sleep" /\ t \in notified)
Holder(t) == pc[t] \in {"read", "write"}

\* Someone is left to move a lock on that others wait for.  Woken readers
\* do not count: they may find a writer waiting and sleep again.
WakeInv ==
  (\E t \in Threads : Stuck(t))
    => \/ \E t \in Threads : Holder(t) \/ WokenWriter(t)
       \/ wasted \/ rw_mutex # NULL

\* Before the last thread has come only those are woken at the barrier
\* that are excepted.
BarrierInv ==
  /\ passed \ early # {} => count = 0
  /\ \A t \in Threads \ early :
       /\ cond[t] = "barrier"
       /\ pc[t] = "awake" \/ (pc[t] = "sleep" /\ t \in notified)
       => count = 0
-----------------------------------------------------------------------------
(* Types and conditions.                                                   *)

(* Every step keeps the types. *)
LEMMA TypeStep ==
  ASSUME Types, Next
  PROVE  Types'
<1>1. ASSUME NEW t \in Threads, NEW c \in RwConds, lock(t, c) PROVE Types'
  BY <1>1 DEF lock, Take, Return, Types
<1>2. ASSUME NEW t \in Threads, NEW c \in RwConds, NEW tm \in Timing(t),
   lockWaits(t, c, tm) PROVE Types'
  <2>1. rw_nwaitreaders' \in Int /\ rw_nwaitwriters' \in Int
    BY <1>2 DEF lockWaits, CountWaiters, Types
  <2>2. tm \in BOOLEAN
    BY DEF Timing
  <2>3. wait_task' \in [Conds -> SUBSET Threads]
    BY <1>2 DEF lockWaits, FallAsleep, Types
  <2> QED
    BY <1>2, <2>1, <2>2, <2>3 DEF lockWaits, FallAsleep, Types
<1>3. ASSUME NEW t \in Threads, Wake(t) PROVE Types'
  BY <1>3 DEF Wake, Types
<1>4. ASSUME NEW t \in Threads, Timeout(t) PROVE Types'
  BY <1>4 DEF Timeout, Types
<1>5. ASSUME NEW t \in Threads, Relock(t) PROVE Types'
  <2>1. /\ rw_refcount' \in Int
        /\ rw_nwaitreaders' \in Int /\ rw_nwaitwriters' \in Int
    BY <1>5 DEF Relock, CountWaiters, Take, Types
  <2>2. wait_task' \in [Conds -> SUBSET Threads]
    BY <1>5 DEF Relock, FallAsleep, Types
  <2>3. /\ pc' \in [Threads -> {"idle", "sleep", "awake", "late", "read", "write"}]
        /\ cond' \in [Threads -> Conds \cup {NULL}]
    BY <1>5 DEF Relock, Take, Return, FallAsleep, Types
  <2>4. timed' \in [Threads -> BOOLEAN]
    BY <1>5 DEF Relock, Take, Return, FallAsleep, Types
  <2> QED
    BY <1>5, <2>1, <2>2, <2>3, <2>4 DEF Relock, Types
<1>6. ASSUME NEW t \in Threads, unlock(t) PROVE Types'
  <2>1. rw_refcount' \in Int
    BY <1>6 DEF unlock, Released, Types
  <2>2. /\ wait_task' \in [Conds -> SUBSET Threads]
        /\ notified' \subseteq Threads
    BY <1>6 DEF unlock, pthread_cond_signal, pthread_cond_broadcast, Foremost,
       Types
  <2>3. wasted' \in BOOLEAN
    BY <1>6 DEF unlock, pthread_cond_signal, pthread_cond_broadcast, Types
  <2> QED
    BY <1>6, <2>1, <2>2, <2>3 DEF unlock, Types
<1>7. ASSUME NEW t \in Threads, destroy(t) PROVE Types'
  BY <1>7 DEF destroy, Types
<1>8. ASSUME NEW t \in Threads, barrier_wait(t) PROVE Types'
  <2>1. count' \in 0..BarrierCount
    BY <1>8 DEF barrier_wait, Types
  <2>2. /\ wait_task' \in [Conds -> SUBSET Threads]
        /\ notified' \subseteq Threads /\ wasted' \in BOOLEAN
    BY <1>8 DEF barrier_wait, pthread_cond_broadcast, FallAsleep, Types
  <2>3. /\ pc' \in [Threads -> {"idle", "sleep", "awake", "late", "read", "write"}]
        /\ cond' \in [Threads -> Conds \cup {NULL}]
    BY <1>8 DEF barrier_wait, FallAsleep, Types
  <2>4. timed' \in [Threads -> BOOLEAN]
    BY <1>8 DEF barrier_wait, FallAsleep, Types
  <2>5. passed' \subseteq Threads /\ early' \subseteq Threads
    BY <1>8 DEF barrier_wait, Types
  <2> QED
    BY <1>8, <2>1, <2>2, <2>3, <2>4, <2>5 DEF barrier_wait, Types
<1>9. ASSUME NEW t \in Threads, barrier_leave(t) PROVE Types'
  BY <1>9 DEF barrier_leave, Return, Types
<1> QED
  BY <1>1, <1>2, <1>3, <1>4, <1>5, <1>6, <1>7, <1>8, <1>9 DEF Next, Thread

(* A thread that falls asleep says where, one that returns forgets it. *)
LEMMA CondStep ==
  ASSUME Types, CondInv, Next
  PROVE  CondInv'
<1>1. ASSUME NEW t \in Threads, NEW c \in RwConds, lock(t, c) PROVE CondInv'
  BY <1>1 DEF lock, Take, Return, CondInv, Types
<1>2. ASSUME NEW t \in Threads, NEW c \in RwConds, NEW tm \in Timing(t),
   lockWaits(t, c, tm) PROVE CondInv'
  BY <1>2 DEF lockWaits, FallAsleep, CondInv, Types
<1>3. ASSUME NEW t \in Threads, Wake(t) PROVE CondInv'
  BY <1>3 DEF Wake, CondInv, Types
<1>4. ASSUME NEW t \in Threads, Timeout(t) PROVE CondInv'
  BY <1>4 DEF Timeout, CondInv, Types
<1>5. ASSUME NEW t \in Threads, Relock(t) PROVE CondInv'
  BY <1>5 DEF Relock, Take, Return, FallAsleep, CondInv, Types
<1>6. ASSUME NEW t \in Threads, unlock(t) PROVE CondInv'
  BY <1>6 DEF unlock, CondInv, Types
<1>7. ASSUME NEW t \in Threads, destroy(t) PROVE CondInv'
  BY <1>7 DEF destroy, CondInv, Types
<1>8. ASSUME NEW t \in Threads, barrier_wait(t) PROVE CondInv'
  BY <1>8 DEF barrier_wait, FallAsleep, CondInv, Types
<1>9. ASSUME NEW t \in Threads, barrier_leave(t) PROVE CondInv'
  BY <1>9 DEF barrier_leave, Return, CondInv, Types
<1> QED
  BY <1>1, <1>2, <1>3, <1>4, <1>5, <1>6, <1>7, <1>8, <1>9 DEF Next, Thread

-----------------------------------------------------------------------------
(* Who holds the lock.                                                     *)

HoldInv == OneWriter /\ HoldersCounted

(* There are finitely many holders and waiters. *)
LEMMA FiniteParts ==
  /\ \A S : IsFiniteSet(In(S)) /\ Cardinality(In(S)) \in Nat
  /\ \A c : IsFiniteSet(Waiters(c)) /\ Cardinality(Waiters(c)) \in Nat
<1>1. \A S : In(S) \in SUBSET Threads
  BY DEF In
<1>2. \A c : Waiters(c) \in SUBSET Threads
  BY DEF In, Waiters
<1> QED
  BY <1>1, <1>2, FS_Subset, FS_CardinalityType

(* What the count says of the holders. *)
LEMMA RefFacts ==
  ASSUME Types, HoldersCounted
  PROVE  /\ rw_refcount < 0 <=> \E t \in Threads : pc[t] = "write"
         /\ rw_refcount # 0 <=> \E t \in Threads : Holder(t)
         /\ rw_refcount >= -1
<1>1. In({"read"}) = {} <=> Cardinality(In({"read"})) = 0
  BY FiniteParts, FS_EmptySet
<1>2. Cardinality(In({"read"})) \in Nat
  BY FiniteParts
<1>3. In({"read"}) # {} <=> \E t \in Threads : pc[t] = "read"
  BY DEF In
<1>4. In({"write"}) # {} <=> \E t \in Threads : pc[t] = "write"
  BY DEF In
<1>5. CASE In({"write"}) # {}
  BY <1>4, <1>5 DEF HoldersCounted, Holder
<1>6. CASE In({"write"}) = {}
  BY <1>1, <1>2, <1>3, <1>4, <1>6 DEF HoldersCounted, Holder
<1> QED
  BY <1>5, <1>6

(* The same after a step. *)
LEMMA RefFactsNext ==
  ASSUME Types', HoldersCounted', rw_refcount' # 0
  PROVE  \E t \in Threads : Holder(t)'
<1>1. CASE In({"write"})' # {}
  BY <1>1 DEF In, Holder
<1>2. CASE In({"write"})' = {}
  <2>1. In({"read"})' # {}
    BY <1>2, FS_EmptySet DEF HoldersCounted
  <2> QED
    BY <2>1 DEF In, Holder
<1> QED
  BY <1>1, <1>2

(* A thread that holds nothing still holds nothing afterwards. *)
LEMMA HoldStays ==
  ASSUME HoldInv, UNCHANGED rw_refcount,
         \A u \in Threads : pc'[u] = pc[u] \/ (~Holder(u) /\ ~Holder(u)')
  PROVE  HoldInv'
<1>1. In({"read"})' = In({"read"}) /\ In({"write"})' = In({"write"})
  BY DEF In, Holder
<1>2. OneWriter'
  BY DEF HoldInv, OneWriter, Holder
<1>3. HoldersCounted'
  BY <1>1 DEF HoldInv, HoldersCounted
<1> QED
  BY <1>2, <1>3 DEF HoldInv

(* One more reader. *)
LEMMA HoldRead ==
  ASSUME Types, HoldInv, NEW t \in Threads, ~Holder(t), rw_refcount >= 0,
         rw_refcount' = rw_refcount + 1, pc' = [pc EXCEPT ![t] = "read"]
  PROVE  HoldInv'
<1>1. In({"write"}) = {}
  BY RefFacts DEF HoldInv, In, Types
<1>2. In({"write"})' = {}
  BY <1>1 DEF In, Types
<1>3. t \notin In({"read"}) /\ In({"read"})' = In({"read"}) \cup {t}
  BY DEF In, Holder, Types
<1>4. Cardinality(In({"read"})') = Cardinality(In({"read"})) + 1
  BY <1>3, FiniteParts, FS_AddElement
<1>5. HoldersCounted'
  BY <1>1, <1>2, <1>4 DEF HoldInv, HoldersCounted
<1>6. OneWriter'
  BY <1>2 DEF OneWriter, In
<1> QED
  BY <1>5, <1>6 DEF HoldInv

(* A writer, where nobody was. *)
LEMMA HoldWrite ==
  ASSUME Types, HoldInv, NEW t \in Threads, rw_refcount = 0,
         rw_refcount' = -1, pc' = [pc EXCEPT ![t] = "write"]
  PROVE  HoldInv'
<1>1. \A u \in Threads : ~Holder(u)
  BY RefFacts DEF HoldInv
<1>2. OneWriter'
  BY <1>1 DEF OneWriter, Holder, Types
<1>3. t \in In({"write"})'
  BY DEF In, Types
<1> QED
  BY <1>2, <1>3 DEF HoldInv, HoldersCounted

(* One holder less. *)
LEMMA HoldLess ==
  ASSUME Types, HoldInv, NEW t \in Threads, Holder(t),
         rw_refcount' = Released, pc' = [pc EXCEPT ![t] = "idle"]
  PROVE  HoldInv'
<1>1. OneWriter'
  BY DEF HoldInv, OneWriter, Types
<1>2. In({"read"})' = In({"read"}) \ {t} /\ In({"write"})' = In({"write"}) \ {t}
  BY DEF In, Types
<1>3. CASE pc[t] = "write"
  <2>1. In({"write"}) = {t} /\ In({"read"}) = {}
    BY <1>3 DEF HoldInv, OneWriter, In
  <2>2. In({"write"})' = {} /\ In({"read"})' = {}
    BY <1>2, <2>1
  <2>3. rw_refcount' = 0
    BY <2>1 DEF HoldInv, HoldersCounted, Released
  <2>4. HoldersCounted'
    BY <2>2, <2>3, FS_EmptySet DEF HoldersCounted
  <2> QED
    BY <1>1, <2>4 DEF HoldInv
<1>4. CASE pc[t] = "read"
  <2>1. In({"write"}) = {} /\ t \in In({"read"})
    BY <1>4 DEF HoldInv, OneWriter, In
  <2>2. Cardinality(In({"read"})') = Cardinality(In({"read"})) - 1
    BY <1>2, <2>1, FiniteParts, FS_RemoveElement
  <2>3. Cardinality(In({"read"})) \in Nat \ {0}
    BY <2>1, FiniteParts, FS_EmptySet
  <2>4. rw_refcount = Cardinality(In({"read"}))
    BY <2>1 DEF HoldInv, HoldersCounted
  <2>5. rw_refcount' = Cardinality(In({"read"})')
    BY <2>2, <2>3, <2>4 DEF Released
  <2>6. HoldersCounted'
    BY <1>2, <2>1, <2>5 DEF HoldersCounted
  <2> QED
    BY <1>1, <2>6 DEF HoldInv
<1> QED
  BY <1>3, <1>4 DEF Holder

(* The count goes up and down with the holders. *)
LEMMA HoldStep ==
  ASSUME Types, CondInv, HoldInv, Next
  PROVE  HoldInv'
<1>1. ASSUME NEW t \in Threads, NEW c \in RwConds, lock(t, c) PROVE HoldInv'
  <2>1. ~Holder(t)
    BY <1>1 DEF lock, Holder
  <2>2. CASE c = "rw_condreaders"
    <3>1. rw_refcount >= 0 /\ rw_refcount' = rw_refcount + 1
      BY <1>1, <2>2 DEF lock, Take, MustWait, Types
    <3>2. pc' = [pc EXCEPT ![t] = "read"]
      BY <1>1, <2>2 DEF lock, Take, Return
    <3> QED
      BY <2>1, <3>1, <3>2, HoldRead
  <2>3. CASE c = "rw_condwriters"
    BY <1>1, <2>3, HoldWrite DEF lock, Take, Return, MustWait
  <2> QED
    BY <2>2, <2>3
<1>2. ASSUME NEW t \in Threads, NEW c \in RwConds, NEW tm \in Timing(t),
   lockWaits(t, c, tm) PROVE HoldInv'
  BY <1>2, HoldStays DEF lockWaits, FallAsleep, Holder, Types
<1>3. ASSUME NEW t \in Threads, Wake(t) PROVE HoldInv'
  BY <1>3, HoldStays DEF Wake, Holder, Types
<1>4. ASSUME NEW t \in Threads, Timeout(t) PROVE HoldInv'
  BY <1>4, HoldStays DEF Timeout, Holder, Types
<1>5. ASSUME NEW t \in Threads, Relock(t) PROVE HoldInv'
  <2>1. ~Holder(t)
    BY <1>5 DEF Relock, CondInv, Holder
  <2>2. CASE pc' = [pc EXCEPT ![t] = "idle"] \/ pc' = [pc EXCEPT ![t] = "sleep"]
    <3>1. UNCHANGED rw_refcount
      BY <1>5, <2>2 DEF Relock, Take, Return, Types
    <3> QED
      BY <2>1, <2>2, <3>1, HoldStays DEF Holder, Types
  <2>3. CASE ~ (pc' = [pc EXCEPT ![t] = "idle"] \/ pc' = [pc EXCEPT ![t] = "sleep"])
    <3>1. /\ Take(t, cond[t]) /\ cond[t] \in RwConds
          /\ ~MustWait(cond[t], rw_nwaitwriters -
                                  (IF cond[t] = "rw_condwriters" THEN 1 ELSE 0))
      BY <1>5, <2>3 DEF Relock, Return, FallAsleep
    <3>2. CASE cond[t] = "rw_condreaders"
      <4>1. rw_refcount >= 0 /\ rw_refcount' = rw_refcount + 1
        BY <3>1, <3>2 DEF Take, MustWait, Types
      <4>2. pc' = [pc EXCEPT ![t] = "read"]
        BY <3>1, <3>2 DEF Take, Return
      <4> QED
        BY <2>1, <4>1, <4>2, HoldRead
    <3>3. CASE cond[t] = "rw_condwriters"
      BY <3>1, <3>3, HoldWrite DEF Take, Return, MustWait
    <3> QED
      BY <3>1, <3>2, <3>3
  <2> QED
    BY <2>2, <2>3
<1>6. ASSUME NEW t \in Threads, unlock(t) PROVE HoldInv'
  BY <1>6, HoldLess DEF unlock, Holder
<1>7. ASSUME NEW t \in Threads, destroy(t) PROVE HoldInv'
  BY <1>7, HoldStays DEF destroy, Holder, Types
<1>8. ASSUME NEW t \in Threads, barrier_wait(t) PROVE HoldInv'
  BY <1>8, HoldStays DEF barrier_wait, FallAsleep, Holder, Types
<1>9. ASSUME NEW t \in Threads, barrier_leave(t) PROVE HoldInv'
  BY <1>9, HoldStays DEF barrier_leave, Return, Holder, Types
<1> QED
  BY <1>1, <1>2, <1>3, <1>4, <1>5, <1>6, <1>7, <1>8, <1>9 DEF Next, Thread

-----------------------------------------------------------------------------
(* Who waits.                                                              *)

(* The counters and the waiters stay. *)
LEMMA WaitStays ==
  ASSUME WaitersCounted, UNCHANGED <<rw_nwaitreaders, rw_nwaitwriters>>,
         \A c \in RwConds : Waiters(c)' = Waiters(c)
  PROVE  WaitersCounted'
  BY DEF WaitersCounted

(* One more waiter. *)
LEMMA WaitMore ==
  ASSUME WaitersCounted, NEW c \in RwConds, NEW t \in Threads, CountWaiters(c, 1),
         t \notin Waiters(c), Waiters(c)' = Waiters(c) \cup {t},
         \A d \in RwConds \ {c} : Waiters(d)' = Waiters(d)
  PROVE  WaitersCounted'
<1>1. /\ Cardinality(Waiters(c) \cup {t}) = Cardinality(Waiters(c)) + 1
      /\ \A d : Cardinality(Waiters(d)) \in Nat
  BY FiniteParts, FS_AddElement
<1> QED
  BY <1>1 DEF WaitersCounted, CountWaiters

(* One waiter less. *)
LEMMA WaitLess ==
  ASSUME WaitersCounted, NEW c \in RwConds, NEW t \in Threads, CountWaiters(c, -1),
         t \in Waiters(c), Waiters(c)' = Waiters(c) \ {t},
         \A d \in RwConds \ {c} : Waiters(d)' = Waiters(d)
  PROVE  WaitersCounted'
<1>1. /\ Cardinality(Waiters(c) \ {t}) = Cardinality(Waiters(c)) - 1
      /\ \A d : Cardinality(Waiters(d)) \in Nat
  BY FiniteParts, FS_RemoveElement
<1> QED
  BY <1>1 DEF WaitersCounted, CountWaiters

(* A counter is positive when someone waits. *)
LEMMA WaitFacts ==
  ASSUME WaitersCounted
  PROVE  /\ rw_nwaitreaders \in Nat /\ rw_nwaitwriters \in Nat
         /\ rw_nwaitreaders = 0 <=> Waiters("rw_condreaders") = {}
         /\ rw_nwaitwriters = 0 <=> Waiters("rw_condwriters") = {}
  BY FiniteParts, FS_EmptySet DEF WaitersCounted

(* The counters go up and down with the waiters, however a wait ends. *)
LEMMA WaitStep ==
  ASSUME Types, CondInv, WaitersCounted, Next
  PROVE  WaitersCounted'
<1>1. ASSUME NEW t \in Threads, NEW c \in RwConds, lock(t, c) PROVE
   WaitersCounted'
  <2>1. \A d \in RwConds : Waiters(d)' = Waiters(d)
    BY <1>1 DEF lock, Take, Return, CondInv, Waiters, In, Types
  <2> QED
    BY <1>1, <2>1, WaitStays DEF lock
<1>2. ASSUME NEW t \in Threads, NEW c \in RwConds, NEW tm \in Timing(t),
   lockWaits(t, c, tm) PROVE WaitersCounted'
  <2>1. t \notin Waiters(c)
    BY <1>2 DEF lockWaits, Waiters, In
  <2>2. /\ Waiters(c)' = Waiters(c) \cup {t}
        /\ \A d \in RwConds \ {c} : Waiters(d)' = Waiters(d)
    BY <1>2 DEF lockWaits, FallAsleep, Waiters, In, Types
  <2> QED
    BY <1>2, <2>1, <2>2, WaitMore DEF lockWaits
<1>3. ASSUME NEW t \in Threads, Wake(t) PROVE WaitersCounted'
  <2>1. \A c \in RwConds : Waiters(c)' = Waiters(c)
    BY <1>3 DEF Wake, CondInv, Waiters, In, Types
  <2> QED
    BY <1>3, <2>1, WaitStays DEF Wake
<1>4. ASSUME NEW t \in Threads, Timeout(t) PROVE WaitersCounted'
  <2>1. \A c \in RwConds : Waiters(c)' = Waiters(c)
    BY <1>4 DEF Timeout, CondInv, Waiters, In, Types
  <2> QED
    BY <1>4, <2>1, WaitStays DEF Timeout
<1>5. ASSUME NEW t \in Threads, Relock(t) PROVE WaitersCounted'
  <2>1. PICK c \in RwConds : cond[t] = c
    BY <1>5 DEF Relock
  <2>2. t \in Waiters(c)
    BY <1>5, <2>1 DEF Relock, Waiters, In
  <2>3. CASE CountWaiters(c, -1) /\ cond' = [cond EXCEPT ![t] = NULL]
    <3>1. \E to \in {"idle", "read", "write"} : pc' = [pc EXCEPT ![t] = to]
      BY <1>5, <2>1, <2>3 DEF Relock, Take, Return, FallAsleep, Types
    <3>2. /\ Waiters(c)' = Waiters(c) \ {t}
          /\ \A d \in RwConds \ {c} : Waiters(d)' = Waiters(d)
      BY <2>1, <2>3, <3>1 DEF Waiters, In, Types
    <3> QED
      BY <2>2, <2>3, <3>2, WaitLess
  <2>4. CASE /\ UNCHANGED <<rw_nwaitreaders, rw_nwaitwriters>>
             /\ FallAsleep(t, c, timed[t]) /\ pc[t] = "awake"
    <3>1. \A d \in RwConds : Waiters(d)' = Waiters(d)
      BY <2>1, <2>4 DEF FallAsleep, Waiters, In, Types
    <3> QED
      BY <2>4, <3>1, WaitStays
  <2> QED
    BY <1>5, <2>1, <2>3, <2>4 DEF Relock, Take, Return
<1>6. ASSUME NEW t \in Threads, unlock(t) PROVE WaitersCounted'
  <2>1. \A c \in RwConds : Waiters(c)' = Waiters(c)
    BY <1>6 DEF unlock, CondInv, Waiters, In, Types
  <2> QED
    BY <1>6, <2>1, WaitStays DEF unlock
<1>7. ASSUME NEW t \in Threads, destroy(t) PROVE WaitersCounted'
  <2>1. \A c \in RwConds : Waiters(c)' = Waiters(c)
    BY <1>7 DEF destroy, CondInv, Waiters, In, Types
  <2> QED
    BY <1>7, <2>1, WaitStays DEF destroy
<1>8. ASSUME NEW t \in Threads, barrier_wait(t) PROVE WaitersCounted'
  <2>1. \A c \in RwConds : Waiters(c)' = Waiters(c)
    BY <1>8 DEF barrier_wait, FallAsleep, CondInv, Waiters, In, Types
  <2> QED
    BY <1>8, <2>1, WaitStays DEF barrier_wait
<1>9. ASSUME NEW t \in Threads, barrier_leave(t) PROVE WaitersCounted'
  <2>1. \A c \in RwConds : Waiters(c)' = Waiters(c)
    BY <1>9 DEF barrier_leave, Return, CondInv, Waiters, In, Types
  <2> QED
    BY <1>9, <2>1, WaitStays DEF barrier_leave
<1> QED
  BY <1>1, <1>2, <1>3, <1>4, <1>5, <1>6, <1>7, <1>8, <1>9 DEF Next, Thread

(* Who leaves a table has been notified, or leaves the wait. *)
LEMMA TablesStep ==
  ASSUME Types, CondInv, TablesInv, Next
  PROVE  TablesInv'
<1>1. ASSUME NEW t \in Threads, NEW c \in RwConds, lock(t, c) PROVE
   TablesInv'
  BY <1>1 DEF lock, Take, Return, CondInv, TablesInv, Waiters, In, Types
<1>2. ASSUME NEW t \in Threads, NEW c \in RwConds, NEW tm \in Timing(t),
   lockWaits(t, c, tm) PROVE TablesInv'
  BY <1>2 DEF lockWaits, FallAsleep, CondInv, TablesInv, Waiters, In, Types
<1>3. ASSUME NEW t \in Threads, Wake(t) PROVE TablesInv'
  BY <1>3 DEF Wake, CondInv, TablesInv, Waiters, In, Types
<1>4. ASSUME NEW t \in Threads, Timeout(t) PROVE TablesInv'
  BY <1>4 DEF Timeout, CondInv, TablesInv, Waiters, In, Types
<1>5. ASSUME NEW t \in Threads, Relock(t) PROVE TablesInv'
  BY <1>5 DEF Relock, Take, Return, FallAsleep, CondInv, TablesInv, Waiters,
     In, Types
<1>6. ASSUME NEW t \in Threads, unlock(t) PROVE TablesInv'
  <2>1. CASE UNCHANGED <<notified, wait_task, wasted>>
    BY <1>6, <2>1 DEF unlock, CondInv, TablesInv, Waiters, In, Types
  <2>2. CASE pthread_cond_broadcast("rw_condreaders")
    BY <1>6, <2>2 DEF unlock, pthread_cond_broadcast, CondInv, TablesInv, Waiters,
       In, Types
  <2>3. CASE pthread_cond_signal("rw_condwriters") /\ wait_task["rw_condwriters"] # {}
    <3>1. PICK u \in wait_task["rw_condwriters"] :
            /\ notified' = notified \cup {u}
            /\ wait_task' = [wait_task EXCEPT !["rw_condwriters"] = @ \ {u}]
            /\ wasted' = (wasted \/ pc[u] = "late")
      BY <2>3 DEF pthread_cond_signal, Foremost
    <3>2. \A d \in Conds : wait_task'[d] \subseteq Waiters(d)'
      BY <1>6, <3>1 DEF unlock, CondInv, TablesInv, Waiters, In, Types
    <3> QED
      BY <1>6, <3>1, <3>2 DEF unlock, CondInv, TablesInv, Types
  <2> QED
    BY <1>6, <2>1, <2>2, <2>3 DEF unlock, pthread_cond_signal, Foremost
<1>7. ASSUME NEW t \in Threads, destroy(t) PROVE TablesInv'
  BY <1>7 DEF destroy, CondInv, TablesInv, Waiters, In, Types
<1>8. ASSUME NEW t \in Threads, barrier_wait(t) PROVE TablesInv'
  BY <1>8 DEF barrier_wait, pthread_cond_broadcast, FallAsleep, CondInv,
     TablesInv, Waiters, In, Types
<1>9. ASSUME NEW t \in Threads, barrier_leave(t) PROVE TablesInv'
  BY <1>9 DEF barrier_leave, Return, CondInv, TablesInv, Waiters, In, Types
<1> QED
  BY <1>1, <1>2, <1>3, <1>4, <1>5, <1>6, <1>7, <1>8, <1>9 DEF Next, Thread

-----------------------------------------------------------------------------
(* Who wakes whom.                                                         *)

SyncInv ==
  /\ Types /\ CondInv /\ HoldInv /\ WaitersCounted /\ TablesInv

(* A writer that waits has been woken or is stuck. *)
LEMMA WriterWaits ==
  ASSUME Types, NEW t \in Waiters("rw_condwriters")
  PROVE  t \in Threads /\ (Stuck(t) \/ WokenWriter(t))
  BY DEF Waiters, In, Stuck, WokenWriter, Types

(* Where a thread has to wait, someone is there to move the lock on. *)
LEMMA SomeoneMoves ==
  ASSUME SyncInv, WakeInv, NEW c \in RwConds, NEW n \in Nat, MustWait(c, n),
         n > 0 => Waiters("rw_condwriters") # {}
  PROVE  \/ \E u \in Threads : Holder(u) \/ WokenWriter(u)
         \/ wasted \/ rw_mutex # NULL
<1>1. CASE rw_refcount # 0
  BY <1>1, RefFacts DEF SyncInv, HoldInv
<1>2. CASE rw_refcount = 0
  <2>1. Waiters("rw_condwriters") # {}
    BY <1>2 DEF MustWait
  <2> QED
    BY <2>1, WriterWaits DEF SyncInv, WakeInv
<1> QED
  BY <1>1, <1>2

(* A step after which nobody new is stuck and all who move the lock still do. *)
LEMMA WakeStays ==
  ASSUME WakeInv, wasted => wasted', UNCHANGED rw_mutex,
         \A u \in Threads : Stuck(u)' => Stuck(u),
         \A u \in Threads : Holder(u) \/ WokenWriter(u)
                              => Holder(u)' \/ WokenWriter(u)'
  PROVE  WakeInv'
<1> SUFFICES ASSUME NEW t \in Threads, Stuck(t)'
             PROVE  \/ \E u \in Threads : Holder(u)' \/ WokenWriter(u)'
                    \/ wasted' \/ rw_mutex' # NULL
  BY DEF WakeInv
<1>1. Stuck(t)
  OBVIOUS
<1> QED
  BY <1>1 DEF WakeInv

(* Whoever stops moving the lock on has handed it to someone. *)
LEMMA WakeStep ==
  ASSUME SyncInv, WakeInv, Next
  PROVE  WakeInv'
<1>1. ASSUME NEW t \in Threads, NEW c \in RwConds, lock(t, c) PROVE WakeInv'
  <2>1. Holder(t)'
    BY <1>1 DEF lock, Take, Return, Holder, SyncInv, Types
  <2> QED
    BY <2>1 DEF WakeInv
<1>2. ASSUME NEW t \in Threads, NEW c \in RwConds, NEW tm \in Timing(t),
   lockWaits(t, c, tm) PROVE WakeInv'
  <2>1. \/ \E u \in Threads : Holder(u) \/ WokenWriter(u)
        \/ wasted \/ rw_mutex # NULL
    BY <1>2, SomeoneMoves, WaitFacts DEF lockWaits, SyncInv
  <2>2. \A u \in Threads : Holder(u) \/ WokenWriter(u)
                             => (Holder(u) \/ WokenWriter(u))'
    BY <1>2 DEF lockWaits, FallAsleep, Holder, WokenWriter, SyncInv, CondInv, Types
  <2> QED
    BY <1>2, <2>1, <2>2 DEF lockWaits, WakeInv
<1>3. ASSUME NEW t \in Threads, Wake(t) PROVE WakeInv'
  <2>1. \A u \in Threads : Stuck(u)' => Stuck(u)
    BY <1>3 DEF Wake, Stuck, Holder, WokenWriter, SyncInv, CondInv,
       TablesInv, Waiters, In, Types
  <2>2. \A u \in Threads : Holder(u) \/ WokenWriter(u)
                             => Holder(u)' \/ WokenWriter(u)'
    BY <1>3 DEF Wake, Stuck, Holder, WokenWriter, SyncInv, CondInv,
       TablesInv, Waiters, In, Types
  <2> QED
    BY <1>3, <2>1, <2>2, WakeStays DEF Wake
<1>4. ASSUME NEW t \in Threads, Timeout(t) PROVE WakeInv'
  <2>1. \A u \in Threads : Stuck(u)' => Stuck(u)
    BY <1>4 DEF Timeout, Stuck, Holder, WokenWriter, SyncInv, CondInv,
       TablesInv, Waiters, In, Types
  <2>2. \A u \in Threads : Holder(u) \/ WokenWriter(u)
                             => Holder(u)' \/ WokenWriter(u)'
    BY <1>4 DEF Timeout, Stuck, Holder, WokenWriter, SyncInv, CondInv,
       TablesInv, Waiters, In, Types
  <2> QED
    BY <1>4, <2>1, <2>2, WakeStays DEF Timeout
<1>5. ASSUME NEW t \in Threads, Relock(t) PROVE WakeInv'
  <2>1. PICK c \in RwConds : cond[t] = c
    BY <1>5 DEF Relock
  <2> DEFINE n == rw_nwaitwriters - (IF c = "rw_condwriters" THEN 1 ELSE 0)
  <2>2. \A u \in Threads \ {t} :
           /\ Stuck(u)' => Stuck(u)
           /\ Holder(u) \/ WokenWriter(u) => (Holder(u) \/ WokenWriter(u))'
    BY <1>5 DEF Relock, Take, Return, FallAsleep, Stuck, Holder, WokenWriter,
       SyncInv, Types
  <2>3. CASE pc[t] = "late"
    <3>1. ~Stuck(t)' /\ ~Holder(t) /\ ~WokenWriter(t)
      BY <1>5, <2>1, <2>3 DEF Relock, Return, Stuck, Holder, WokenWriter, SyncInv,
         Types
    <3> QED
      BY <1>5, <2>2, <3>1 DEF Relock, WakeInv
  <2>4. CASE pc[t] = "awake" /\ ~MustWait(c, n)
    <3>1. Holder(t)'
      BY <1>5, <2>1, <2>4 DEF Relock, Take, Return, Holder, SyncInv, Types
    <3> QED
      BY <3>1 DEF WakeInv
  <2>5. CASE pc[t] = "awake" /\ MustWait(c, n)
    <3>1. CASE rw_refcount # 0
      <4>1. PICK u \in Threads : Holder(u)
        BY <3>1, RefFacts DEF SyncInv, HoldInv
      <4>2. u # t
        BY <2>5, <4>1 DEF Holder
      <4>3. Holder(u)'
        BY <1>5, <4>1, <4>2 DEF Relock, Take, Return, FallAsleep, Holder, SyncInv,
           Types
      <4> QED
        BY <4>3 DEF WakeInv
    <3>2. CASE rw_refcount = 0
      <4>1. c = "rw_condreaders" /\ rw_nwaitwriters > 0
        BY <2>5, <3>2 DEF MustWait, SyncInv, Types
      <4>2. \/ \E u \in Threads : Holder(u) \/ WokenWriter(u)
            \/ wasted \/ rw_mutex # NULL
        BY <4>1, WaitFacts, WriterWaits DEF SyncInv, WakeInv
      <4>3. ~Holder(t) /\ ~WokenWriter(t)
        BY <2>1, <2>5, <4>1 DEF Holder, WokenWriter
      <4> QED
        BY <1>5, <2>2, <4>2, <4>3 DEF Relock, WakeInv
    <3> QED
      BY <3>1, <3>2
  <2> QED
    BY <1>5, <2>3, <2>4, <2>5 DEF Relock
<1>6. ASSUME NEW t \in Threads, unlock(t) PROVE WakeInv'
  <2>1. HoldInv'
    BY <1>6, HoldLess DEF unlock, Holder, SyncInv
  <2>2. Types'
    BY TypeStep DEF SyncInv
  <2>3. \A u \in Threads : Stuck(u)' => Stuck(u)
    BY <1>6 DEF unlock, pthread_cond_signal, pthread_cond_broadcast, Stuck, SyncInv,
       CondInv, Types
  <2>4. CASE rw_nwaitwriters > 0 /\ rw_refcount' = 0
    <3>1. pthread_cond_signal("rw_condwriters")
      BY <1>6, <2>4 DEF unlock, NowFree
    <3>2. CASE wait_task["rw_condwriters"] = {}
      <4>1. UNCHANGED <<notified, wait_task, wasted>>
        BY <3>1, <3>2 DEF pthread_cond_signal, Foremost
      <4>2. PICK u \in Waiters("rw_condwriters") : TRUE
        BY <2>4, WaitFacts DEF SyncInv
      <4>3. u \in Threads /\ (wasted \/ WokenWriter(u))
        BY <3>2, <4>2, WriterWaits DEF SyncInv, TablesInv, Stuck, Waiters
      <4>4. WokenWriter(u) => WokenWriter(u)'
        BY <1>6, <4>1, <4>3 DEF unlock, WokenWriter, SyncInv, Types
      <4> QED
        BY <4>1, <4>3, <4>4 DEF WakeInv
    <3>3. CASE wait_task["rw_condwriters"] # {}
      <4>1. PICK u \in wait_task["rw_condwriters"] :
              /\ notified' = notified \cup {u}
              /\ wasted' = (wasted \/ pc[u] = "late")
        BY <3>1, <3>3 DEF pthread_cond_signal, Foremost
      <4>2. u \in Threads /\ u \in Waiters("rw_condwriters")
        BY <4>1 DEF SyncInv, TablesInv, Types
      <4>3. wasted' \/ WokenWriter(u)'
        BY <1>6, <4>1, <4>2 DEF unlock, WokenWriter, Waiters, In, SyncInv, Types
      <4> QED
        BY <4>2, <4>3 DEF WakeInv
    <3> QED
      BY <3>2, <3>3
  <2>5. CASE rw_nwaitwriters > 0 /\ rw_refcount' # 0
    <3>1. \E u \in Threads : Holder(u)'
      BY <2>1, <2>2, <2>5, RefFactsNext DEF HoldInv
    <3> QED
      BY <3>1 DEF WakeInv
  <2>6. CASE ~(rw_nwaitwriters > 0)
    <3>1. Waiters("rw_condwriters") = {}
      BY <2>6, WaitFacts DEF SyncInv
    <3>2. \A u \in Threads : Stuck(u)' => u \in wait_task["rw_condreaders"]
      BY <2>3, <3>1 DEF Stuck, SyncInv, TablesInv, Waiters, In, Types
    <3>3. CASE rw_nwaitreaders > 0
      <4>1. notified' = notified \cup wait_task["rw_condreaders"]
        BY <1>6, <2>6, <3>3 DEF unlock, pthread_cond_broadcast
      <4>2. \A u \in Threads : ~Stuck(u)'
        BY <1>6, <2>3, <3>1, <3>2, <4>1 DEF unlock, Stuck, Waiters, In, SyncInv,
           CondInv, Types
      <4> QED
        BY <4>2 DEF WakeInv
    <3>4. CASE ~(rw_nwaitreaders > 0)
      <4>1. Waiters("rw_condreaders") = {}
        BY <3>4, WaitFacts DEF SyncInv
      <4> QED
        BY <3>2, <4>1 DEF WakeInv, SyncInv, TablesInv
    <3> QED
      BY <3>3, <3>4
  <2> QED
    BY <2>4, <2>5, <2>6
<1>7. ASSUME NEW t \in Threads, destroy(t) PROVE WakeInv'
  <2>1. CASE rw_mutex' = t
    BY <2>1 DEF WakeInv
  <2>2. CASE UNCHANGED rw_mutex
    BY <1>7, <2>2 DEF destroy, WakeInv, Stuck, Holder, WokenWriter
  <2> QED
    BY <1>7, <2>1, <2>2 DEF destroy
<1>8. ASSUME NEW t \in Threads, barrier_wait(t) PROVE WakeInv'
  <2>1. \A u \in Threads : Stuck(u)' => Stuck(u)
    BY <1>8 DEF barrier_wait, pthread_cond_broadcast, FallAsleep, Stuck,
       Holder, WokenWriter, SyncInv, CondInv, TablesInv, Waiters, In, Types
  <2>2. \A u \in Threads : Holder(u) \/ WokenWriter(u)
                             => Holder(u)' \/ WokenWriter(u)'
    BY <1>8 DEF barrier_wait, pthread_cond_broadcast, FallAsleep, Stuck,
       Holder, WokenWriter, SyncInv, CondInv, TablesInv, Waiters, In, Types
  <2>3. UNCHANGED <<wasted, rw_mutex>>
    BY <1>8 DEF barrier_wait, pthread_cond_broadcast
  <2> QED
    BY <2>1, <2>2, <2>3, WakeStays
<1>9. ASSUME NEW t \in Threads, barrier_leave(t) PROVE WakeInv'
  <2>1. \A u \in Threads : Stuck(u)' => Stuck(u)
    BY <1>9 DEF barrier_leave, Return, Stuck, Holder, WokenWriter, SyncInv,
       CondInv, TablesInv, Waiters, In, Types
  <2>2. \A u \in Threads : Holder(u) \/ WokenWriter(u)
                             => Holder(u)' \/ WokenWriter(u)'
    BY <1>9 DEF barrier_leave, Return, Stuck, Holder, WokenWriter, SyncInv,
       CondInv, TablesInv, Waiters, In, Types
  <2> QED
    BY <1>9, <2>1, <2>2, WakeStays DEF barrier_leave
<1> QED
  BY <1>1, <1>2, <1>3, <1>4, <1>5, <1>6, <1>7, <1>8, <1>9 DEF Next, Thread

-----------------------------------------------------------------------------
(* The barrier, and the end of the lock.                                   *)

(* Only the last thread wakes those at the barrier. *)
LEMMA BarrierStep ==
  ASSUME SyncInv, BarrierInv, Next
  PROVE  BarrierInv'
<1>1. ASSUME NEW t \in Threads, NEW c \in RwConds, lock(t, c) PROVE
   BarrierInv'
  BY <1>1 DEF lock, Take, Return, BarrierInv, SyncInv, CondInv, Types
<1>2. ASSUME NEW t \in Threads, NEW c \in RwConds, NEW tm \in Timing(t),
   lockWaits(t, c, tm) PROVE BarrierInv'
  BY <1>2 DEF lockWaits, FallAsleep, BarrierInv, SyncInv, CondInv, Types
<1>3. ASSUME NEW t \in Threads, Wake(t) PROVE BarrierInv'
  BY <1>3 DEF Wake, BarrierInv, SyncInv, CondInv, Types
<1>4. ASSUME NEW t \in Threads, Timeout(t) PROVE BarrierInv'
  BY <1>4 DEF Timeout, BarrierInv, SyncInv, CondInv, Types
<1>5. ASSUME NEW t \in Threads, Relock(t) PROVE BarrierInv'
  BY <1>5 DEF Relock, Take, Return, FallAsleep, BarrierInv, SyncInv, CondInv,
     Types
<1>6. ASSUME NEW t \in Threads, unlock(t) PROVE BarrierInv'
  <2>1. \A u \in Threads : cond[u] = "barrier" /\ u \in notified' => u \in notified
    BY <1>6 DEF unlock, pthread_cond_signal, pthread_cond_broadcast, Foremost,
       SyncInv, TablesInv, Waiters
  <2> QED
    BY <1>6, <2>1 DEF unlock, BarrierInv, SyncInv, CondInv, Types
<1>7. ASSUME NEW t \in Threads, destroy(t) PROVE BarrierInv'
  BY <1>7 DEF destroy, BarrierInv, SyncInv, CondInv, Types
<1>8. ASSUME NEW t \in Threads, barrier_wait(t) PROVE BarrierInv'
  <2>1. CASE Last
    <3>1. count' = 0
      BY <1>8, <2>1 DEF barrier_wait, Last
    <3> QED
      BY <3>1 DEF BarrierInv
  <2>2. CASE ~Last /\ count' = 0
    BY <2>2 DEF BarrierInv
  <2>3. CASE ~Last /\ count' # 0
    <3>1. count # 0
      BY <1>8 DEF barrier_wait
    <3>2. passed \ early = {} /\ early \subseteq early'
      BY <1>8, <3>1 DEF barrier_wait, BarrierInv
    <3>3. passed' \ early' = {}
      BY <1>8, <2>3, <3>2 DEF barrier_wait
    <3>4. UNCHANGED notified
      BY <1>8, <2>3 DEF barrier_wait
    <3>5. ASSUME NEW u \in Threads \ early', cond'[u] = "barrier"
          PROVE  ~(pc'[u] = "awake" \/ (pc'[u] = "sleep" /\ u \in notified'))
      <4>1. CASE u = t
        BY <1>8, <2>3, <3>4, <3>5, <4>1 DEF barrier_wait, FallAsleep, SyncInv,
           CondInv, Types
      <4>2. CASE u # t
        BY <1>8, <2>3, <3>1, <3>2, <3>4, <3>5, <4>2 DEF barrier_wait, FallAsleep,
           BarrierInv, SyncInv, Types
      <4> QED
        BY <4>1, <4>2
    <3> QED
      BY <3>3, <3>5 DEF BarrierInv
  <2> QED
    BY <2>1, <2>2, <2>3
<1>9. ASSUME NEW t \in Threads, barrier_leave(t) PROVE BarrierInv'
  BY <1>9 DEF barrier_leave, Return, BarrierInv, SyncInv, CondInv, Types
<1> QED
  BY <1>1, <1>2, <1>3, <1>4, <1>5, <1>6, <1>7, <1>8, <1>9 DEF Next, Thread

(* Nobody comes back to a lock that has been destroyed. *)
LEMMA DestroyStep ==
  ASSUME SyncInv, DestroyedIsUnused, Next
  PROVE  DestroyedIsUnused'
<1>1. ASSUME NEW t \in Threads, NEW c \in RwConds, lock(t, c) PROVE
   DestroyedIsUnused'
  BY <1>1 DEF lock, Usable, DestroyedIsUnused
<1>2. ASSUME NEW t \in Threads, NEW c \in RwConds, NEW tm \in Timing(t),
   lockWaits(t, c, tm) PROVE DestroyedIsUnused'
  BY <1>2 DEF lockWaits, Usable, DestroyedIsUnused
<1>3. ASSUME NEW t \in Threads, Wake(t) PROVE DestroyedIsUnused'
  BY <1>3 DEF Wake, DestroyedIsUnused, Waiters, In, SyncInv, CondInv, Types
<1>4. ASSUME NEW t \in Threads, Timeout(t) PROVE DestroyedIsUnused'
  BY <1>4 DEF Timeout, DestroyedIsUnused, Waiters, In, SyncInv, CondInv,
     Types
<1>5. ASSUME NEW t \in Threads, Relock(t) PROVE DestroyedIsUnused'
  BY <1>5 DEF Relock, Usable, DestroyedIsUnused
<1>6. ASSUME NEW t \in Threads, unlock(t) PROVE DestroyedIsUnused'
  BY <1>6 DEF unlock, Usable, DestroyedIsUnused
<1>7. ASSUME NEW t \in Threads, destroy(t) PROVE DestroyedIsUnused'
  <2>1. CASE Busy
    BY <1>7, <2>1 DEF destroy, DestroyedIsUnused, Usable
  <2>2. CASE ~Busy
    <3>1. /\ Waiters("rw_condreaders") = {}
          /\ Waiters("rw_condwriters") = {}
      BY <2>2, WaitFacts DEF Busy, SyncInv
    <3>2. In({"read", "write"}) = {}
      BY <2>2, RefFacts DEF Busy, In, Holder, SyncInv, HoldInv
    <3> QED
      BY <1>7, <3>1, <3>2 DEF destroy, DestroyedIsUnused, Waiters, In
  <2> QED
    BY <2>1, <2>2
<1>8. ASSUME NEW t \in Threads, barrier_wait(t) PROVE DestroyedIsUnused'
  BY <1>8 DEF barrier_wait, FallAsleep, DestroyedIsUnused, Waiters, In,
     SyncInv, CondInv, Types
<1>9. ASSUME NEW t \in Threads, barrier_leave(t) PROVE DestroyedIsUnused'
  BY <1>9 DEF barrier_leave, Return, DestroyedIsUnused, Waiters, In, SyncInv,
     CondInv, Types
<1> QED
  BY <1>1, <1>2, <1>3, <1>4, <1>5, <1>6, <1>7, <1>8, <1>9 DEF Next, Thread

-----------------------------------------------------------------------------
(* The lock implements ReadersWriterLock.                                  *)

Phases == [t \in Threads |-> Phase(t)]

(* What a thread's phase says of it. *)
LEMMA PhaseFacts ==
  ASSUME SyncInv, NEW t \in Threads
  PROVE  /\ Phases[t] = Phase(t)
         /\ Phase(t) = "read" <=> pc[t] = "read"
         /\ Phase(t) = "write" <=> pc[t] = "write"
         /\ Phase(t) = "wantread" <=> t \in Waiters("rw_condreaders")
         /\ Phase(t) = "wantwrite" <=> t \in Waiters("rw_condwriters")
         /\ pc[t] = "idle" => Phase(t) = "idle"
  BY DEF Phases, Phase, Waiters, In, SyncInv, CondInv, Types

(* The guards of the abstract lock, as the counters have them. *)
LEMMA GuardFacts ==
  ASSUME SyncInv
  PROVE  /\ Abstract!CanRead <=> rw_refcount >= 0 /\ rw_nwaitwriters = 0
         /\ \A t \in Threads : rw_refcount = 0 => Abstract!CanWrite(t)
         /\ \A t \in Threads : ~Holder(t) /\ rw_refcount # 0 => ~Abstract!CanWrite(t)
<1>1. Abstract!Is("write") <=> \E t \in Threads : pc[t] = "write"
  BY PhaseFacts DEF Abstract!Is, Phases
<1>2. Abstract!Is("wantwrite") <=> Waiters("rw_condwriters") # {}
  <2>1. Abstract!Is("wantwrite")
          <=> \E t \in Threads : t \in Waiters("rw_condwriters")
    BY PhaseFacts DEF Abstract!Is, Phases
  <2> QED
    BY <2>1 DEF Waiters, In
<1>3. Abstract!CanRead <=> rw_refcount >= 0 /\ rw_nwaitwriters = 0
  BY <1>1, <1>2, RefFacts, WaitFacts DEF Abstract!CanRead, SyncInv, HoldInv, Types
<1>4. \A t \in Threads : Abstract!CanWrite(t)
                           <=> \A u \in Threads \ {t} : ~Holder(u)
  BY PhaseFacts DEF Abstract!CanWrite, Phases, Holder
<1> QED
  BY <1>3, <1>4, RefFacts DEF SyncInv, HoldInv, Holder

(* A step after which thread t, and no other, has another phase. *)
LEMMA MovesOne ==
  ASSUME NEW t \in Threads, NEW from, NEW to, Phase(t) \in from, Phase(t)' = to,
         \A u \in Threads \ {t} : Phase(u)' = Phase(u)
  PROVE  Abstract!Move(t, from, to)
  BY DEF Abstract!Move

(* The phase of a thread is where it is and what it waits for. *)
LEMMA PhaseSame ==
  ASSUME NEW t \in Threads, pc'[t] = pc[t], cond'[t] = cond[t]
  PROVE  Phase(t)' = Phase(t)
  BY DEF Phase

(* Every step of the implementation is one of the abstract lock, or none.  *)
LEMMA ImplementsStep ==
  ASSUME SyncInv, Next
  PROVE  [Abstract!Next]_Phases
<1>1. ASSUME NEW t \in Threads, NEW c \in RwConds, lock(t, c)
      PROVE  Abstract!Next
  <2>1. /\ Phase(t) = "idle"
        /\ \A u \in Threads \ {t} : Phase(u)' = Phase(u)
        /\ Phase(t)' = IF c = "rw_condreaders" THEN "read" ELSE "write"
    <3>1. \A u \in Threads \ {t} : pc'[u] = pc[u] /\ cond'[u] = cond[u]
      BY <1>1 DEF lock, Take, Return, SyncInv, Types
    <3>2. pc[t] = "idle" /\ cond[t] = NULL
      BY <1>1 DEF lock, SyncInv, CondInv
    <3>3. /\ pc'[t] = IF c = "rw_condreaders" THEN "read" ELSE "write"
          /\ cond'[t] = NULL
      BY <1>1 DEF lock, Take, Return, SyncInv, Types
    <3> QED
      BY <3>1, <3>2, <3>3, PhaseSame DEF Phase
  <2>2. CASE c = "rw_condreaders"
    <3>1. Abstract!CanRead
      BY <1>1, <2>2, GuardFacts, WaitFacts DEF lock, MustWait, SyncInv, Types
    <3> QED
      BY <2>1, <2>2, <3>1, MovesOne DEF Abstract!Next, Abstract!Read
  <2>3. CASE c = "rw_condwriters"
    <3>1. Abstract!CanWrite(t)
      BY <1>1, <2>3, GuardFacts DEF lock, MustWait
    <3> QED
      BY <2>1, <2>3, <3>1, MovesOne DEF Abstract!Next, Abstract!Write
  <2> QED
    BY <2>2, <2>3
<1>2. ASSUME NEW t \in Threads, NEW c \in RwConds, NEW tm \in Timing(t),
             lockWaits(t, c, tm)
      PROVE  Abstract!Next
  <2>1. /\ Phase(t) = "idle"
        /\ \A u \in Threads \ {t} : Phase(u)' = Phase(u)
        /\ Phase(t)' = IF c = "rw_condreaders" THEN "wantread" ELSE "wantwrite"
    <3>1. \A u \in Threads \ {t} : pc'[u] = pc[u] /\ cond'[u] = cond[u]
      BY <1>2 DEF lockWaits, FallAsleep, SyncInv, Types
    <3>2. pc[t] = "idle" /\ cond[t] = NULL
      BY <1>2 DEF lockWaits, SyncInv, CondInv
    <3>3. pc'[t] = "sleep" /\ cond'[t] = c
      BY <1>2 DEF lockWaits, FallAsleep, SyncInv, Types
    <3> QED
      BY <3>1, <3>2, <3>3, PhaseSame DEF Phase
  <2>2. CASE c = "rw_condreaders"
    <3>1. ~Abstract!CanRead
      BY <1>2, <2>2, GuardFacts, WaitFacts DEF lockWaits, MustWait, SyncInv, Types
    <3> QED
      BY <2>1, <2>2, <3>1, MovesOne DEF Abstract!Next, Abstract!WaitToRead
  <2>3. CASE c = "rw_condwriters"
    <3>1. ~Abstract!CanWrite(t)
      BY <1>2, <2>3, GuardFacts DEF lockWaits, MustWait, Holder
    <3> QED
      BY <2>1, <2>3, <3>1, MovesOne DEF Abstract!Next, Abstract!WaitToWrite
  <2> QED
    BY <2>2, <2>3
<1>3. ASSUME NEW t \in Threads, Relock(t)
      PROVE  Abstract!Next \/ UNCHANGED Phases
  <2>1. PICK c \in RwConds : cond[t] = c
    BY <1>3 DEF Relock
  <2>2. /\ Phase(t) = IF c = "rw_condreaders" THEN "wantread" ELSE "wantwrite"
        /\ \A u \in Threads \ {t} : Phase(u)' = Phase(u)
    BY <1>3, <2>1 DEF Relock, Take, Return, FallAsleep, Phase, SyncInv, Types
  <2> DEFINE n == rw_nwaitwriters - (IF c = "rw_condwriters" THEN 1 ELSE 0)
  <2>3. CASE Return(t, "idle")
    <3>1. Phase(t)' = "idle"
      BY <2>3 DEF Return, Phase, SyncInv, Types
    <3> QED
      BY <2>2, <3>1, MovesOne DEF Abstract!Next, Abstract!GiveUp
  <2>4. CASE Take(t, c) /\ ~MustWait(c, n)
    <3>1. Phase(t)' = IF c = "rw_condreaders" THEN "read" ELSE "write"
      BY <2>4 DEF Take, Return, Phase, SyncInv, Types
    <3>2. CASE c = "rw_condreaders"
      <4>1. Abstract!CanRead
        BY <2>4, <3>2, GuardFacts, WaitFacts DEF MustWait, SyncInv, Types
      <4> QED
        BY <2>2, <3>1, <3>2, <4>1, MovesOne DEF Abstract!Next, Abstract!Read
    <3>3. CASE c = "rw_condwriters"
      <4>1. Abstract!CanWrite(t)
        BY <2>4, <3>3, GuardFacts DEF MustWait
      <4> QED
        BY <2>2, <3>1, <3>3, <4>1, MovesOne DEF Abstract!Next, Abstract!Write
    <3> QED
      BY <3>2, <3>3
  <2>5. CASE FallAsleep(t, c, timed[t])
    <3>1. Phase(t)' = Phase(t)
      BY <2>1, <2>2, <2>5 DEF FallAsleep, Phase, SyncInv, Types
    <3> QED
      BY <2>2, <3>1 DEF Phases
  <2> QED
    BY <1>3, <2>1, <2>3, <2>4, <2>5 DEF Relock
<1>4. ASSUME NEW t \in Threads, unlock(t)
      PROVE  Abstract!Next
  <2>1. /\ Phase(t) \in {"read", "write"} /\ Phase(t)' = "idle"
        /\ \A u \in Threads \ {t} : Phase(u)' = Phase(u)
    <3>1. \A u \in Threads \ {t} : pc'[u] = pc[u] /\ cond'[u] = cond[u]
      BY <1>4 DEF unlock, SyncInv, Types
    <3>2. /\ pc[t] \in {"read", "write"} /\ pc'[t] = "idle"
          /\ cond[t] = NULL /\ cond'[t] = NULL
      BY <1>4 DEF unlock, SyncInv, CondInv, Types
    <3> QED
      BY <3>1, <3>2, PhaseSame DEF Phase
  <2> QED
    BY <2>1, MovesOne DEF Abstract!Next, Abstract!Release
<1>5. ASSUME NEW t \in Threads,
             Wake(t) \/ Timeout(t) \/ destroy(t) \/ barrier_wait(t) \/ barrier_leave(t)
      PROVE  UNCHANGED Phases
  <2>1. \A u \in Threads \ {t} : pc'[u] = pc[u] /\ cond'[u] = cond[u]
    BY <1>5 DEF Wake, Timeout, destroy, barrier_wait, barrier_leave, FallAsleep,
       Return, SyncInv, Types
  <2>2. Phase(t)' = Phase(t)
    <3>1. CASE Wake(t) \/ Timeout(t) \/ destroy(t)
      BY <3>1 DEF Wake, Timeout, destroy, Phase, SyncInv, Types
    <3>2. CASE barrier_wait(t)
      <4>1. /\ pc[t] = "idle" /\ cond[t] = NULL
            /\ \/ pc'[t] = "idle" /\ cond'[t] = NULL
               \/ pc'[t] = "sleep" /\ cond'[t] = "barrier"
        BY <3>2 DEF barrier_wait, FallAsleep, SyncInv, CondInv, Types
      <4> QED
        BY <4>1 DEF Phase
    <3>3. CASE barrier_leave(t)
      BY <3>3 DEF barrier_leave, Return, Phase, SyncInv, Types
    <3> QED
      BY <1>5, <3>1, <3>2, <3>3
  <2> QED
    BY <2>1, <2>2, PhaseSame DEF Phases
<1> QED
  BY <1>1, <1>2, <1>3, <1>4, <1>5 DEF Next, Thread

-----------------------------------------------------------------------------
(* The theorems.                                                           *)

PthreadInv == SyncInv /\ WakeInv /\ BarrierInv /\ DestroyedIsUnused

(* The invariant holds when the lock and the barrier have been initialised. *)
LEMMA InitPthread == Init => PthreadInv
<1> SUFFICES ASSUME Init PROVE PthreadInv
  OBVIOUS
<1>1. Types
  <2>1. count \in 0..BarrierCount /\ timed \in [Threads -> BOOLEAN]
    BY DEF Init
  <2>2. /\ wait_task \in [Conds -> SUBSET Threads]
        /\ pc \in [Threads -> {"idle", "sleep", "awake", "late", "read", "write"}]
        /\ cond \in [Threads -> Conds \cup {NULL}]
    BY DEF Init
  <2>3. destroyed \in BOOLEAN /\ wasted \in BOOLEAN
    BY DEF Init
  <2>4. /\ rw_mutex \in Threads \cup {NULL}
        /\ rw_refcount \in Int /\ rw_nwaitreaders \in Int /\ rw_nwaitwriters \in Int
        /\ notified \subseteq Threads /\ passed \subseteq Threads
        /\ early \subseteq Threads
    BY DEF Init
  <2> QED
    BY <2>1, <2>2, <2>3, <2>4 DEF Types
<1>2. CondInv /\ TablesInv
  BY DEF Init, CondInv, TablesInv
<1>3. /\ \A S : In({S}) = {} <=> S # "idle" \/ Threads = {}
      /\ \A c : Waiters(c) = {}
  BY DEF Init, In, Waiters
<1>4. HoldInv /\ WaitersCounted
  BY <1>3, FS_EmptySet DEF Init, HoldInv, OneWriter, HoldersCounted, WaitersCounted
<1>5. WakeInv /\ BarrierInv /\ DestroyedIsUnused
  BY DEF Init, WakeInv, Stuck, BarrierInv, DestroyedIsUnused
<1> QED
  BY <1>1, <1>2, <1>4, <1>5 DEF PthreadInv, SyncInv

(* The invariant depends on nothing but the variables. *)
LEMMA PthreadStutters == PthreadInv /\ UNCHANGED vars => PthreadInv'
  BY DEF PthreadInv, SyncInv, Types, CondInv, HoldInv, OneWriter, HoldersCounted,
         WaitersCounted, TablesInv, WakeInv, Stuck, WokenWriter, Holder, BarrierInv,
         DestroyedIsUnused, In, Waiters, vars

(* PthreadInv is an invariant of the lock, the barrier and the condition   *)
(* variables they wait on, whatever the threads do.                        *)
THEOREM PthreadInvariant == Spec => []PthreadInv
<1>1. PthreadInv /\ [Next]_vars => PthreadInv'
  <2> SUFFICES ASSUME PthreadInv, [Next]_vars PROVE PthreadInv'
    OBVIOUS
  <2>1. CASE Next
    BY <2>1, TypeStep, CondStep, HoldStep, WaitStep, TablesStep, WakeStep,
       BarrierStep, DestroyStep DEF PthreadInv, SyncInv
  <2>2. CASE UNCHANGED vars
    BY <2>2, PthreadStutters
  <2> QED
    BY <2>1, <2>2
<1> QED
  BY InitPthread, <1>1, PTL DEF Spec

(* The counters of the lock are the numbers of its holders and waiters,    *)
(* and so have their ranges.                                               *)
THEOREM CountersAreRight == Spec => [](TypeOK /\ CountsMatch)
<1>1. PthreadInv => CountsMatch
  BY DEF PthreadInv, SyncInv, HoldInv, HoldersCounted, WaitersCounted, TablesInv,
         CountsMatch
<1>2. PthreadInv => TypeOK
  <2> SUFFICES ASSUME PthreadInv PROVE TypeOK
    OBVIOUS
  <2>1. In({"read"}) \in SUBSET Threads
    BY DEF In
  <2>2. Cardinality(In({"read"})) \in 0..Cardinality(Threads)
    BY <2>1, FiniteParts, FS_Subset, FS_CardinalityType
  <2>3. rw_refcount \in -1..Cardinality(Threads)
    BY <2>2, FS_CardinalityType DEF PthreadInv, SyncInv, HoldInv, HoldersCounted
  <2>4. rw_nwaitreaders \in Nat /\ rw_nwaitwriters \in Nat
    BY WaitFacts DEF PthreadInv, SyncInv
  <2> QED
    BY <2>3, <2>4 DEF PthreadInv, SyncInv, Types, TypeOK
<1> QED
  BY PthreadInvariant, <1>1, <1>2, PTL

(* No thread sleeps on a lock that nobody will unlock, but for the two     *)
(* exceptions the property names.                                          *)
THEOREM SleepersAreWoken == Spec => []NoSleeperForgotten
<1>1. PthreadInv => NoSleeperForgotten
  BY DEF PthreadInv, SyncInv, WakeInv, NoSleeperForgotten, Movers, In, Stuck,
         Holder, WokenWriter, CondInv, Types
<1> QED
  BY PthreadInvariant, <1>1, PTL

(* A lock that has been destroyed has neither holders nor waiters.         *)
THEOREM DestroyedLockIsUnused == Spec => []DestroyedIsUnused
<1>1. PthreadInv => DestroyedIsUnused
  BY DEF PthreadInv
<1> QED
  BY PthreadInvariant, <1>1, PTL

(* The barrier holds everyone back until the last thread has come.         *)
THEOREM BarrierHoldsAll == Spec => []BarrierHolds
<1>1. PthreadInv => BarrierHolds
  BY DEF PthreadInv, BarrierInv, BarrierHolds
<1> QED
  BY PthreadInvariant, <1>1, PTL

(* The lock of pthread_rwlock.c implements a lock for readers and writers  *)
(* that prefers writers, for any number of threads.                        *)
THEOREM LockIsImplemented == Spec => ImplementsLock
<1>1. Init => Abstract!Init
  BY DEF Init, Phase, Abstract!Init
<1>2. PthreadInv /\ [Next]_vars => [Abstract!Next]_Phases
  <2> SUFFICES ASSUME PthreadInv, [Next]_vars PROVE [Abstract!Next]_Phases
    OBVIOUS
  <2>1. CASE Next
    BY <2>1, ImplementsStep DEF PthreadInv
  <2>2. CASE UNCHANGED vars
    BY <2>2 DEF Phases, Phase, vars
  <2> QED
    BY <2>1, <2>2
<1> QED
  BY <1>1, <1>2, PthreadInvariant, PTL DEF Spec, ImplementsLock, Abstract!Spec, Phases
=============================================================================
