---------------------------- MODULE PthreadSync ----------------------------
(***************************************************************************)
(* libs/libc/pthread on FreeRTOS: the condition variable of                *)
(* pthread_cond.c, a table of CONFIG_PTHREAD_COND_MAX_WAITERS waiting      *)
(* tasks woken by task notifications, and the two objects the library      *)
(* builds on it, pthread_rwlock.c and pthread_barrier.c.                   *)
(*                                                                         *)
(* What a thread does between taking an object's mutex and giving it back  *)
(* is one action: every field, and every table of waiters, is only used    *)
(* under it.  A waiting thread takes three: it falls asleep, it is         *)
(* notified or times out, and it gets the mutex again.  A task has one     *)
(* notification, whatever it waits for.                                    *)
(***************************************************************************)
EXTENDS Integers, FiniteSets

CONSTANTS
  Threads,
  Timers,         \* those that use the timed forms of the lock
  Priority,       \* of each thread
  MaxWaiters,     \* CONFIG_PTHREAD_COND_MAX_WAITERS
  BarrierCount,   \* what pthread_barrier_init was given
  NULL

RwConds == {"rw_condreaders", "rw_condwriters"}
Conds == RwConds \cup {"barrier"}

ASSUME SyncConstants ==
  /\ IsFiniteSet(Threads)
  /\ Timers \subseteq Threads
  /\ Priority \in [Threads -> Nat]
  /\ MaxWaiters \in Nat \ {0}
  /\ BarrierCount \in Nat \ {0}
  /\ NULL \notin Threads \cup Conds

VARIABLES
  rw_mutex,         \* the thread that left rw_mutex locked, or NULL
  rw_refcount,      \* -1 for a writer, else the number of readers
  rw_nwaitreaders,
  rw_nwaitwriters,
  destroyed,        \* has the lock been destroyed?
  wait_task,        \* of each condition variable, the tasks in its table
  notified,         \* the tasks that have a notification pending
  count,            \* how many threads the barrier still waits for
  pc,               \* idle, sleep, awake or late (wants the mutex back, after
                    \* a notification or a time-out), read, write
  cond,             \* what a thread waits for, or NULL
  timed,            \* does it wait with a time-out?
  passed,           \* history: who has returned from the barrier
  early,            \* history: whom the barrier may have let through early
  wasted            \* history: has a signal gone to a thread that had timed out?

lockVars == <<rw_mutex, rw_refcount, rw_nwaitreaders, rw_nwaitwriters, destroyed>>
vars == <<lockVars, wait_task, notified, count, pc, cond, timed, passed, early,
          wasted>>

\* pthread_rwlock_init and pthread_barrier_init.
Init ==
  /\ rw_mutex = NULL /\ rw_refcount = 0
  /\ rw_nwaitreaders = 0 /\ rw_nwaitwriters = 0
  /\ destroyed = FALSE
  /\ wait_task = [c \in Conds |-> {}]
  /\ notified = {}
  /\ count = BarrierCount
  /\ pc = [t \in Threads |-> "idle"]
  /\ cond = [t \in Threads |-> NULL]
  /\ timed = [t \in Threads |-> FALSE]
  /\ passed = {} /\ early = {} /\ wasted = FALSE

-----------------------------------------------------------------------------
(* pthread_cond.c.                                                         *)

Room(c, t) == Cardinality(wait_task[c] \ {t}) < MaxWaiters

\* pthread_cond_timedwait: take an entry, unlock, xTaskNotifyWait.
FallAsleep(t, c, tm) ==
  /\ wait_task' = [wait_task EXCEPT ![c] = @ \cup {t}]
  /\ pc' = [pc EXCEPT ![t] = "sleep"]
  /\ cond' = [cond EXCEPT ![t] = c]
  /\ timed' = [timed EXCEPT ![t] = tm]

\* The wait is over.
Return(t, to) ==
  /\ pc' = [pc EXCEPT ![t] = to]
  /\ cond' = [cond EXCEPT ![t] = NULL]
  /\ timed' = [timed EXCEPT ![t] = FALSE]

\* xTaskNotifyWait returns with the notification,
Wake(t) ==
  /\ pc[t] = "sleep" /\ t \in notified
  /\ notified' = notified \ {t}
  /\ pc' = [pc EXCEPT ![t] = "awake"]
  /\ UNCHANGED <<lockVars, wait_task, count, cond, timed, passed, early, wasted>>

\* or without.
Timeout(t) ==
  /\ pc[t] = "sleep" /\ timed[t] /\ t \notin notified
  /\ pc' = [pc EXCEPT ![t] = "late"]
  /\ UNCHANGED <<lockVars, wait_task, notified, count, cond, timed, passed, early,
                 wasted>>

\* The tasks pthread_cond_signal chooses from.
Foremost(S) == {t \in S : \A u \in S : Priority[u] <= Priority[t]}

(* A broadcast that leaves out an entry of the table. *)
pthread_cond_broadcast_SkipsOne(c) ==
  /\ \E t \in wait_task[c] : notified' = notified \cup (wait_task[c] \ {t})
  /\ wait_task' = [wait_task EXCEPT ![c] = {}]
  /\ UNCHANGED wasted

pthread_cond_broadcast(c) ==
  /\ notified' = notified \cup wait_task[c]
  /\ wait_task' = [wait_task EXCEPT ![c] = {}]
  /\ UNCHANGED wasted

pthread_cond_signal(c) ==
  \/ /\ wait_task[c] = {}
     /\ UNCHANGED <<notified, wait_task, wasted>>
  \/ \E t \in Foremost(wait_task[c]) :
       /\ notified' = notified \cup {t}
       /\ wait_task' = [wait_task EXCEPT ![c] = @ \ {t}]
       /\ wasted' = (wasted \/ pc[t] = "late")

-----------------------------------------------------------------------------
(* pthread_rwlock.c.  A thread t that runs an operation has rw_mutex.      *)

Usable == rw_mutex = NULL /\ ~destroyed

(* Readers that overtake waiting writers. *)
MustWait_NoPreference(c, nwriters) ==
  IF c = "rw_condreaders" THEN rw_refcount < 0 ELSE rw_refcount # 0

\* The conditions of the two loops, given the number of waiting writers.
MustWait(c, nwriters) ==
  IF c = "rw_condreaders" THEN rw_refcount < 0 \/ nwriters > 0
  ELSE rw_refcount # 0

Take(t, c) ==
  /\ rw_refcount' = IF c = "rw_condreaders" THEN rw_refcount + 1 ELSE -1
  /\ Return(t, IF c = "rw_condreaders" THEN "read" ELSE "write")

(* Waiters that give up, or get the lock, but stay counted. *)
CountWaiters_OnlyUp(c, d) ==
  /\ rw_nwaitreaders' = rw_nwaitreaders + (IF c = "rw_condreaders" /\ d > 0 THEN d ELSE 0)
  /\ rw_nwaitwriters' = rw_nwaitwriters + (IF c = "rw_condwriters" THEN d ELSE 0)

\* The counters after d more (or less) wait on c.
CountWaiters(c, d) ==
  /\ rw_nwaitreaders' = rw_nwaitreaders + (IF c = "rw_condreaders" THEN d ELSE 0)
  /\ rw_nwaitwriters' = rw_nwaitwriters + (IF c = "rw_condwriters" THEN d ELSE 0)

\* rdlock, wrlock and their try and timed forms, when the lock is to be had.
lock(t, c) ==
  /\ pc[t] = "idle" /\ Usable
  /\ ~MustWait(c, rw_nwaitwriters)
  /\ Take(t, c)
  /\ UNCHANGED <<rw_mutex, rw_nwaitreaders, rw_nwaitwriters, destroyed, wait_task,
                 notified, count, passed, early, wasted>>

\* When it is not, a try fails, and so does a wait when the table is full
\* or the time is over: nothing changes.  The others wait.
lockWaits(t, c, tm) ==
  /\ pc[t] = "idle" /\ Usable
  /\ MustWait(c, rw_nwaitwriters) /\ Room(c, t)
  /\ CountWaiters(c, 1)
  /\ FallAsleep(t, c, tm)
  /\ UNCHANGED <<rw_mutex, rw_refcount, destroyed, notified, count, passed,
                 early, wasted>>

\* A waiter has rw_mutex back: it leaves the table, and gives up or looks again.
Relock(t) ==
  LET c == cond[t]
      again == MustWait(c, rw_nwaitwriters - (IF c = "rw_condwriters" THEN 1 ELSE 0))
      out == CountWaiters(c, -1) /\ wait_task' = [wait_task EXCEPT ![c] = @ \ {t}]
  IN /\ c \in RwConds /\ Usable
     /\ \/ /\ \/ pc[t] = "late"
              \/ pc[t] = "awake" /\ again /\ (timed[t] \/ ~Room(c, t))
           /\ out /\ Return(t, "idle")
           /\ UNCHANGED rw_refcount
        \/ pc[t] = "awake" /\ ~again /\ out /\ Take(t, c)
        \/ /\ pc[t] = "awake" /\ again /\ Room(c, t)
           /\ FallAsleep(t, c, timed[t])
           /\ UNCHANGED <<rw_refcount, rw_nwaitreaders, rw_nwaitwriters>>
     /\ UNCHANGED <<rw_mutex, destroyed, notified, count, passed, early, wasted>>

Released == IF rw_refcount > 0 THEN rw_refcount - 1 ELSE 0

(* A test of the count before this thread has given its share back. *)
NowFree_Before == rw_refcount = 0

NowFree == rw_refcount' = 0

\* pthread_rwlock_unlock.
unlock(t) ==
  /\ pc[t] \in {"read", "write"} /\ Usable
  /\ rw_refcount' = Released
  /\ IF rw_nwaitwriters > 0
     THEN IF NowFree THEN pthread_cond_signal("rw_condwriters")
          ELSE UNCHANGED <<notified, wait_task, wasted>>
     ELSE IF rw_nwaitreaders > 0 THEN pthread_cond_broadcast("rw_condreaders")
          ELSE UNCHANGED <<notified, wait_task, wasted>>
  /\ pc' = [pc EXCEPT ![t] = "idle"]
  /\ UNCHANGED <<rw_mutex, rw_nwaitreaders, rw_nwaitwriters, destroyed, count, cond,
                 timed, passed, early>>

(* A lock that nobody holds is taken for unused. *)
Busy_Held == rw_refcount # 0

Busy == rw_refcount # 0 \/ rw_nwaitreaders # 0 \/ rw_nwaitwriters # 0

\* pthread_rwlock_destroy: the first EBUSY is returned with rw_mutex locked.
destroy(t) ==
  /\ pc[t] = "idle" /\ Usable
  /\ IF Busy THEN rw_mutex' = t /\ UNCHANGED destroyed
     ELSE /\ UNCHANGED rw_mutex
          /\ destroyed' = (wait_task["rw_condreaders"] \cup
                             wait_task["rw_condwriters"] = {})
  /\ UNCHANGED <<rw_refcount, rw_nwaitreaders, rw_nwaitwriters, wait_task, notified,
                 count, pc, cond, timed, passed, early, wasted>>

-----------------------------------------------------------------------------
(* pthread_barrier.c.                                                      *)

(* A barrier that opens one thread too soon. *)
Last_TooSoon == count <= 2

Last == count = 1

\* pthread_barrier_wait, once by each thread; the result of
\* pthread_cond_wait is not looked at.
barrier_wait(t) ==
  /\ pc[t] = "idle" /\ t \notin passed /\ count > 0
  /\ count' = count - 1
  /\ early' = IF ~Last /\ (t \in notified \/ ~Room("barrier", t))
              THEN early \cup {t} ELSE early
  /\ \/ /\ Last /\ pthread_cond_broadcast("barrier")
        /\ passed' = passed \cup {t}
        /\ UNCHANGED <<pc, cond, timed>>
     \/ /\ ~Last /\ Room("barrier", t)
        /\ FallAsleep(t, "barrier", FALSE)
        /\ UNCHANGED <<notified, passed, wasted>>
     \/ /\ ~Last /\ ~Room("barrier", t)
        /\ passed' = passed \cup {t}
        /\ UNCHANGED <<notified, wait_task, wasted, pc, cond, timed>>
  /\ UNCHANGED lockVars

barrier_leave(t) ==
  /\ pc[t] = "awake" /\ cond[t] = "barrier"
  /\ wait_task' = [wait_task EXCEPT !["barrier"] = @ \ {t}]
  /\ Return(t, "idle")
  /\ passed' = passed \cup {t}
  /\ UNCHANGED <<lockVars, notified, count, early, wasted>>

-----------------------------------------------------------------------------
Timing(t) == IF t \in Timers THEN BOOLEAN ELSE {FALSE}

Thread(t) ==
  \/ \E c \in RwConds : lock(t, c) \/ \E tm \in Timing(t) : lockWaits(t, c, tm)
  \/ Wake(t) \/ Timeout(t) \/ Relock(t) \/ unlock(t) \/ destroy(t)
  \/ barrier_wait(t) \/ barrier_leave(t)

Next == \E t \in Threads : Thread(t)

(* A task that can run is run in the end: the highest priority that is     *)
(* ready does not loop, and the mutex passes to those who wait for it.     *)
Fairness == \A t \in Threads : WF_vars(Wake(t)) /\ WF_vars(Relock(t))

Spec == Init /\ [][Next]_vars /\ Fairness

-----------------------------------------------------------------------------
(* Properties.                                                             *)

In(S) == {t \in Threads : pc[t] \in S}
Waiters(c) == {t \in In({"sleep", "awake", "late"}) : cond[t] = c}

TypeOK ==
  /\ rw_mutex \in Threads \cup {NULL}
  /\ rw_refcount \in -1..Cardinality(Threads)
  /\ {rw_nwaitreaders, rw_nwaitwriters} \subseteq Nat
  /\ destroyed \in BOOLEAN /\ wasted \in BOOLEAN
  /\ wait_task \in [Conds -> SUBSET Threads]
  /\ count \in 0..BarrierCount
  /\ pc \in [Threads -> {"idle", "sleep", "awake", "late", "read", "write"}]
  /\ cond \in [Threads -> Conds \cup {NULL}]
  /\ timed \in [Threads -> BOOLEAN]
  /\ {notified, passed, early} \subseteq SUBSET Threads

(* The three counters say who holds the lock and who waits, however waits  *)
(* end (pthread_rwlock.c:147-161): a waiter is counted until it has the    *)
(* mutex back, and whoever is in a table is counted.                       *)
CountsMatch ==
  /\ rw_refcount = IF In({"write"}) # {} THEN -1 ELSE Cardinality(In({"read"}))
  /\ rw_nwaitreaders = Cardinality(Waiters("rw_condreaders"))
  /\ rw_nwaitwriters = Cardinality(Waiters("rw_condwriters"))
  /\ \A c \in Conds : wait_task[c] \subseteq Waiters(c)

(* The lock is a lock for readers and writers that prefers writers         *)
(* (pthread_rwlock.c:211, 317): nobody but a single writer or readers      *)
(* hold it, no reader is let in while a writer waits, and a thread that    *)
(* could have it is not made to wait.                                      *)
Phase(t) ==
  CASE pc[t] \in {"idle", "read", "write"} -> pc[t]
    [] cond[t] = "rw_condreaders" -> "wantread"
    [] cond[t] = "rw_condwriters" -> "wantwrite"
    [] OTHER -> "idle"

Abstract == INSTANCE ReadersWriterLock WITH phase <- [t \in Threads |-> Phase(t)]

ImplementsLock == Abstract!Spec

(* Whoever will let a waiter in: a holder, or a thread that has been woken *)
(* and will take the lock.                                                 *)
Movers ==
  In({"read", "write"}) \cup {t \in In({"sleep"}) : t \in notified}
    \cup In({"awake"})

(* No thread sleeps on a lock that nobody will unlock                      *)
(* (pthread_rwlock.c:317-324), except after a signal for the writers went  *)
(* to one that had timed out but was not out of the table yet              *)
(* (pthread_cond.c:434-450), or a destroy kept rw_mutex                    *)
(* (pthread_rwlock.c:78-82).                                               *)
NoSleeperForgotten ==
  (\E t \in In({"sleep"}) : cond[t] # "barrier" /\ t \notin notified)
    => Movers # {} \/ wasted \/ rw_mutex # NULL

(* A lock is destroyed (pthread_rwlock.c:119-126) only when no thread is   *)
(* inside: neither a holder, nor one that was woken and still has to come  *)
(* back through its mutex.                                                 *)
DestroyedIsUnused ==
  destroyed => In({"read", "write"}) \cup Waiters("rw_condreaders")
                 \cup Waiters("rw_condwriters") = {}

(* Nobody returns from pthread_barrier_wait (pthread_barrier.c:114-126)    *)
(* before the last one has come, except who found the table of waiters     *)
(* full or came with a notification that an earlier wait left behind.      *)
BarrierHolds == passed \ early # {} => count = 0

(* A free lock that someone waits for is taken, with the same exceptions:  *)
(* a waiter that is woken finds it free or finds who holds it.             *)
LockMovesOn ==
  (rw_refcount = 0 /\ Waiters("rw_condreaders") \cup Waiters("rw_condwriters") # {})
    ~> (rw_refcount # 0 \/ wasted \/ rw_mutex # NULL
          \/ Waiters("rw_condreaders") \cup Waiters("rw_condwriters") = {})
=============================================================================
