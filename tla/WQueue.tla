------------------------------- MODULE WQueue -------------------------------
(***************************************************************************)
(* The NuttX-style work queue of gpm/modules/wqueue: work_queue and        *)
(* work_cancel on a doubly linked list (libs/libc/queue), and the thread   *)
(* of work_thread.c that runs what is due and sleeps in between.           *)
(*                                                                         *)
(* What runs with the queue's lock held is one action.  Time is counted in *)
(* microseconds, and delays in ticks; it passes while the thread sleeps or *)
(* runs a worker, so the bounds below leave out the time it waits for the  *)
(* processor.  The signal that work_queue sends to wake the thread is      *)
(* lost: pthread_kill does nothing on FreeRTOS.                            *)
(*                                                                         *)
(* The module has no Next of its own: what workers do, and who queues and  *)
(* cancels, is the client's (see Autosave).                                *)
(***************************************************************************)
EXTENDS Integers, FiniteSets, FiniteSetsExt

CONSTANTS
  Works,
  Delays,       \* delays in ticks
  USEC_PER_TICK,
  WORKPERIOD,   \* CONFIG_SCHED_WORKPERIOD, in microseconds
  ClockRange,   \* 2^32, the range of clock_systimer
  MaxRun,       \* bound on the microseconds a worker runs
  NULL

ASSUME WQueueConstants ==
  /\ IsFiniteSet(Works)
  /\ NULL \notin Works
  /\ Delays \cup {MaxRun} \subseteq Nat
  /\ {USEC_PER_TICK, WORKPERIOD, ClockRange} \subseteq Nat \ {0}

VARIABLES
  q,              \* the dq_queue_s and the links of its entries
  worker,         \* the works whose worker is not NULL
  delay, qtime,   \* of a work
  clock,          \* clock_systimer
  age,            \* history: microseconds since a work was queued
  tpc,            \* where the thread is
  work,           \* the work whose worker it runs
  ran,            \* and for how long
  next            \* next while it processes work; how long it will still sleep

workVars == <<worker, delay, qtime, age>>
threadVars == <<tpc, work, ran, next>>
queueVars == <<q, workVars, clock, threadVars>>

QueueInit ==
  /\ q = [head |-> NULL, tail |-> NULL,
          flink |-> [w \in Works |-> NULL], blink |-> [w \in Works |-> NULL]]
  /\ worker = {}
  /\ delay = [w \in Works |-> 0]
  /\ qtime = [w \in Works |-> 0]
  /\ clock = 0
  /\ age = [w \in Works |-> 0]
  /\ tpc = "process"
  /\ work = NULL
  /\ ran = 0
  /\ next = WORKPERIOD

-----------------------------------------------------------------------------
(* The list.                                                               *)

(* An entry that keeps the link it had to the one before it. *)
dq_addlast_NoBlink(w, l) ==
  LET flink == [l.flink EXCEPT ![w] = NULL]
  IN IF l.head = NULL
     THEN [l EXCEPT !.head = w, !.tail = w, !.flink = flink]
     ELSE [l EXCEPT !.tail = w, !.flink = [flink EXCEPT ![l.tail] = w]]

dq_addlast(w, l) ==
  LET flink == [l.flink EXCEPT ![w] = NULL]
      blink == [l.blink EXCEPT ![w] = l.tail]
  IN IF l.head = NULL
     THEN [head |-> w, tail |-> w, flink |-> flink, blink |-> blink]
     ELSE [head |-> l.head, tail |-> w, blink |-> blink,
           flink |-> [flink EXCEPT ![l.tail] = w]]

\* dq_rem as far as the neighbours go, for p before w and n after it.
Unlink(p, n, l) ==
  [head |-> IF p = NULL THEN n ELSE l.head,
   tail |-> IF n = NULL THEN p ELSE l.tail,
   flink |-> IF p = NULL THEN l.flink ELSE [l.flink EXCEPT ![p] = n],
   blink |-> IF n = NULL THEN l.blink ELSE [l.blink EXCEPT ![n] = p]]

dq_rem(w, l) ==
  LET u == Unlink(l.blink[w], l.flink[w], l)
  IN [u EXCEPT !.flink[w] = NULL, !.blink[w] = NULL]

\* The k-th entry that the thread meets on its way from the head.
Entry == LET at[k \in 0..Cardinality(Works)] ==
               IF k = 0 THEN q.head
               ELSE IF at[k - 1] = NULL THEN NULL ELSE q.flink[at[k - 1]]
         IN at

-----------------------------------------------------------------------------
(* Callers.  work_queue fills in the work before it takes the lock.        *)

\* A work that leaves the queue; the fields are not read again until they are
\* filled in, and are forgotten here to keep states few.
Leaves(w) ==
  /\ worker' = worker \ {w}
  /\ delay' = [delay EXCEPT ![w] = 0]
  /\ qtime' = [qtime EXCEPT ![w] = 0]
  /\ age' = [age EXCEPT ![w] = 0]

Fill(w, d) ==
  /\ worker' = worker \cup {w}
  /\ delay' = [delay EXCEPT ![w] = d]
  /\ UNCHANGED <<q, qtime, age, clock, threadVars>>

(* A work that keeps the time it was queued at before. *)
work_queue_OldTime(w) ==
  /\ q' = dq_addlast(w, q)
  /\ age' = [age EXCEPT ![w] = 0]
  /\ UNCHANGED <<worker, delay, qtime, clock>>

work_queue(w) ==
  /\ q' = dq_addlast(w, q)
  /\ qtime' = [qtime EXCEPT ![w] = clock]
  /\ age' = [age EXCEPT ![w] = 0]
  /\ UNCHANGED <<worker, delay, clock>>

work_cancel(w) ==
  /\ q' = IF w \in worker THEN dq_rem(w, q) ELSE q
  /\ Leaves(w)
  /\ UNCHANGED <<clock, threadVars>>

-----------------------------------------------------------------------------
(* The thread.                                                             *)

Far == ClockRange

\* USEC2TICK(clock_systimer() - qtime), rounded to the nearest tick.  qtime has
\* 64 bits: when the clock has wrapped since, the difference is enormous, and
\* wraps itself in the rounding when it is half a tick from 2^64.
Elapsed(w) ==
  LET sum == clock - qtime[w] + USEC_PER_TICK \div 2
  IN IF sum < 0 THEN Far ELSE sum \div USEC_PER_TICK

Ready(w) == Elapsed(w) >= delay[w]

Remaining(w) == USEC_PER_TICK * (delay[w] - Elapsed(w))

(* A sleep that does not look at the works that are not ready. *)
Soonest_Period(S) == next

\* The sleep that is left when the thread has passed the works of S.
Soonest(S) == Min({next} \cup {Remaining(w) : w \in S})

\* The entries before the k-th that are not ready.
Passed(k) == {Entry[j] : j \in 0..(k - 1)}

Due(k) ==
  /\ Entry[k] # NULL
  /\ Ready(Entry[k])
  /\ \A j \in 0..(k - 1) : ~Ready(Entry[j])

\* work_process takes the first work that is due out of the list,
Process(k) ==
  LET w == Entry[k]
  IN /\ tpc = "process"
     /\ Due(k)
     /\ q' = dq_rem(w, q)
     /\ Leaves(w)
     /\ work' = w
     /\ tpc' = "run"
     /\ next' = Soonest(Passed(k))
     /\ UNCHANGED <<clock, ran>>

\* the worker returns,
Return == tpc' = "process" /\ work' = NULL /\ ran' = 0 /\ UNCHANGED next

\* and with none due the thread sleeps.
Sleep ==
  /\ tpc = "process"
  /\ \E k \in DOMAIN Entry :
       /\ Entry[k] = NULL
       /\ \A j \in 0..(k - 1) : Entry[j] # NULL /\ ~Ready(Entry[j])
       /\ next' = Soonest(Passed(k))
  /\ tpc' = "sleep"
  /\ UNCHANGED <<q, workVars, clock, work, ran>>

Wake ==
  /\ tpc = "sleep"
  /\ next = 0
  /\ tpc' = "process"
  /\ next' = WORKPERIOD
  /\ UNCHANGED <<q, workVars, clock, work, ran>>

\* A microsecond passes; age is not counted beyond Far.
Tick ==
  /\ \/ /\ tpc = "run" /\ ran < MaxRun
        /\ ran' = ran + 1
        /\ UNCHANGED next
     \/ /\ tpc = "sleep" /\ next > 0
        /\ next' = next - 1
        /\ UNCHANGED ran
  /\ clock' = (clock + 1) % ClockRange
  /\ age' = [w \in Works |-> IF w \in worker THEN Min({age[w] + 1, Far}) ELSE 0]
  /\ UNCHANGED <<q, worker, delay, qtime, tpc, work>>
=============================================================================
