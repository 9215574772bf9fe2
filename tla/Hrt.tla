--------------------------------- MODULE Hrt ---------------------------------
(***************************************************************************)
(* The high-resolution timer of gpm/sched/platform/hrt/hrt_stm32.c: a      *)
(* 16-bit free-running counter extended to a 64-bit time in software, a    *)
(* sorted list of callouts and one compare register that is set for the    *)
(* first of them.                                                          *)
(*                                                                         *)
(* Two contexts run this code: threads, and the compare interrupt, which   *)
(* preempts a thread wherever interrupts are enabled.  clock is the true   *)
(* time in microseconds; the code only sees it modulo Period.  A step      *)
(* between two changes of the interrupt mask is one action.                *)
(*                                                                         *)
(* There are two builds.  With CONFIG_HRT_PRIMASK_CONTROL a critical       *)
(* section restores the mask it found (Nested).  By default leaving it     *)
(* enables interrupts, also when the critical section was an inner one,    *)
(* as the one in hrt_absolute_time is inside hrt_call_internal.            *)
(***************************************************************************)
EXTENDS FifoOps, Integers

CONSTANTS
  Threads,
  Entries,     \* struct hrt_call
  Period,      \* HRT_COUNTER_PERIOD
  IntervalMin, \* HRT_INTERVAL_MIN
  IntervalMax, \* HRT_INTERVAL_MAX
  First,       \* the initial capture of hrt_tim_init
  Late,        \* how long the interrupt may be masked, kept waiting or run
  Delays,      \* the delays callers ask for
  Intervals,   \* the intervals of hrt_call_every
  MaxTime,     \* bound on clock
  Nested,      \* see above
  NULL

\* "The minimum deadline must be such that the time taken between reading a
\* time and writing a deadline to the timer cannot result in missing the
\* deadline", and the counter may "not wrap more than once" between two reads.
ASSUME TimerConstants ==
  /\ {Period, IntervalMin, IntervalMax, First, Late, MaxTime} \subseteq Nat
  /\ Late < IntervalMin
  /\ IntervalMin <= IntervalMax
  /\ 1 < First /\ First <= IntervalMax
  /\ IntervalMax + Late < Period
  /\ Delays \subseteq Nat
  /\ Intervals \subseteq Nat \ {0}
  /\ Nested \in BOOLEAN
  /\ NULL \notin Entries

VARIABLES
  clock,     \* the true time
  ccr,       \* rCCR_HRT
  irq,       \* the compare flag of rSR
  busy,      \* ticks since the interrupt was last free to run and not wanted
  base_time, last_count,
  callout_queue,
  deadline, period,    \* fields of every entry, 0 meaning none
  pc,        \* where a thread is
  entry,     \* its argument
  time,      \* the deadline it passes on, or the time it has read
  interval,  \* the period it passes on
  isr,       \* where the interrupt handler is
  call, now, saved     \* the locals of hrt_call_invoke

hwVars == <<clock, ccr, irq, busy>>
baseVars == <<base_time, last_count>>
listVars == <<callout_queue, deadline, period>>
threadVars == <<pc, entry, time, interval>>
isrVars == <<isr, call, now, saved>>
vars == <<hwVars, baseVars, listVars, threadVars, isrVars>>

\* After hrt_init, which has let the counter run.  The time is not 0 any more:
\* a zero deadline means that the entry is not queued.
Init ==
  /\ clock = 1
  /\ ccr = First
  /\ irq = FALSE
  /\ busy = 0
  /\ base_time = 0
  /\ last_count = 0
  /\ callout_queue = <<>>
  /\ deadline = [e \in Entries |-> 0]
  /\ period = [e \in Entries |-> 0]
  /\ pc = [p \in Threads |-> "idle"]
  /\ entry = [p \in Threads |-> NULL]
  /\ time = [p \in Threads |-> 0]
  /\ interval = [p \in Threads |-> 0]
  /\ isr = "off"
  /\ call = NULL
  /\ now = 0
  /\ saved = 0

-----------------------------------------------------------------------------
(* The counter and the list.                                               *)

Count == clock % Period

Wrapped == Count < last_count

\* What hrt_absolute_time returns, and what it stores.
AbsoluteTime == base_time + Count + (IF Wrapped THEN Period ELSE 0)

(* A read of the time that does not look for a wrap. *)
ReadTime_NoWrap ==
  /\ last_count' = Count
  /\ UNCHANGED base_time

ReadTime ==
  /\ base_time' = base_time + (IF Wrapped THEN Period ELSE 0)
  /\ last_count' = Count

\* hrt_call_enter: before the first entry that is due later.
Place(s, d, e) ==
  CHOOSE k \in 1..(Len(s) + 1) :
    /\ k <= Len(s) => d[e] < d[s[k]]
    /\ \A j \in 1..(k - 1) : ~(d[e] < d[s[j]])

(* An insertion that always makes the entry the head. *)
Insert_Unsorted(s, d, e) == <<e>> \o s

Insert(s, d, e) ==
  LET k == Place(s, d, e)
  IN SubSeq(s, 1, k - 1) \o <<e>> \o SubSeq(s, k, Len(s))

(* A compare value that is not kept within the counter's reach. *)
NextCompare_NoMax(s, d, t) ==
  IF s = <<>> THEN t + IntervalMax
  ELSE IF d[s[1]] <= t + IntervalMin THEN t + IntervalMin
  ELSE d[s[1]]

\* hrt_call_reschedule: when the next interrupt is due.
NextCompare(s, d, t) ==
  IF s = <<>> THEN t + IntervalMax
  ELSE IF d[s[1]] <= t + IntervalMin THEN t + IntervalMin
  ELSE IF d[s[1]] < t + IntervalMax THEN d[s[1]]
  ELSE t + IntervalMax

\* hrt_call_enter from the interrupt handler, with its reschedule.
Enter(s, d, e) ==
  LET s2 == Insert(s, d, e)
  IN /\ callout_queue' = s2
     /\ IF s2[1] = e
        THEN ReadTime /\ ccr' = NextCompare(s2, d, AbsoluteTime) % Period
        ELSE UNCHANGED <<baseVars, ccr>>

-----------------------------------------------------------------------------
(* Threads.                                                                *)

\* The points of a critical section where interrupts are disabled.
MaskedAt == {"read"} \cup (IF Nested THEN {"peek", "write"} ELSE {})

Masked == \E p \in Threads : pc[p] \in MaskedAt

\* A thread runs when the handler does not and when no other thread has
\* disabled the interrupts, the scheduler's included.
Runs(p, l) ==
  /\ pc[p] = l
  /\ isr = "off"
  /\ Masked => l \in MaskedAt

\* hrt_absolute_time called for its value.
hrt_absolute_time(p) ==
  /\ Runs(p, "idle")
  /\ ReadTime
  /\ UNCHANGED <<hwVars, listVars, threadVars, isrVars>>

CallInternal(p, e, t, i) ==
  /\ pc' = [pc EXCEPT ![p] = "enter"]
  /\ entry' = [entry EXCEPT ![p] = e]
  /\ time' = [time EXCEPT ![p] = t]
  /\ interval' = [interval EXCEPT ![p] = i]
  /\ UNCHANGED <<hwVars, listVars, isrVars>>

\* The deadline is computed before the critical section of hrt_call_internal.
hrt_call_every(p, e, delay, i) ==
  /\ Runs(p, "idle")
  /\ ReadTime
  /\ CallInternal(p, e, AbsoluteTime + delay, i)

hrt_call_after(p, e, delay) == hrt_call_every(p, e, delay, 0)

hrt_call_at(p, e, t) ==
  /\ Runs(p, "idle")
  /\ CallInternal(p, e, t, 0)
  /\ UNCHANGED baseVars

\* hrt_call_internal's removal of an entry that is queued.
Unqueued(e) ==
  IF deadline[e] # 0 THEN Drop(callout_queue, e) ELSE callout_queue

\* hrt_call_internal up to the reschedule in hrt_call_enter, or to its end.
hrt_call_internal(p) ==
  LET e == entry[p]
      d == [deadline EXCEPT ![e] = time[p]]
      s == Insert(Unqueued(e), d, e)
  IN /\ Runs(p, "enter")
     /\ callout_queue' = s
     /\ deadline' = d
     /\ period' = [period EXCEPT ![e] = interval[p]]
     /\ entry' = [entry EXCEPT ![p] = NULL]
     /\ interval' = [interval EXCEPT ![p] = 0]
     /\ time' = [time EXCEPT ![p] = 0]
     /\ pc' = [pc EXCEPT ![p] = IF s[1] = e THEN "read" ELSE "idle"]
     /\ UNCHANGED <<hwVars, baseVars, isrVars>>

\* hrt_call_reschedule: the time is read, in a critical section of its own,
RescheduleRead(p) ==
  /\ Runs(p, "read")
  /\ ReadTime
  /\ time' = [time EXCEPT ![p] = AbsoluteTime]
  /\ pc' = [pc EXCEPT ![p] = "peek"]
  /\ UNCHANGED <<hwVars, listVars, entry, interval, isrVars>>

\* the next deadline is determined,
ReschedulePeek(p) ==
  /\ Runs(p, "peek")
  /\ time' = [time EXCEPT ![p] = NextCompare(callout_queue, deadline, @)]
  /\ pc' = [pc EXCEPT ![p] = "write"]
  /\ UNCHANGED <<hwVars, baseVars, listVars, entry, interval, isrVars>>

RescheduleDone(p) ==
  /\ time' = [time EXCEPT ![p] = 0]
  /\ pc' = [pc EXCEPT ![p] = "idle"]
  /\ UNCHANGED <<clock, irq, busy, baseVars, listVars, entry, interval, isrVars>>

\* and written; hrt_call_internal leaves its critical section.
RescheduleWrite(p) ==
  /\ Runs(p, "write")
  /\ ccr' = time[p] % Period
  /\ RescheduleDone(p)

hrt_cancel(p, e) ==
  /\ Runs(p, "idle")
  /\ callout_queue' = Drop(callout_queue, e)
  /\ deadline' = [deadline EXCEPT ![e] = 0]
  /\ period' = [period EXCEPT ![e] = 0]
  /\ UNCHANGED <<hwVars, baseVars, threadVars, isrVars>>

-----------------------------------------------------------------------------
(* The interrupt handler.                                                  *)

hrt_tim_isr ==
  /\ isr = "off"
  /\ irq
  /\ ~Masked
  /\ irq' = FALSE
  /\ isr' = "invoke"
  /\ UNCHANGED <<clock, ccr, busy, baseVars, listVars, threadVars, call, now,
                 saved>>

\* One turn of the loop of hrt_call_invoke up to the callout.
hrt_call_invoke ==
  /\ isr = "invoke"
  /\ ReadTime
  /\ IF callout_queue = <<>> \/ deadline[Head(callout_queue)] > AbsoluteTime
     THEN /\ isr' = "reschedule"
          /\ UNCHANGED <<listVars, call, now, saved>>
     ELSE /\ isr' = "callout"
          /\ call' = Head(callout_queue)
          /\ now' = AbsoluteTime
          /\ saved' = deadline[Head(callout_queue)]
          /\ callout_queue' = Tail(callout_queue)
          /\ deadline' = [deadline EXCEPT ![Head(callout_queue)] = 0]
          /\ UNCHANGED period
  /\ UNCHANGED <<hwVars, threadVars>>

\* A callout returns without having called back,
CalloutReturns ==
  /\ isr = "callout"
  /\ isr' = "after"
  /\ UNCHANGED <<hwVars, baseVars, listVars, threadVars, call, now, saved>>

\* or has cancelled an entry, its own for instance,
CalloutCancels(e) ==
  /\ isr = "callout"
  /\ isr' = "after"
  /\ callout_queue' = Drop(callout_queue, e)
  /\ deadline' = [deadline EXCEPT ![e] = 0]
  /\ period' = [period EXCEPT ![e] = 0]
  /\ UNCHANGED <<hwVars, baseVars, threadVars, call, now, saved>>

\* or has used hrt_call_delay to put off its own next call,
hrt_call_delay(delay) ==
  /\ isr = "callout"
  /\ isr' = "after"
  /\ ReadTime
  /\ deadline' = [deadline EXCEPT ![call] = AbsoluteTime + delay]
  /\ UNCHANGED <<hwVars, callout_queue, period, threadVars, call, now, saved>>

\* or has armed an entry: its own for one call only, since a periodic one is
\* entered again by hrt_call_invoke itself.
CalloutCalls(e, t, i) ==
  LET d == [deadline EXCEPT ![e] = t]
  IN /\ isr = "callout"
     /\ e = call => i = 0
     /\ isr' = "after"
     /\ deadline' = d
     /\ period' = [period EXCEPT ![e] = i]
     /\ Enter(Unqueued(e), d, e)
     /\ UNCHANGED <<clock, irq, busy, threadVars, call, now, saved>>

\* The end of the loop's body: a periodic entry is entered again.
Reenter ==
  LET d == [deadline EXCEPT ![call] = IF @ <= now THEN saved + period[call] ELSE @]
  IN /\ isr = "after"
     /\ IF period[call] # 0
        THEN deadline' = d /\ Enter(callout_queue, d, call)
        ELSE UNCHANGED <<callout_queue, deadline, baseVars, ccr>>
     /\ isr' = "invoke"
     /\ call' = NULL
     /\ now' = 0
     /\ saved' = 0
     /\ UNCHANGED <<clock, irq, busy, period, threadVars>>

\* hrt_call_reschedule at the end of the handler.
hrt_call_reschedule ==
  /\ isr = "reschedule"
  /\ ReadTime
  /\ ccr' = NextCompare(callout_queue, deadline, AbsoluteTime) % Period
  /\ isr' = "off"
  /\ UNCHANGED <<clock, irq, busy, listVars, threadVars, call, now, saved>>

-----------------------------------------------------------------------------
\* The interrupt is wanted, running or masked.
Occupied == irq \/ Masked \/ isr # "off"

\* A microsecond passes and the compare unit does its work.
Tick ==
  /\ clock < MaxTime
  /\ busy < Late
  /\ clock' = clock + 1
  /\ irq' = (irq \/ (clock + 1) % Period = ccr)
  /\ busy' = IF Occupied THEN busy + 1 ELSE 0
  /\ UNCHANGED <<ccr, baseVars, listVars, threadVars, isrVars>>

\* The interrupt has been served, and what it may take of time starts again.
Settle ==
  /\ ~Occupied
  /\ busy > 0
  /\ busy' = 0
  /\ UNCHANGED <<clock, ccr, irq, baseVars, listVars, threadVars, isrVars>>

Thread(p) ==
  \/ hrt_absolute_time(p)
  \/ \E e \in Entries, delay \in Delays :
       \/ hrt_call_after(p, e, delay)
       \/ hrt_call_at(p, e, clock + delay)
       \/ \E i \in Intervals : hrt_call_every(p, e, delay, i)
  \/ hrt_call_internal(p)
  \/ RescheduleRead(p)
  \/ ReschedulePeek(p)
  \/ RescheduleWrite(p)
  \/ \E e \in Entries : hrt_cancel(p, e)

Isr ==
  \/ hrt_tim_isr
  \/ hrt_call_invoke
  \/ CalloutReturns
  \/ \E e \in Entries : CalloutCancels(e)
  \/ \E delay \in Delays : hrt_call_delay(delay)
  \/ \E e \in Entries, delay \in Delays, i \in Intervals \cup {0} :
       CalloutCalls(e, clock + delay, i)
  \/ Reenter
  \/ hrt_call_reschedule

Next == Tick \/ Settle \/ (\E p \in Threads : Thread(p)) \/ Isr

Spec == Init /\ [][Next]_vars

-----------------------------------------------------------------------------
\* The variables have their types: the compare register holds 16 bits, and no
\* deadline or time is negative.
TypeOK ==
  /\ {clock, busy, base_time, last_count, now, saved} \subseteq Nat
  /\ ccr \in 0..(Period - 1)
  /\ irq \in BOOLEAN
  /\ callout_queue \in Seq(Entries)
  /\ deadline \in [Entries -> Nat]
  /\ period \in [Entries -> Nat]
  /\ pc \in [Threads -> {"idle", "enter", "read", "peek", "write"}]
  /\ entry \in [Threads -> Entries \cup {NULL}]
  /\ time \in [Threads -> Nat]
  /\ interval \in [Threads -> Nat]
  /\ isr \in {"off", "invoke", "callout", "after", "reschedule"}
  /\ call \in Entries \cup {NULL}

(***************************************************************************)
(* "Get absolute time (does not wrap)": whenever hrt_absolute_time is      *)
(* called, it returns the true time.  It notices one wrap of the counter,  *)
(* so this needs the compare interrupt to come at least once in a period,  *)
(* whatever callouts are entered, delayed and cancelled in between.        *)
(***************************************************************************)
TimeIsKept == AbsoluteTime = clock

(***************************************************************************)
(* The callout queue is sorted by deadline, contains every entry at most   *)
(* once, and has a deadline for each: hrt_call_invoke only looks at its    *)
(* head and hrt_call_internal trusts a zero deadline to mean "not queued". *)
(***************************************************************************)
QueueIsSorted ==
  /\ Distinct(callout_queue)
  /\ \A k \in 1..Len(callout_queue) : deadline[callout_queue[k]] # 0
  /\ \A j, k \in 1..Len(callout_queue) :
       j < k => deadline[callout_queue[j]] <= deadline[callout_queue[k]]

\* When the compare register matches next.
NextMatch == clock + 1 + ((ccr - clock - 1) % Period)

(***************************************************************************)
(* When nobody is at work, the next compare interrupt comes in time for    *)
(* the first callout, or "ASAP" if that is due already, and within         *)
(* HRT_INTERVAL_MAX in any case.                                           *)
(***************************************************************************)
ArmedForHead ==
  ~Occupied /\ (\A p \in Threads : pc[p] \in {"idle", "enter"}) =>
    /\ NextMatch <= clock + IntervalMax
    /\ callout_queue # <<>> =>
         \/ NextMatch <= deadline[Head(callout_queue)]
         \/ NextMatch <= clock + IntervalMin
=============================================================================
