------------------------------ MODULE WorkQueue ------------------------------
(***************************************************************************)
(* Work queues and work items: gpm/modules/workqueue/workqueue.c and       *)
(* workitem.c.                                                             *)
(*                                                                         *)
(* A work queue is a thread (its worker) with a FIFO of pending items, a   *)
(* list of attached items and a semaphore the worker sleeps on.  The       *)
(* struct lives on the worker's stack: when the worker returns, the queue  *)
(* is gone.  An element of Queues is one such thread, created at most      *)
(* once.  Threads and the entries of work items call the workitem_*        *)
(* functions; interrupt handlers call workitem_schedule_now and are atomic *)
(* for everybody else.                                                     *)
(*                                                                         *)
(* work_lock is a critical section: what happens between work_lock and     *)
(* work_unlock is one step.  The exception is workqueue_detach, which      *)
(* tests and posts the semaphore while it holds the lock and there races   *)
(* with posts made without it, so there the lock is part of the state.     *)
(* This is so on the hosted build and on RT-Thread.  On FreeRTOS, which no *)
(* application here is built for, the section is a raised BASEPRI, which   *)
(* the mutexes of the list of attached items lower again on their way.     *)
(* The semaphore is a POSIX counting semaphore, as on the hosted build.    *)
(*                                                                         *)
(* The FIFO is the sequence that module IntrusiveQueue shows the pointers  *)
(* to spell.  A call that would break the premises of that module (a node  *)
(* in two queues, a queued node reinitialised) or use a destroyed queue    *)
(* has no defined outcome: its caller stops in "fault".                    *)
(***************************************************************************)
EXTENDS FifoOps, FiniteSets

CONSTANTS
  Items,     \* struct __workitem
  Threads,   \* application threads
  Queues,    \* struct __workqueue, each standing for its worker too
  NULL,      \* the null pointer
  Overlap    \* may init/deinit of an item overlap a schedule/clear of it?

ASSUME DistinctNames ==
  /\ NULL \notin Items \cup Threads \cup Queues
  /\ Threads \cap Queues = {}
  /\ Overlap \in BOOLEAN

Procs == Threads \cup Queues

VARIABLES
  \* the fields of every queue
  q,             \* _q
  workItems,     \* _work_items, the attached items
  processLock,   \* _process_lock, the count of the semaphore
  shouldExit,    \* _should_exit
  lock,          \* who holds work_lock across steps, or NULL
  workerAt,      \* where the worker is in workqueue_runner / workqueue_run
  work,          \* "work", the item the worker runs, or NULL
  \* the field of every item
  wq,            \* _wq
  \* the call every process is in
  pc,            \* where it is
  item,          \* the item it is about
  queue,         \* the queue pointer it has read
  reinit         \* is a deinit the first part of workitem_init?

queueVars == <<q, workItems, processLock, shouldExit, lock>>
workerVars == <<workerAt, work>>
callVars == <<pc, item, queue, reinit>>
vars == <<queueVars, workerVars, wq, callVars>>

-----------------------------------------------------------------------------
ScheduleSteps == {"add", "signal", "post", "clear"}
DeinitSteps == {"remove", "detach", "detach_signal", "detach_post"}
InitSteps == {"nodes", "find", "attach", "publish"}
SignalSteps == {"signal", "post", "detach_signal", "detach_post"}
PCs == {"idle", "fault"} \cup ScheduleSteps \cup DeinitSteps \cup InitSteps

WorkerSteps ==
  {"absent", "check", "wait", "pop", "run", "unlist", "deinit", "gone"}

\* The queue is in the manager's list and find_workqueue_by_name can return it.
Listed(w) == workerAt[w] \in {"check", "wait", "pop", "run", "unlist"}

\* The struct exists: its worker has not returned.
Alive(w) == Listed(w) \/ workerAt[w] = "deinit"

Queued(i) == \E w \in Queues : Has(q[w], i)

ScheduleBusy(i) == \E p \in Procs : item[p] = i /\ pc[p] \in ScheduleSteps
LifecycleBusy(i) ==
  \E p \in Procs : item[p] = i /\ pc[p] \in DeinitSteps \cup InitSteps

\* Two threads never run the lifecycle functions of one item at a time.
MayChange(i) == ~LifecycleBusy(i) /\ (Overlap \/ ~ScheduleBusy(i))
MaySchedule(i) == Overlap \/ ~LifecycleBusy(i)

\* Threads call for any item, the entry of an item for that item.
CanCall(p, i) == pc[p] = "idle" /\ (p \in Queues => work[p] = i)

Goto(p, l) == pc' = [pc EXCEPT ![p] = l]

Call(p, l, i, w) ==
  /\ Goto(p, l)
  /\ item' = [item EXCEPT ![p] = i]
  /\ queue' = [queue EXCEPT ![p] = w]

\* The call returns, or its process stops; nothing of it is used again.
Leave(p, l) ==
  /\ Call(p, l, NULL, NULL)
  /\ reinit' = [reinit EXCEPT ![p] = FALSE]

Fault(p) ==
  /\ Leave(p, "fault")
  /\ UNCHANGED <<queueVars, workerVars, wq>>

Init ==
  /\ q = [w \in Queues |-> <<>>]
  /\ workItems = [w \in Queues |-> {}]
  /\ processLock = [w \in Queues |-> 0]
  /\ shouldExit = [w \in Queues |-> FALSE]
  /\ lock = [w \in Queues |-> NULL]
  /\ workerAt = [w \in Queues |-> "absent"]
  /\ work = [w \in Queues |-> NULL]
  /\ wq = [i \in Items |-> NULL]
  /\ pc = [p \in Procs |-> "idle"]
  /\ item = [p \in Procs |-> NULL]
  /\ queue = [p \in Procs |-> NULL]
  /\ reinit = [p \in Procs |-> FALSE]

-----------------------------------------------------------------------------
(* workitem_schedule_now, workitem_schedule_clear and, under them,         *)
(* workqueue_add, signal_worker_thread and workqueue_remove.               *)

workitem_schedule_now(p, i) ==
  /\ CanCall(p, i)
  /\ MaySchedule(i)
  /\ wq[i] # NULL
  /\ Call(p, "add", i, wq[i])
  /\ UNCHANGED <<queueVars, workerVars, wq, reinit>>

workitem_schedule_clear(p, i) ==
  /\ CanCall(p, i)
  /\ MaySchedule(i)
  /\ wq[i] # NULL
  /\ Call(p, "clear", i, wq[i])
  /\ UNCHANGED <<queueVars, workerVars, wq, reinit>>

\* Both functions read item->_wq twice, to test it and to pass it on.  The
\* second read may be a load of its own, or the compiler reuses the first.
SecondRead(p) == {queue[p], wq[item[p]]}

Elsewhere(i, w) == \E v \in Queues \ {w} : Has(q[v], i)

Usable(p, w) ==
  /\ w # NULL
  /\ Alive(w)
  /\ pc[p] = "add" => ~Elsewhere(item[p], w)

Push(s, i) == IF Has(s, i) THEN s ELSE Append(s, i)

(* A workqueue_add that forgets to signal the worker. *)
workqueue_add_NoSignal(p) ==
  /\ pc[p] = "add"
  /\ \E w \in SecondRead(p) :
       /\ Usable(p, w)
       /\ lock[w] = NULL
       /\ q' = [q EXCEPT ![w] = Push(@, item[p])]
  /\ Leave(p, "idle")
  /\ UNCHANGED <<workItems, processLock, shouldExit, lock, workerVars, wq>>

workqueue_add(p) ==
  /\ pc[p] = "add"
  /\ \E w \in SecondRead(p) :
       /\ Usable(p, w)
       /\ lock[w] = NULL
       /\ q' = [q EXCEPT ![w] = Push(@, item[p])]
       /\ Call(p, "signal", item[p], w)
  /\ UNCHANGED <<workItems, processLock, shouldExit, lock, workerVars, wq,
                 reinit>>

workqueue_remove(p) ==
  /\ pc[p] = "clear"
  /\ \E w \in SecondRead(p) :
       /\ Usable(p, w)
       /\ lock[w] = NULL
       /\ q' = [q EXCEPT ![w] = Drop(@, item[p])]
  /\ Leave(p, "idle")
  /\ UNCHANGED <<workItems, processLock, shouldExit, lock, workerVars, wq>>

UseBadPointer(p) ==
  /\ pc[p] \in {"add", "clear"}
  /\ \E w \in SecondRead(p) : ~Usable(p, w)
  /\ Fault(p)

(* A signal_worker_thread that posts whatever the count is. *)
SignalTest_NoTest(p) ==
  /\ pc[p] = "signal"
  /\ Alive(queue[p])
  /\ Goto(p, "post")
  /\ UNCHANGED <<queueVars, workerVars, wq, item, queue, reinit>>

\* signal_worker_thread after workqueue_add, outside the lock: the test of
\* the semaphore and the post are two steps.
SignalTest(p) ==
  /\ pc[p] = "signal"
  /\ Alive(queue[p])
  /\ IF processLock[queue[p]] <= 0
     THEN Goto(p, "post") /\ UNCHANGED <<item, queue, reinit>>
     ELSE Leave(p, "idle")
  /\ UNCHANGED <<queueVars, workerVars, wq>>

SignalPost(p) ==
  /\ pc[p] = "post"
  /\ Alive(queue[p])
  /\ processLock' = [processLock EXCEPT ![queue[p]] = @ + 1]
  /\ Leave(p, "idle")
  /\ UNCHANGED <<q, workItems, shouldExit, lock, workerVars, wq>>

\* workitem_schedule_now called by an interrupt handler, for instance by the
\* trampoline of a scheduled work item.
InterruptSchedules(i) ==
  /\ wq[i] # NULL
  /\ lock[wq[i]] = NULL
  /\ ~Elsewhere(i, wq[i])
  /\ q' = [q EXCEPT ![wq[i]] = Push(@, i)]
  /\ processLock' = [processLock EXCEPT ![wq[i]] = IF @ <= 0 THEN @ + 1 ELSE @]
  /\ UNCHANGED <<workItems, shouldExit, lock, workerVars, wq, callVars>>

workqueue_clear(w) ==
  /\ \E i \in Items : wq[i] = w
  /\ lock[w] = NULL
  /\ q' = [q EXCEPT ![w] = <<>>]
  /\ UNCHANGED <<workItems, processLock, shouldExit, lock, workerVars, wq,
                 callVars>>

-----------------------------------------------------------------------------
(* workitem_deinit: forget the queue, then remove, then detach.            *)

workitem_deinit(p, i) ==
  /\ CanCall(p, i)
  /\ MayChange(i)
  /\ wq[i] # NULL
  /\ wq' = [wq EXCEPT ![i] = NULL]
  /\ Call(p, "remove", i, wq[i])
  /\ UNCHANGED <<queueVars, workerVars, reinit>>

(* A workitem_deinit that leaves queued work in the queue. *)
DeinitRemove_KeepsWork(p) ==
  /\ pc[p] = "remove"
  /\ Alive(queue[p])
  /\ lock[queue[p]] = NULL
  /\ Goto(p, "detach")
  /\ UNCHANGED <<queueVars, workerVars, wq, item, queue, reinit>>

DeinitRemove(p) ==
  /\ pc[p] = "remove"
  /\ Alive(queue[p])
  /\ lock[queue[p]] = NULL
  /\ q' = [q EXCEPT ![queue[p]] = Drop(@, item[p])]
  /\ Goto(p, "detach")
  /\ UNCHANGED <<workItems, processLock, shouldExit, lock, workerVars, wq,
                 item, queue, reinit>>

\* workitem_deinit returns to its caller or to workitem_init.
AfterDeinit(p) ==
  IF reinit[p]
  THEN Call(p, "nodes", item[p], NULL) /\ UNCHANGED reinit
  ELSE Leave(p, "idle")

(* A workqueue_detach that stops the queue whatever items are left. *)
workqueue_detach_AlwaysStops(p) ==
  LET w == queue[p]
  IN /\ pc[p] = "detach"
     /\ Alive(w)
     /\ lock[w] = NULL
     /\ workItems' = [workItems EXCEPT ![w] = @ \ {item[p]}]
     /\ shouldExit' = [shouldExit EXCEPT ![w] = TRUE]
     /\ lock' = [lock EXCEPT ![w] = p]
     /\ Goto(p, "detach_signal")
     /\ UNCHANGED <<q, processLock, workerVars, wq, item, queue, reinit>>

(* A workqueue_detach that requests the stop without waking the worker. *)
workqueue_detach_NoSignal(p) ==
  LET w == queue[p]
      rest == workItems[w] \ {item[p]}
  IN /\ pc[p] = "detach"
     /\ Alive(w)
     /\ lock[w] = NULL
     /\ workItems' = [workItems EXCEPT ![w] = rest]
     /\ shouldExit' = [shouldExit EXCEPT ![w] = @ \/ rest = {}]
     /\ AfterDeinit(p)
     /\ UNCHANGED <<q, processLock, lock, workerVars, wq>>

\* workqueue_detach up to workqueue_request_stop.
workqueue_detach(p) ==
  LET w == queue[p]
      rest == workItems[w] \ {item[p]}
  IN /\ pc[p] = "detach"
     /\ Alive(w)
     /\ lock[w] = NULL
     /\ workItems' = [workItems EXCEPT ![w] = rest]
     /\ IF rest = {}
        THEN /\ shouldExit' = [shouldExit EXCEPT ![w] = TRUE]
             /\ lock' = [lock EXCEPT ![w] = p]
             /\ Goto(p, "detach_signal")
             /\ UNCHANGED <<item, queue, reinit>>
        ELSE AfterDeinit(p) /\ UNCHANGED <<shouldExit, lock>>
     /\ UNCHANGED <<q, processLock, workerVars, wq>>

\* signal_worker_thread called by workqueue_detach, inside the lock.
DetachTest(p) ==
  /\ pc[p] = "detach_signal"
  /\ Alive(queue[p])
  /\ IF processLock[queue[p]] <= 0
     THEN Goto(p, "detach_post") /\ UNCHANGED <<lock, item, queue, reinit>>
     ELSE AfterDeinit(p) /\ lock' = [lock EXCEPT ![queue[p]] = NULL]
  /\ UNCHANGED <<q, workItems, processLock, shouldExit, workerVars, wq>>

DetachPost(p) ==
  /\ pc[p] = "detach_post"
  /\ Alive(queue[p])
  /\ processLock' = [processLock EXCEPT ![queue[p]] = @ + 1]
  /\ lock' = [lock EXCEPT ![queue[p]] = NULL]
  /\ AfterDeinit(p)
  /\ UNCHANGED <<q, workItems, shouldExit, workerVars, wq>>

-----------------------------------------------------------------------------
(* workitem_init (and workitem_change_queue, which is workitem_init under  *)
(* the item's old name) and workitem_init_method2.                         *)

workitem_init(p, i) ==
  /\ CanCall(p, i)
  /\ MayChange(i)
  /\ wq' = [wq EXCEPT ![i] = NULL]
  /\ Call(p, IF wq[i] # NULL THEN "remove" ELSE "nodes", i, wq[i])
  /\ reinit' = [reinit EXCEPT ![p] = TRUE]
  /\ UNCHANGED <<queueVars, workerVars>>

\* intrusive_node_init of a node that is still linked cuts the queue.
InitNodes(p) ==
  /\ pc[p] = "nodes"
  /\ ~Queued(item[p])
  /\ Goto(p, "find")
  /\ UNCHANGED <<queueVars, workerVars, wq, item, queue, reinit>>

InitQueuedNode(p) ==
  /\ pc[p] = "nodes"
  /\ Queued(item[p])
  /\ Fault(p)

\* workqueue_find_or_create returns a listed queue, or NULL when no thread
\* could be created in time.  Module WorkQueueManager has its details.
FindOrCreate(p) ==
  /\ pc[p] = "find"
  /\ \/ /\ \E w \in Queues : Listed(w) /\ Call(p, "attach", item[p], w)
        /\ UNCHANGED reinit
     \/ Leave(p, "idle")
  /\ UNCHANGED <<queueVars, workerVars, wq>>

(* A workqueue_attach that does not test should_exit. *)
workqueue_attach_NoTest(p) ==
  /\ pc[p] = "attach"
  /\ Alive(queue[p])
  /\ lock[queue[p]] = NULL
  /\ workItems' = [workItems EXCEPT ![queue[p]] = @ \cup {item[p]}]
  /\ Goto(p, "publish")
  /\ UNCHANGED <<q, processLock, shouldExit, lock, workerVars, wq, item, queue,
                 reinit>>

workqueue_attach(p) ==
  LET w == queue[p]
  IN /\ pc[p] = "attach"
     /\ Alive(w)
     /\ lock[w] = NULL
     /\ IF shouldExit[w]
        THEN Leave(p, "idle") /\ UNCHANGED workItems
        ELSE /\ workItems' = [workItems EXCEPT ![w] = @ \cup {item[p]}]
             /\ Goto(p, "publish")
             /\ UNCHANGED <<item, queue, reinit>>
     /\ UNCHANGED <<q, processLock, shouldExit, lock, workerVars, wq>>

InitPublish(p) ==
  /\ pc[p] = "publish"
  /\ wq' = [wq EXCEPT ![item[p]] = queue[p]]
  /\ Leave(p, "idle")
  /\ UNCHANGED <<queueVars, workerVars>>

\* Attach i, which has no queue, to the queue of j.
workitem_init_method2(p, i, j) ==
  /\ CanCall(p, i)
  /\ MayChange(i)
  /\ wq[i] = NULL
  /\ wq[j] # NULL
  /\ Call(p, "attach", i, wq[j])
  /\ UNCHANGED <<queueVars, workerVars, wq, reinit>>

\* A step on a queue whose worker has returned.
UseDestroyed(p) ==
  /\ pc[p] \in {"signal", "post", "attach"} \cup DeinitSteps
  /\ ~Alive(queue[p])
  /\ Fault(p)

-----------------------------------------------------------------------------
(* The worker: workqueue_runner and, between init and the removal from the *)
(* manager's list, workqueue_run.                                          *)

\* The manager creates the thread for a workqueue_find_or_create, and the
\* thread initialises its queue and lists it.
WorkerStart(w) ==
  /\ workerAt[w] = "absent"
  /\ \E p \in Procs : pc[p] = "find"
  /\ workerAt' = [workerAt EXCEPT ![w] = "check"]
  /\ UNCHANGED <<queueVars, work, wq, callVars>>

\* while (!should_exit(queue))
RunCheck(w) ==
  /\ workerAt[w] = "check"
  /\ workerAt' = [workerAt EXCEPT ![w] =
                    IF shouldExit[w] THEN "unlist" ELSE "wait"]
  /\ UNCHANGED <<queueVars, work, wq, callVars>>

(* A worker that does not wait for the semaphore it decrements. *)
RunWait_NoBlock(w) ==
  /\ workerAt[w] = "wait"
  /\ processLock' = [processLock EXCEPT ![w] = @ - 1]
  /\ workerAt' = [workerAt EXCEPT ![w] = "pop"]
  /\ UNCHANGED <<q, workItems, shouldExit, lock, work, wq, callVars>>

RunWait(w) ==
  /\ workerAt[w] = "wait"
  /\ processLock[w] > 0
  /\ processLock' = [processLock EXCEPT ![w] = @ - 1]
  /\ workerAt' = [workerAt EXCEPT ![w] = "pop"]
  /\ UNCHANGED <<q, workItems, shouldExit, lock, work, wq, callVars>>

\* The test and body of the inner loop up to work_unlock.
RunPop(w) ==
  /\ workerAt[w] = "pop"
  /\ lock[w] = NULL
  /\ IF q[w] = <<>>
     THEN /\ workerAt' = [workerAt EXCEPT ![w] = "check"]
          /\ UNCHANGED <<q, work>>
     ELSE /\ workerAt' = [workerAt EXCEPT ![w] = "run"]
          /\ work' = [work EXCEPT ![w] = Head(q[w])]
          /\ q' = [q EXCEPT ![w] = Tail(q[w])]
  /\ UNCHANGED <<workItems, processLock, shouldExit, lock, wq, callVars>>

\* While workerAt is "run", the entry may make calls as process w.
EntryReturns(w) ==
  /\ workerAt[w] = "run"
  /\ pc[w] = "idle"
  /\ workerAt' = [workerAt EXCEPT ![w] = "pop"]
  /\ work' = [work EXCEPT ![w] = NULL]
  /\ UNCHANGED <<queueVars, wq, callVars>>

\* blocking_list_remove from the manager's list.
RunnerUnlist(w) ==
  /\ workerAt[w] = "unlist"
  /\ workerAt' = [workerAt EXCEPT ![w] = "deinit"]
  /\ UNCHANGED <<queueVars, work, wq, callVars>>

\* workqueue_deinit waits for the lock; then the thread returns.
workqueue_deinit(w) ==
  /\ workerAt[w] = "deinit"
  /\ lock[w] = NULL
  /\ workerAt' = [workerAt EXCEPT ![w] = "gone"]
  /\ UNCHANGED <<queueVars, work, wq, callVars>>

-----------------------------------------------------------------------------
StartCall(p) ==
  \E i \in Items :
    \/ workitem_schedule_now(p, i)
    \/ workitem_schedule_clear(p, i)
    \/ workitem_deinit(p, i)
    \/ workitem_init(p, i)
    \/ \E j \in Items : workitem_init_method2(p, i, j)

CallStep(p) ==
  \/ workqueue_add(p)
  \/ workqueue_remove(p)
  \/ UseBadPointer(p)
  \/ SignalTest(p)
  \/ SignalPost(p)
  \/ DeinitRemove(p)
  \/ workqueue_detach(p)
  \/ DetachTest(p)
  \/ DetachPost(p)
  \/ InitNodes(p)
  \/ InitQueuedNode(p)
  \/ FindOrCreate(p)
  \/ workqueue_attach(p)
  \/ InitPublish(p)
  \/ UseDestroyed(p)

Worker(w) ==
  \/ RunCheck(w)
  \/ RunWait(w)
  \/ RunPop(w)
  \/ EntryReturns(w)
  \/ RunnerUnlist(w)
  \/ workqueue_deinit(w)

Next ==
  \/ \E p \in Procs : StartCall(p) \/ CallStep(p)
  \/ \E w \in Queues : WorkerStart(w) \/ Worker(w) \/ workqueue_clear(w)
  \/ \E i \in Items : InterruptSchedules(i)

\* Threads are scheduled: a worker that can go on does, a call that was begun
\* is finished, and an entry that keeps making calls returns at last.
Fairness ==
  /\ \A w \in Queues : WF_vars(Worker(w)) /\ SF_vars(EntryReturns(w))
  /\ \A p \in Procs : WF_vars(CallStep(p))

Spec == Init /\ [][Next]_vars /\ Fairness

-----------------------------------------------------------------------------
\* The fields, positions and arguments have their types; the semaphore's count
\* in particular never goes below zero, although posts and waits race.
TypeOK ==
  /\ q \in [Queues -> Seq(Items)]
  /\ workItems \in [Queues -> SUBSET Items]
  /\ processLock \in [Queues -> Nat]
  /\ shouldExit \in [Queues -> BOOLEAN]
  /\ lock \in [Queues -> Procs \cup {NULL}]
  /\ workerAt \in [Queues -> WorkerSteps]
  /\ work \in [Queues -> Items \cup {NULL}]
  /\ wq \in [Items -> Queues \cup {NULL}]
  /\ pc \in [Procs -> PCs]
  /\ item \in [Procs -> Items \cup {NULL}]
  /\ queue \in [Procs -> Queues \cup {NULL}]
  /\ reinit \in [Procs -> BOOLEAN]

\* Someone is on the way to posting w's semaphore.
Signalled(w) ==
  \/ processLock[w] > 0
  \/ \E p \in Procs :
       /\ queue[p] = w
       /\ pc[p] \in SignalSteps

(***************************************************************************)
(* No wake-up is lost: a worker that sleeps in workqueue_run with work in  *)
(* its queue has a post to come, and so has one that sleeps although its   *)
(* queue was asked to stop.  workqueue_add signals after it has released   *)
(* the lock and skips the post if the count is positive, and the worker    *)
(* tests should_exit and sleeps without the lock.                          *)
(***************************************************************************)
NoLostWakeup ==
  \A w \in Queues :
    workerAt[w] = "wait" /\ (q[w] # <<>> \/ shouldExit[w]) => Signalled(w)

(***************************************************************************)
(* The check-then-post of signal_worker_thread lets several callers post   *)
(* for one wake-up, but the count stays below the number of callers there  *)
(* can be, so it cannot run away to SEM_VALUE_MAX.                         *)
(***************************************************************************)
PostsBounded ==
  \A w \in Queues :
    processLock[w]
      + Cardinality({p \in Procs : queue[p] = w /\
                                   pc[p] \in {"post", "detach_post"}})
      <= Cardinality(Procs) + 1

(***************************************************************************)
(* A queue that an item points to, or that a deinit or an init past its    *)
(* attach is working on, is alive, and unless that call has just detached  *)
(* its last item it has not been asked to stop.                            *)
(***************************************************************************)
InUseIsAlive ==
  /\ \A i \in Items :
       wq[i] # NULL => Alive(wq[i]) /\ ~shouldExit[wq[i]]
  /\ \A p \in Procs :
       /\ pc[p] \in DeinitSteps \cup {"publish"} => Alive(queue[p])
       /\ pc[p] \in {"remove", "detach", "publish"} => ~shouldExit[queue[p]]

(***************************************************************************)
(* "prevent additional insertions" (workitem_deinit): an item without a    *)
(* queue, whose deinit is past its removal, is in no queue: an             *)
(* application may free it.                                                *)
(***************************************************************************)
DeinitPreventsInsertions ==
  \A i \in Items :
    wq[i] = NULL /\ (\A p \in Procs : item[p] = i => pc[p] # "remove")
      => ~Queued(i)

(***************************************************************************)
(* When schedule calls do not overlap the deinit of their item, no such    *)
(* call uses a destroyed queue, although workqueue_add signals outside     *)
(* the lock.                                                               *)
(***************************************************************************)
ScheduleOnLiveQueue ==
  \A p \in Procs : pc[p] \in ScheduleSteps => wq[item[p]] = queue[p]
                                              /\ Alive(queue[p])

(***************************************************************************)
(* A scheduled item is taken by the worker, or cleared; it never stays.    *)
(***************************************************************************)
PendingIsServed ==
  \A w \in Queues, i \in Items : Has(q[w], i) ~> ~Has(q[w], i)

(***************************************************************************)
(* When the last item detaches, the worker thread leaves.                  *)
(***************************************************************************)
UnusedQueueEnds ==
  \A w \in Queues : shouldExit[w] ~> workerAt[w] = "gone"

-----------------------------------------------------------------------------
(* The parts of the inductive invariant.                                   *)

\* A process in a call has the arguments that its step uses.
CallShape ==
  \A p \in Procs :
    /\ pc[p] \in ScheduleSteps \cup DeinitSteps \cup InitSteps => item[p] \in Items
    /\ pc[p] \in ScheduleSteps \cup DeinitSteps \cup {"attach", "publish"}
         => queue[p] \in Queues

\* The lock is held across steps exactly by a detach that is signalling.
LockShape ==
  \A w \in Queues, p \in Procs :
    lock[w] = p <=> queue[p] = w /\ pc[p] \in {"detach_signal", "detach_post"}

\* One lifecycle call per item, and meanwhile the item has no queue.
LifecycleShape ==
  /\ \A p, r \in Procs :
       /\ pc[p] \in DeinitSteps \cup InitSteps
       /\ pc[r] \in DeinitSteps \cup InitSteps
       /\ item[p] = item[r]
       => p = r
  /\ \A p \in Procs :
       pc[p] \in DeinitSteps \cup InitSteps => wq[item[p]] = NULL

\* Who uses a queue is attached to it; a queue with attached items runs on.
AttachShape ==
  /\ \A i \in Items : wq[i] # NULL => i \in workItems[wq[i]]
  /\ \A p \in Procs :
       pc[p] \in {"remove", "detach", "publish"} => item[p] \in workItems[queue[p]]
  /\ \A w \in Queues :
       /\ shouldExit[w] => workItems[w] = {}
       /\ workItems[w] # {} => workerAt[w] # "absent"
       /\ workerAt[w] \in {"unlist", "deinit", "gone"} => shouldExit[w]
  /\ \A p \in Procs :
       pc[p] \in {"detach_signal", "detach_post"} => Alive(queue[p])

\* NoLostWakeup, from the moment the worker has found its queue empty.
WakeupShape ==
  \A w \in Queues :
    /\ q[w] # <<>> => workerAt[w] # "absent"
    /\ workerAt[w] \in {"check", "wait"} /\ q[w] # <<>> => Signalled(w)
    /\ workerAt[w] = "wait" /\ shouldExit[w] => Signalled(w)

WorkQueueInv ==
  /\ TypeOK
  /\ CallShape
  /\ LockShape
  /\ LifecycleShape
  /\ AttachShape
  /\ WakeupShape

\* Without overlap no item is in a schedule call and in a lifecycle call at a
\* time, and a schedule call uses the queue its item still points to.
ScheduleShape ==
  /\ \A p, r \in Procs :
       pc[p] \in ScheduleSteps /\ pc[r] \in DeinitSteps \cup InitSteps
         => item[p] # item[r]
  /\ \A p \in Procs : pc[p] \in ScheduleSteps => wq[item[p]] = queue[p]

\* What is queued belongs to an item of that queue, or to one whose removal
\* from it is due.
QueuedShape ==
  /\ \A w \in Queues : Distinct(q[w])
  /\ \A w \in Queues, i \in Items :
       Has(q[w], i) =>
         \/ wq[i] = w
         \/ \E p \in Procs : pc[p] = "remove" /\ item[p] = i /\ queue[p] = w

DisciplineInv == ScheduleShape /\ QueuedShape
=============================================================================
