# Verification of gpmx

gpmx is a framework for microcontroller applications: a POSIX-like libc layer
over FreeRTOS or RT-Thread Nano, a NuttX-style file system and driver layer,
and PX4-style modules on top of them (work queues, uORB topics, a
high-resolution timer). This directory holds TLA+ models of the parts with
concurrency of their own, the TLC configurations that check them on small
instances, and TLAPS proofs of their safety properties for every instance.

Paths below are relative to `src/`.

## 1. Inventory

### Modelled

| component | state | operations | interacts with |
|---|---|---|---|
| Intrusive queue (`gpm/modules/container/intrusive_queue.c`) | `head`, `tail`, one `next` per node | push, pop, remove | the FIFO of every work queue |
| Work queue and work item (`gpm/modules/workqueue/workqueue.c`, `workitem.c`) | FIFO, attached items, `should_exit`, a semaphore; `_wq` of each item | init, deinit, change_queue, init_method2, schedule_now, schedule_clear, attach, detach, clear, the worker's loop | threads, interrupt handlers, entries that call back |
| Work-queue manager (`workqueue_manager.c`, `container/blocking_queue.h`, `blocking_list.c`) | static pointers to a list and a one-slot queue, `should_exit` | start, stop, find_or_create, the manager thread, the runner threads | clients push configurations, runners list themselves, clients poll the list |
| High-resolution timer (`gpm/sched/platform/hrt/hrt_stm32.c`) | 64-bit base, last counter value, sorted callout list, compare register | absolute_time, call_at, call_after, call_every, call_delay, cancel, the interrupt handler | threads and the compare interrupt share everything; callouts call back |
| uORB topic (`gpm/modules/uorb/uorb_device_node.c`, `Publication.hpp`, `Subscription*.{hpp,cpp}`) | ring buffer, generation counter, advertised flag, callbacks; a generation per subscription | advertise, publish, unadvertise, subscribe, update, copy, register, unregister, updatedBlocking | publications schedule work items and signal blocked readers |
| uORB master, manager and file interface (`uorb_device_master.c`, `uorb_manager.c`, `uorb_gnode.c`) | node map, node list, the master's lock; flags and private data of a node | advertise, advertise_multi, subscribe_multi, unsubscribe, unadvertise, open, close | clients of one topic race for its instances |
| pthread objects (`gpm/libs/libc/pthread/pthread_cond.c`, `pthread_rwlock.c`, `pthread_barrier.c`) | table of waiting tasks, task notifications; reference and waiter counts; the barrier's count | cond wait, timedwait, signal, broadcast; rdlock, wrlock, try and timed forms, unlock, destroy; barrier wait | the lock and the barrier are built on the condition variable |
| NuttX-style work queue (`gpm/modules/wqueue/work_*.c`, `libs/libc/queue/dq_*.c`) | doubly linked list, `worker`, `delay` and `qtime` of a work | work_queue, work_cancel, the thread's loop and sleep | workers run on its thread and queue themselves again |
| Parameter autosave (`apps/libs/pxlibs/libs/parameters/parameters.cpp`) | `autosave_scheduled`, `autosave_disabled`, the work | param_autosave, param_control_autosave, autosave_worker | queues and cancels its work on the low-priority queue |

### Hard behaviours

- Check and use without the lock: `signal_worker_thread` (getvalue, then post),
  `workitem_schedule_now` (test of `_wq`, then use), `should_exit` before the
  wait, `updated()` before the wait of `updatedBlocking`, `_data == NULL`
  before the node's lock.
- Lifetime: a work queue lives on its worker's stack, and its last item's
  detach ends it; the manager's list and create queue are heap blocks behind
  pointers that are never reset.
- Interrupts: the timer's handler preempts a thread inside what looks like its
  critical section; handlers schedule work items and publish.
- Time: one wrap of the 16-bit counter is noticed, two are not; the compare
  register holds only the low half of a deadline.
- Polling with a time limit in `workqueue_find_or_create` and a fixed sleep in
  `workqueue_manager_stop`.
- Overtaking: a slow reader and a ring that goes on, counters modulo 2^32.
- Time-outs that race a signal: a waiter that has timed out is still in the
  table, takes the signal meant for another, and carries the notification into
  its next wait.
- Flags and results that are not looked at or not set: the result of the wait
  in `pthread_barrier_wait`, `errno` in `manager_node_open`, the signal of
  `work_queue`.
- State that belongs to the object but is used per caller: `_oflags` and
  `_priv` of a topic's node, `worker` as the mark of a queued work.

`PROJECT.json` lists them one by one under `hazards`, each at its line.

### What makes each component correct

- Intrusive queue: the pointers always spell the nodes pushed and not taken;
  remove's search ends.
- Work queue: no wake-up is lost; a queue in use is alive; after a deinit the
  item is in no queue; queued items are served; unused queues end.
- Manager: no request is lost or doubled; one queue per name; blocks are used
  only while they exist; find_or_create and stop return.
- Timer: the time never jumps; the list is sorted and has no duplicates; the
  next interrupt comes in time for the first callout.
- uORB topic: the ring keeps the newest messages; a reader gets them in order
  and skips only what is gone; a callback subscription never misses its turn.
- uORB master: no two multi-instance publishers share an instance; what is
  advertised is seen; nodes count their subscribers; the list, the node map
  and the lock agree after every failure.
- pthread objects: the lock is a readers-writer lock that prefers writers; no
  sleeper is forgotten; a lock in use is not destroyed; the barrier holds.
- Work queue and autosave: the list is sound; nothing runs early or is slept
  past by more than a period; every change is followed by a save that begins
  after it, and only a failed save leaves it unsaved.

### Not modelled

`PROJECT.json` has every part under `components`, with the reason. In short:
kernels, network, USB, vendor libraries and file systems are third-party code;
bus drivers are register input and output; shell, logging, formatting, module
loading are data handling. Parts with logic of their own that are left for
later are named at the end of section 8.

## 2. Modules

| module | what it is |
|---|---|
| `FifoOps` | sequences used as FIFOs: `Has`, `Drop`, `Distinct` |
| `IntrusiveQueue`, `IntrusiveQueueProofs` | the queue at pointer level |
| `WorkQueue`, `MCWorkQueue`, `WorkQueueProofs` | work queues, work items, workers |
| `WorkQueueManager`, `MCWorkQueueManager`, `WorkQueueManagerProofs` | the manager, its one-slot queue, its runners |
| `Hrt`, `MCHrt`, `HrtProofs` | the timer, both builds of its critical section |
| `UorbNode`, `MCUorbNode`, `UorbNodeProofs` | one topic, its publishers and subscribers |
| `UorbMaster`, `MCUorbMaster`, `UorbMasterProofs` | the instances of a topic: master, manager, file interface |
| `ReadersWriterLock` | abstract: what a lock that prefers writers promises |
| `PthreadSync`, `MCPthreadSync`, `PthreadSyncProofs` | condition variable, read-write lock and barrier on FreeRTOS |
| `WQueue` | list, calls and thread of the NuttX-style work queue |
| `Autosave`, `MCAutosave`, `AutosaveProofs` | the parameters' autosave on `WQueue`, which it extends |

The `MC` modules hold the sets of model values and the symmetry. A definition
whose name ends in `_Something` after the name of another (for example
`SignalTest_NoTest`) is that definition with a plausible mistake; nothing uses
it except the mutation runs, which show that a property notices the mistake.

Granularity. A region under `work_lock`, `ATOMIC_ENTER` or a node's lock is one
action. What is read before such a region and used in it is a step of its own.
Three places need more: the loop of `intrusive_queue_remove` is one step per
iteration; `workqueue_detach` keeps the lock over several steps, because posts
made without it race with its own; and in `Hrt` the inner critical section of
`hrt_absolute_time` ends the outer one in the default build.

### IntrusiveQueue

`head`, `tail` and `next` are the fields of the struct, `victim` and `cursor`
the argument and the loop variable of remove. `fifo` is a history variable no
guard reads. Callers hold the work queue's lock, so calls do not overlap.

### WorkQueue

`q`, `workItems`, `processLock`, `shouldExit` are the fields of a queue, `wq`
that of an item. An element of `Queues` is a queue and its worker thread.
`workerAt` is the worker's position in `workqueue_runner` and `workqueue_run`,
`pc` that of a process in a `workitem_*` call; while a worker runs an entry, it
is a process like any other and the entry may call for its own item. The two
loads of `_wq` in `workitem_schedule_now` may give the same or two values
(`SecondRead`). A step on a destroyed queue, or one that would link a node
into two queues, has no defined outcome: the process stops in `fault`.
The FIFO is the sequence that `IntrusiveQueue` shows its pointers to spell.
Run statistics and `workqueue_status` are left out.

### WorkQueueManager

Blocks are `null`, `raw`, `ready` or `freed`; a process about to use a block
that is not `ready` stays where it is, and `NoStrayUse` says that nobody gets
there. `pending` is a history variable. What a queue does between being listed
and unlisted is `WorkQueue`; here a runner only remembers whether it has items
and whether it was asked to stop, since `workqueue_request_stop` alone wakes
no worker. The mapping of buses and ports to configurations is left out.

### Hrt

`clock` is the true time; the code sees `clock % Period`. `Nested` chooses the
build: with `CONFIG_HRT_PRIMASK_CONTROL` a critical section restores the mask
it found; by default leaving it enables interrupts (`hrt_stm32.c:49-62`).
`busy` measures how long the interrupt has been wanted, masked or running;
`Tick` lets that last `Late` microseconds at most. The latency histogram is
left out; `hrt_elapsed_time_atomic` and `hrt_store_absolute_time`, which are
about 64-bit values read in two halves, are not modelled.

### UorbNode

A message is its number. `published` counts without bound where the code keeps
the count modulo 2^32 (`Modulus`); `data` holds the slots, 0 standing for
memory nobody has written. `seen` and `since` are history variables; `since`
starts again when the topic is withdrawn, because callbacks and readers take
no notice of what is published to a topic that is not advertised. Update
intervals and the timeout of `updatedBlocking` are not modelled.

### UorbMaster

The clients of one topic: `orb_advertise_multi` and `orb_advertise` with their
publication objects, `orb_subscribe_multi`, and `Subscription` objects. A node
is its instance number. `room` is what other topics leave of the node map.
The loop of `uorb_device_master_advertise` is one step per instance, and the
registration one step before the node is marked and listed: `unode_open` can
see it in between, since it takes another lock. `unode_open` is two steps, the
store of the flags and what the node then does by them. Three history
variables delimit what the code does not guard: `crowded` (nodes opened by two
clients at a time), `robbed` (instances withdrawn while another publisher
holds them, or entered after a failure because of a stale `errno`) and `full`
(the node map was found full). The properties say what holds outside them;
inside them TLC finds what the notes of the hazards describe. The creation of
the master (its first user is taken to be alone), the ioctls, publisher rules
and printing are left out, and so is a failed allocation of the node itself,
which the code tests only after it has used the pointer.

### PthreadSync

Everything between taking and giving back an object's mutex is one action,
since all fields and tables are used under it. The table of waiters is a set;
pthread_cond_signal takes any of its tasks of the highest priority. A task has
one notification, which a wait consumes whatever it was sent for. The mutex
itself is the ordinary one; recursive and error-checking kinds do not occur
here. `ReadersWriterLock` has one variable, what each thread does with the
lock, and `ImplementsLock` is its specification under the mapping `Phase`:
holders and waiters are read off the positions of the threads, not off the
counters, so the counters have to be right for it to hold. The lock's
re-creation after a destroy and the RT-Thread variants are not modelled. A
barrier is used once, as the code never resets its count.

### WQueue and Autosave

`WQueue` has the list at pointer level, the calls and the thread, and no
next-state relation: `Autosave` extends it and says who calls. One action is
what runs under the queue's lock; `work_queue` sets `worker` and `delay` before
it takes that lock, which is a step of its own (`Fill`). Time passes in
microseconds, only while the thread sleeps or a worker runs. `age` is a history
variable. `pthread_kill` does nothing on FreeRTOS, so no signal wakes the
thread. In `Autosave` the callers hold the parameters' writer lock; the worker
takes it to take back the schedule, and the reader lock for the save, which
therefore excludes changes; `armed` may change at any time. A save may fail,
after all its attempts (`param_save_default(ok)`): the code reports that, keeps
the parameters marked unsaved and schedules nothing before the next change
(`parameters.cpp:609`, `:1142`). Three history variables tell the cases apart.
`unsaved`: some change is not stored. `changed`: there was one since the worker
last took back the schedule. `missed`: a save has failed or the saving was
disabled, and no new attempt has begun. `ChangeIsPending` and `ChangesAreSaved`
hold for every `changed` state whether saves fail or not; of what is unsaved
they promise that it is stored, or was missed. Calls of `param_save_default`
from elsewhere are left out. The code lets the worker put its own work back
without the lock: when a cancel comes meanwhile, the work may be linked twice.
Behaviours end there (`collided`); what a broken list does is not followed.

## 3. Runs

| run | instance | shows |
|---|---|---|
| `intrusive_queue` | 4 nodes | `Spells`, `QueueInv`: pointers and history agree after any sequence of calls, also pushes of queued nodes and removes of nodes that are not queued; `RemoveEnds` |
| `workqueue_disciplined` | 2 items, 2 threads, 1 queue, no overlap | `DeinitPreventsInsertions`, `ScheduleOnLiveQueue`, and under fairness `PendingIsServed`, `UnusedQueueEnds` |
| `workqueue_moves` | 1 item, 2 threads, 2 queues, overlap | an item that moves between queues, whatever calls overlap: `TypeOK`, `NoLostWakeup`, `PostsBounded`, `InUseIsAlive` |
| `manager_careful` | 2 clients, 2 names, 3 runners, careful | `NoRequestLost`, `NoStrayUse`, `OneQueuePerName`, and under fairness `FindReturns`, `StopEnds` |
| `manager_restart` | 1 client, 1 name | `RefusedMeansRunning` is violated (finding) |
| `hrt_nested` | 1 thread, 2 entries, nesting build | `TimeIsKept`, `QueueIsSorted`, `ArmedForHead` |
| `hrt_default_time` | 1 thread, 1 entry, default build | `TimeIsKept` is violated (finding) |
| `uorb_topic` | 2 publishers that come and go, a work-item subscription called every 2 messages, a blocking reader, queues of 1 and 2 | `TypeOK`, `NewestAreKept`, `UnreadIsScheduled`, `ReadsInOrder` |
| `uorb_unwritten` | 1 publisher, 1 reader | `CopiesWhatWasWritten` is violated (finding) |
| `uorb_master` | 2 multi-instance and 1 single-instance publisher, a file subscriber, a subscription object, 2 instances | `RegisteredIsListed`, `OneInstanceEach`, `PublisherIsSeen`, `HandleIsOwn`, `GetsWhatItAskedFor`, `LockIsReleased` |
| `pthread_sync` | 4 threads, 1 with timed calls and a higher priority, tables of 2, a barrier for 4 | `CountsMatch`, `NoSleeperForgotten`, `DestroyedIsUnused`, `BarrierHolds`, the refinement `ImplementsLock`, and under fairness `LockMovesOn` |
| `param_autosave` | the autosave work and another one | `ListIsSound`, `SleepIsShort`, `ChangeIsPending`, `NeverEarly`, and under fairness `ChangesAreSaved` |

`TypeOK` is checked where arithmetic on shared counters could break it; in the other
modules it states the types for the reader and for proofs (in
`WorkQueueManager` it is part of the proved invariant).

### Bounds

- `IntrusiveQueue`: with 4 nodes remove meets the head, the tail and two
  positions between, and a node outside the queue.
- `WorkQueue`: the state is finite as it is. Races are between a schedule, a
  lifecycle call, the worker with its entry, and interrupts: two threads, a
  worker and the interrupt make each pair possible. Two items are needed for a
  detach that is not the last. A queue is created once, since a new thread
  is a new queue; with one queue, later inits fail as they do when no thread can be
  created, with two an item also moves on.
- `WorkQueueManager`: `Polls` is 10000 in the code and 2 here: a client either
  gives up or not. Three runners let a name be asked for again after its queue
  has ended. The static pointers are never reset, so one start and one stop
  are all that can succeed.
- `Hrt`: a counter period of 5 instead of 65536, with the order of the code's
  constants kept (`Late` < `HRT_INTERVAL_MIN` <= `HRT_INTERVAL_MAX`, and
  `HRT_INTERVAL_MAX` + `Late` < period). `MaxTime` = 10 is two wraps; a delay of 4 is
  beyond the maximal interval, one of 0 is due at once.
- `UorbNode`: queues of 1 and 2 slots and 3 messages let a reader be overtaken
  and a queue be enlarged before its buffer exists, or refused it afterwards.
  The passing run stays below `Modulus`; see section 6 for the wrap.
- `UorbMaster`: two instances and four calls let two advertisers meet at one
  instance and at the end of the loop, and a client return after another has
  taken its place; a map of two entries can be full with one instance
  registered. `MaxOpens` bounds the calls.
- `PthreadSync`: with four threads and tables of two (4 in the code) the table
  overflows, readers and writers wait at the same time, and a time-out meets a
  signal. All the state is finite.
- `Autosave`: a tick of 2, a period of 4 and a clock of 10 microseconds
  keep rounding, sleeps of less than the longest delay, and wraps while a work
  waits; it is the shortest clock that satisfies `ClockIsLong` (section 5).
  `MaxRun` bounds the time a worker runs.

### Deadlock

TLC checks for deadlock except where the system may really stop: in the
`WorkQueue` runs, with no item attached and all queues used up there is nothing
left to do and faulted threads stay stopped; in `uorb_master` the calls are
bounded and clients need not make any; in `pthread_sync` a destroy that returns
EBUSY leaves the lock's mutex locked for ever; in `param_autosave` behaviours
end at `collided`.

### Fairness

- `WorkQueue`: weak fairness of every worker and of every call in progress
  (threads are scheduled), strong fairness of `EntryReturns`: an entry that
  goes on making calls returns at last.
- `WorkQueueManager`: weak fairness of the manager, of a stop, of runners and
  clients; strong fairness of the wait for the slot, since the semaphores of
  both kernels wake their waiters in order. Nothing is assumed of
  applications: they need not detach, start or stop.
- `IntrusiveQueue`: weak fairness of remove's loop.
- `PthreadSync`: weak fairness of a task that is notified and of one that
  wants the mutex back: tasks run in the end, and the kernel's mutex passes to
  its waiters. Nothing is assumed of unlocks: `LockMovesOn` starts from a free
  lock.
- `Autosave`: weak fairness of the thread, of workers and of a call in
  progress; strong fairness of time, which no call of others can stop.
- `UorbNode` and `UorbMaster` are checked for safety only.

## 4. Premises

A run that assumes something of the application has it as a constant or a
guard, not in its properties.

- `Overlap = FALSE`: no schedule or clear of an item by a thread overlaps an
  init or deinit of the same item. Interrupts may schedule at any time. In all
  runs two threads never run the lifecycle functions of one item at once.
- `Careful = TRUE`: clients ask after the manager has set itself up and not
  during a stop, and no two at once for the same name; what is asked for is
  listed within the ten seconds; the manager gets to its end or blocks within
  the ten milliseconds of `workqueue_manager_stop`; threads can be created.
  In all runs a stop comes after the manager thread has set itself up.
- `Hrt`: the interrupt is served within `Late` < `HRT_INTERVAL_MIN`, which the
  comment on that constant demands. A callout arms its own entry only for a
  single call and uses `hrt_call_delay` otherwise. The time is not 0 when the
  first callout is entered, since a zero deadline means "not queued".
- `WorkQueue`: `work_lock` is a critical section that stays closed, as it is on
  the hosted build and on RT-Thread. On FreeRTOS it is a raised BASEPRI
  (`drv_sched.h:31`), and the mutex inside `blocking_list_*` ends it between the
  test of `should_exit` and the add in `workqueue_attach`
  (`workqueue.c:98`, `:99`), and between the remove, the test of the size and the
  stop in `workqueue_detach` (`:112`, `:114`, `:118`). No application in the
  repository enables FreeRTOS; of such a build these runs say nothing.
  The semaphore the worker sleeps on is a counting one, as on the hosted build:
  `sem_setprotocol` is commented out (`workqueue.c:61`, `:64`), so where
  semaphores inherit priorities by default it would be a mutex, which ignores
  the initial count of 0.
- `UorbNode`: a work-item subscription unregisters, and its item has left the
  queue, before it unsubscribes. Each object is used by one thread. The entry of a
  subscription's work item reads until nothing is new (`EntryUpdates`); an entry
  that reads once per call may leave messages for its next call. A node has at
  most 127 subscribers, the range of its int8_t counter
  (`uorb_device_node.h:33`); the same goes for `UorbMaster`.
- `UorbMaster`: the master exists before two clients run at once. A subscriber
  asks for an instance below `ORB_MULTI_MAX_INSTANCES`.
- `PthreadSync`: a thread unlocks only what it has locked and holds one lock at
  a time; a thread waits at the barrier once.
- `Autosave`: each other work has one caller, which does not queue a work that is
  queued and does not cancel one it is queueing.

## 5. Proofs

Checked by TLAPS for all values of the constants. What is assumed of constants
are the ASSUMEs of the modules: NULL is none of the things it stands in for,
numbers are numbers, sets whose members the code counts (threads, subscribers)
are finite, and the timer's constants are in the order the code demands. A
theorem that needs one of the premises of section 4 has it as its hypothesis;
the run that checks the same property sets the constant to that value.

| theorem | property | hypothesis |
|---|---|---|
| `IntrusiveQueueProofs!PointersSpellFifo` | `Spells` | |
| `WorkQueueProofs!TypeCorrect`, `WakeupsAreNotLost`, `QueuesInUseAreAlive` | `TypeOK`, `NoLostWakeup`, `InUseIsAlive` | |
| `WorkQueueProofs!PostsStayBounded` | `PostsBounded` | finitely many processes |
| `WorkQueueProofs!NothingInsertedAfterDeinit`, `SchedulesUseLiveQueues` | `DeinitPreventsInsertions`, `ScheduleOnLiveQueue` | `~Overlap` |
| `WorkQueueManagerProofs!RequestsAreKept` | `NoRequestLost` | |
| `WorkQueueManagerProofs!NamesAreUnique`, `BlocksAreUsedAlive` | `OneQueuePerName`, `NoStrayUse` | `Careful` |
| `HrtProofs!TypeCorrect`, `ListStaysSorted` | `TypeOK`, `QueueIsSorted` | |
| `HrtProofs!TimeIsAlwaysKept`, `RegisterIsArmed` | `TimeIsKept`, `ArmedForHead` | `Nested` |
| `UorbNodeProofs!NodeTypes` | `TypeOK` | |
| `UorbNodeProofs!BufferKeepsNewest`, `NoMissedCallback`, `MessagesInOrder` | `NewestAreKept`, `UnreadIsScheduled`, `ReadsInOrder` | `NoWrap` |
| `UorbMasterProofs!LockReleased`, `ListIsTheMap`, `NoSharedInstance`, `AdvertisedIsSeen`, `HandlesAreOwn`, `SubscriberGetsItsInstance` | `LockIsReleased`, `RegisteredIsListed`, `OneInstanceEach`, `PublisherIsSeen`, `HandleIsOwn`, `GetsWhatItAskedFor` | |
| `PthreadSyncProofs!CountersAreRight`, `SleepersAreWoken`, `DestroyedLockIsUnused`, `BarrierHoldsAll` | `CountsMatch`, `NoSleeperForgotten`, `DestroyedIsUnused`, `BarrierHolds` | |
| `PthreadSyncProofs!LockIsImplemented` | `ImplementsLock` | |
| `AutosaveProofs!TypeCorrect`, `ListSound`, `ChangePending`, `RunsNoWorkEarly` | `TypeOK`, `ListIsSound`, `ChangeIsPending`, `NeverEarly` | |
| `AutosaveProofs!SleepShort`, `WaitBounded` | `SleepIsShort`, `WaitIsBounded` | `ClockIsLong` |

Each proof module has an inductive invariant, proved with one step per action;
its theorem ends in `Invariant` (`WorkQueueInvariant`, `HrtInvariant`, ...;
`Invariance` in `AutosaveProofs`). Each proves the facts about sequences it
needs in a section of its own.

- IntrusiveQueue: `QueueInv` says that the pointers spell `fifo`, that nodes outside it
  have a null `next`, that `fifo` has no duplicates, and that a running loop's
  cursor stands in the chain before its victim, if that is queued. The second and third parts are
  why the test `next != NULL || node == tail` is right: nothing stores
  whether a node is queued. The steps rest on the facts about `Drop`, `Has` and
  `Distinct` at the head of the module.
- WorkQueue: `WorkQueueInv` has six parts and holds with overlap or without.
  `CallShape` and `LockShape` tie a process's position to its arguments and to
  the lock. `LifecycleShape`: one lifecycle call per item, and none has a
  queue meanwhile. `AttachShape`: whoever uses a queue is attached to it, so
  the test in `workqueue_attach` and the one in `workqueue_detach` decide under the
  lock whether it lives. `WakeupShape` extends `NoLostWakeup` back to the
  moment the worker has found its queue empty: it has to be true already
  before the worker sleeps, and a stop request matters only from the wait on.
  Without overlap, `DisciplineInv` is inductive with it: a schedule in
  progress holds the queue its item still points to (`ScheduleShape`), and an
  item is linked only in that queue (`QueuedShape`). `PostsBounded` is
  inductive by itself: a process passes the test only at a count of 0, when
  there is at most one post under way for each process.
- WorkQueueManager: in `RequestInv` the slot has one
  token, which is in one of the two semaphores or with the one process that
  writes or reads the slot (`SlotShape`); nobody pushes before the queue is
  set up (`SetupShape`). `CarefulInv` follows a name from the client that asks
  (`AskShape`) to the runner that serves it: a request in the slot, one the
  manager has taken and a runner that is or will be listed exclude each other
  for one name, and meanwhile the client polls (`TokenShape`). `ListShape`,
  `StopShape` and `EndShape` say what is set up, freed and still running in
  each phase of a stop, so that nobody is left who would use the blocks.
- Hrt: the time is kept because of a cycle. `TimeInv` has it: the last read was
  right and is less than a period ago, and unless somebody is at work, the
  register matches within `HRT_INTERVAL_MAX` of that read; so the next
  read is right as well. It is needed because `TimeIsKept` alone says nothing
  of when the next read comes. `SectionInv` says that a reschedule in progress
  is alone and that the time it has read is at most `Late` old, which is why
  the value it writes still lies ahead; this is what fails in the default
  build. `CalloutInv` keeps the entry whose callout runs out of the list, so
  that entering it again gives no duplicate. The insertion before the first
  later deadline is shown to keep any sorted list sorted, and the comparison
  of the low halves in the compare register to be right for less than a period.
  In the default build, where `TimeInv` and `SectionInv` fail, `ListInv` is still
  inductive together with `StartInv`: what enters the list needs a deadline
  that is not 0, hence a time that is not 0, right or not. Only before the
  first read could 0 be read, when the counter has wrapped unnoticed, and the
  match at `First` comes earlier than that.
- UorbNode: under `NoWrap` (fewer messages than 2^32 less the longest queue)
  the generation is the number of messages. `AllocInv`: nobody writes without
  a buffer. `CallbackInv` and `ReaderInv` tie callbacks to nodes and the
  generation of a reader to what it has been given; a reader that has found
  something new still has it to read. That the ring keeps the newest messages
  is that no two of a window as long as the queue have one slot.
- UorbMaster: `MapInv` relates map and list also while a node is being added,
  `AskedInv` follows the instance of a subscriber through the loop.
  `ClaimInv` says that a multi-instance publisher has marked what it holds and
  that nobody holds a node that is being added: `OneInstanceEach` alone is not
  kept by the steps that give an instance. `FlagInv`, `InsideInv` and
  `CountInv` tie the flags, the private data and the count of a node to the
  client inside it, as long as it is opened by one at a time.
- PthreadSync: `SyncInv` gives counters, holders and tables their meaning,
  counting sets of threads. `WakeInv` strengthens `NoSleeperForgotten`: woken
  readers do not count as movers, since they may find a writer waiting and
  sleep again, and writers that have timed out count as stuck. `BarrierInv`
  adds those that are woken at the barrier and not through it yet.
  `LockIsImplemented`: the initial state maps to the abstract one, and every
  step to one step of `ReadersWriterLock` or none; that a reader is let in
  only when no writer holds or waits needs that the counters are right.
- Autosave: `Inv` gives the doubly linked list as the sequence that its links
  spell (`Spells`), which has the queued works, each once. That sequence is not
  in the code or the model: it exists in every state. `PhaseInv` says what the
  thread, the callers and the worker know of each other: the flag
  `autosave_scheduled` is set exactly while the work is queued, being queued or
  before its decision, a change since then has the flag, and what is unsaved
  without one is in the save under way or was missed, as everything is while
  the saving is disabled.
  `AgeInv` ties the true age of a work to the clock the code sees, up to one turn.
  The list is sound, nothing is early and no change is forgotten whatever the
  clock. The other two are about how long works wait: `WaitInv` gives the k-th
  work of the list the time the thread is still busy and one run for each of
  the k - 1 before it, since the thread starts again at the head after each
  worker and what is queued goes to the end. `SleepIsShort` is not inductive
  without that, and not even true for a clock that is too short: a work that
  waits for a whole turn of the clock looks as if it had just been queued, and
  is slept past (TLC shows it for a clock of 5). `ClockIsLong` says that the
  longest wait, which `WaitIsBounded` states, is less than a turn; with 32 bits
  of microseconds a turn takes 71 minutes.
  All parts but the types hold until two users have met at one work
  (`collided`, section 2).

Only model-checked:

- liveness under fairness (`RemoveEnds`, `PendingIsServed`, `UnusedQueueEnds`,
  `FindReturns`, `StopEnds`, `LockMovesOn`, `ChangesAreSaved`), which this
  prover does not do;
- the violations of section 6: `TimeIsKept` in the default build of the timer,
  where `ArmedForHead` does not hold either, and what happens when a generation
  counter wraps.

`NoRequestLost` is checked for careful clients and proved for all.

## 6. Disagreements between the code and its comments

Three have a run each and are listed under `findings`:

- `manager_restart`: `workqueue_manager_stop` frees the create queue and keeps
  the pointer, so each later start is refused as "already running" although no
  manager runs (`workqueue_manager.c:406`, `:339`).
- `hrt_default_time`: in the default build, `hrt_absolute_time` enables
  interrupts in the middle of `hrt_call_internal`. A thread preempted there
  writes a compare value that has passed, and the guarantee "called at least once
  per counter period" (`hrt_stm32.c:346`) fails: the time falls back.
- `uorb_unwritten`: the buffer exists before the first message is in it, and
  `copy()` in between returns true with uninitialised memory
  (`uorb_device_node.c:30`, `:230`).

Others were met with the same models under other constants and are kept as
notes of the hazards:

- with `Overlap`, a `workitem_schedule_now` that has tested `_wq` inserts the
  item after `workitem_deinit` has removed it ("prevent additional
  insertions", `workitem.c:69`);
- without `Careful`, two clients of one name get two queues, and a runner that has not
  listed itself yet is missed by a stop, which frees the list it will use;
- the default build of the timer also breaks `ArmedForHead`;
- `hrt_called` is true in the callout of a repeating entry, where
  `drv_hrt.h:142` says "Always returns false for repeating callouts";
- near the wrap of the generation, `generation + queue_size` overflows and
  sets readers back (`uorb_device_node.c:33`);
- a publisher's destructor withdraws a topic that others still publish
  (`Publication.hpp:29`);
- a publication between the test and the wait of `updatedBlocking` wakes
  nobody (`SubscriptionBlocking.hpp:82-93`);
- a subscriber that finds the node map full is given the next instance instead
  of the one it asked for (`uorb_device_master.c:261`), and a stale `errno` of
  EEXIST turns a refused advertise into an open (`uorb_manager.c:110`);
- a signal that goes to a writer that has timed out is lost for the other
  writers (`pthread_cond.c:434`), a full table lets a thread through a barrier
  (`pthread_barrier.c:121`), a refused destroy keeps the mutex
  (`pthread_rwlock.c:82`);
- a cancel while autosave_worker puts its work back has the work queued
  nevertheless, and a new change then links it twice (`parameters.cpp:593`); an
  automatic save that fails is reported and not tried again before the next
  change (`parameters.cpp:609`); a work queued before a wrap of the 32-bit clock runs early
  (`work_thread.c:63`).

## 7. How to run

In this directory: `tlc -config WorkQueue_moves.cfg MCWorkQueue` (a run and
its module are in `PROJECT.json`), and `tlapm WorkQueueProofs.tla`.
The longest runs take two to three minutes on two cores.

## 8. Plan

Done so far: the queue, the work queues, their manager, the timer, one topic,
the instances of a topic, the pthread objects with their refinement, the
NuttX-style work queue and its main client; proofs of all safety properties
that the passing runs check. Next: what remains true of a topic near the wrap
of its generation when the size of the queue is a power of two.

Not modelled yet, though they have logic of their own: the composition of
`Hrt`'s callouts with `WorkQueue` (`scheduledworkitem.c`; a callout outlives
`schedule_workitem_deinit`), `hrt_posix.cpp`, `hrt_work`, the semaphores and
message queues over kernel objects, pipes, the sorted list, `ftl.c`, inode
reference counts, the YMODEM receiver and `rtxmem.c`.
