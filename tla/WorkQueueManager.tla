--------------------------- MODULE WorkQueueManager ---------------------------
(***************************************************************************)
(* The work-queue manager: gpm/modules/workqueue/workqueue_manager.c, with *)
(* the one-slot blocking queue (container/blocking_queue.h, N = 1) through *)
(* which workqueue_find_or_create hands a configuration to the manager     *)
(* thread, and the list of running queues (container/blocking_list.c).     *)
(*                                                                         *)
(* Clients call workqueue_find_or_create and then attach an item; the      *)
(* controller calls workqueue_manager_start and workqueue_manager_stop.    *)
(* A runner is a thread that executes workqueue_runner; what its work      *)
(* queue does between listing and unlisting is module WorkQueue, of which  *)
(* this module keeps who may still wake the worker.                        *)
(*                                                                         *)
(* The list and the create queue are heap blocks behind static pointers:   *)
(* "null" before they are allocated, "raw" until they are initialised,     *)
(* "ready", and "freed" for good, because workqueue_manager_stop leaves    *)
(* the pointers as they are.  An access to a block that is not ready has   *)
(* no defined outcome; the process that would make it stays where it is.   *)
(***************************************************************************)
EXTENDS Integers, FiniteSets

CONSTANTS
  Clients,     \* threads that call workqueue_find_or_create
  Configs,     \* the wq_config_t's, told apart by name
  Runners,     \* the threads the manager may create
  Polls,       \* how often a client polls: 10000 in the code
  NULL,
  Careful      \* do applications keep to what MayAsk, MayStop, TimesOut say?

ASSUME ManagerConstants ==
  /\ Polls \in Nat \ {0}
  /\ NULL \notin Clients \cup Configs \cup Runners
  /\ Careful \in BOOLEAN

VARIABLES
  shouldExit,  \* _wq_manager_should_exit
  wqsList,     \* what _wq_manager_wqs_list points to
  listed,      \* the runners in that list
  createQueue, \* what _wq_manager_create_queue points to
  semHead,     \* its semaphores
  semTail,
  data,        \* its only slot
  mgr,         \* where the manager thread is
  request,     \* the configuration it has popped
  runnerAt,    \* where every runner is
  config,      \* the configuration it was created for
  pc,          \* where every client is
  want,        \* the configuration it asks for
  t,           \* its polls so far
  found,       \* the queue it has found
  ctl,         \* where the controller is
  ret,         \* what its last call returned
  pending      \* history: requests pushed and not yet taken, by configuration

heapVars == <<wqsList, listed, createQueue>>
slotVars == <<semHead, semTail, data, pending>>
mgrVars == <<mgr, request>>
runnerVars == <<runnerAt, config>>
clientVars == <<pc, want, t, found>>
ctlVars == <<ctl, ret>>
vars == <<shouldExit, heapVars, slotVars, mgrVars, runnerVars, clientVars,
          ctlVars>>

Blocks == {"null", "raw", "ready", "freed"}
MgrSteps ==
  {"absent", "alloc", "init", "check", "pop", "read", "create", "done"}
\* A listed runner has no items yet, is used, was told to stop by the manager
\* (its worker sleeps on), or is leaving after its last item has detached.
RunnerSteps == {"absent", "init", "listed", "used", "told", "told_used",
                "leaving", "gone"}
ClientSteps == {"idle", "find", "push", "write", "poll", "attach"}
CtlSteps == {"idle", "ask", "wait", "exit", "push", "write", "sleep"}
Returns == {"none", "ok", "failed", "already_running", "active", "not_running"}

Init ==
  /\ shouldExit = TRUE
  /\ wqsList = "null"
  /\ listed = {}
  /\ createQueue = "null"
  /\ semHead = 0
  /\ semTail = 0
  /\ data = NULL
  /\ mgr = "absent"
  /\ request = NULL
  /\ runnerAt = [r \in Runners |-> "absent"]
  /\ config = [r \in Runners |-> NULL]
  /\ pc = [c \in Clients |-> "idle"]
  /\ want = [c \in Clients |-> NULL]
  /\ t = [c \in Clients |-> 0]
  /\ found = [c \in Clients |-> NULL]
  /\ ctl = "idle"
  /\ ret = "none"
  /\ pending = [k \in Configs |-> 0]

-----------------------------------------------------------------------------
(* blocking_queue.h: a push and a pop, each up to its first semaphore and  *)
(* from there to its end.                                                  *)

(* A push that does not wait for a free slot. *)
PushWait_NoWait ==
  /\ createQueue = "ready"
  /\ semHead' = semHead
  /\ UNCHANGED <<semTail, data, pending>>

PushWait ==
  /\ createQueue = "ready"
  /\ semHead > 0
  /\ semHead' = semHead - 1
  /\ UNCHANGED <<semTail, data, pending>>

PushWrite(k) ==
  /\ createQueue = "ready"
  /\ data' = k
  /\ semTail' = semTail + 1
  /\ pending' = [j \in Configs |-> pending[j] + (IF j = k THEN 1 ELSE 0)]
  /\ UNCHANGED semHead

PopWait ==
  /\ createQueue = "ready"
  /\ semTail > 0
  /\ semTail' = semTail - 1
  /\ UNCHANGED <<semHead, data, pending>>

(* A pop that does not give the slot back. *)
PopRead_NoPost ==
  /\ createQueue = "ready"
  /\ pending' = [j \in Configs |-> pending[j] - (IF j = data THEN 1 ELSE 0)]
  /\ UNCHANGED <<semHead, semTail, data>>

PopRead ==
  /\ createQueue = "ready"
  /\ semHead' = semHead + 1
  /\ pending' = [j \in Configs |-> pending[j] - (IF j = data THEN 1 ELSE 0)]
  /\ UNCHANGED <<semTail, data>>

-----------------------------------------------------------------------------
(* workqueue_find_or_create, and the attach of workitem_init after it.     *)

\* A request is in the slot: pushed, and not yet read.
InSlot == semTail > 0 \/ mgr = "read"

\* A queue for k has been asked for and will be listed.
UnderWay(k) ==
  \/ InSlot /\ data = k
  \/ request = k
  \/ \E r \in Runners : runnerAt[r] = "init" /\ config[r] = k

\* A manager is stopped only after it has set itself up: its thread has the
\* highest priority and does so before the caller of start goes on.
\* Careful applications ask after the manager has set itself up and before
\* anyone stops it, and never two of them for queues of one name; what
\* was asked for is listed within the ten seconds, and the manager, woken by
\* the stop, runs until it ends or blocks within the ten milliseconds.
MayAsk(c, k) ==
  Careful => /\ createQueue = "ready" /\ ctl = "idle" /\ ~shouldExit
             /\ \A d \in Clients \ {c} : want[d] # k
MayStop ==
  /\ createQueue \notin {"null", "raw"}
  /\ Careful => \A c \in Clients : pc[c] = "idle"
TimesOut(c) == t[c] + 1 = Polls /\ (Careful => ~UnderWay(want[c]))

\* What find_workqueue_by_name may return: the list is sorted by priority, so
\* the first of several queues with one name can be any of them.
Matches(k) == {r \in listed : config[r] = k}

ClientAt(c, l) == pc' = [pc EXCEPT ![c] = l]

\* The test of _wq_manager_create_queue.
workqueue_find_or_create(c, k) ==
  /\ pc[c] = "idle"
  /\ createQueue # "null"
  /\ MayAsk(c, k)
  /\ ClientAt(c, "find")
  /\ want' = [want EXCEPT ![c] = k]
  /\ UNCHANGED <<shouldExit, heapVars, slotVars, mgrVars, runnerVars, t, found,
                 ctlVars>>

(* A find_or_create that asks for a new queue without searching the list. *)
Find_NoSearch(c) ==
  /\ pc[c] = "find"
  /\ wqsList = "ready"
  /\ ClientAt(c, "push")
  /\ UNCHANGED <<shouldExit, heapVars, slotVars, mgrVars, runnerVars, want, t,
                 found, ctlVars>>

Find(c) ==
  /\ pc[c] = "find"
  /\ wqsList = "ready"
  /\ \/ /\ Matches(want[c]) = {}
        /\ ClientAt(c, "push")
        /\ UNCHANGED found
     \/ \E r \in Matches(want[c]) :
          /\ found' = [found EXCEPT ![c] = r]
          /\ ClientAt(c, "attach")
  /\ UNCHANGED <<shouldExit, heapVars, slotVars, mgrVars, runnerVars, want, t,
                 ctlVars>>

Push(c) ==
  /\ pc[c] = "push"
  /\ PushWait
  /\ ClientAt(c, "write")
  /\ UNCHANGED <<shouldExit, heapVars, mgrVars, runnerVars, want, t, found,
                 ctlVars>>

PushConfig(c) ==
  /\ pc[c] = "write"
  /\ PushWrite(want[c])
  /\ ClientAt(c, "poll")
  /\ t' = [t EXCEPT ![c] = 0]
  /\ UNCHANGED <<shouldExit, heapVars, mgrVars, runnerVars, want, found,
                 ctlVars>>

\* One turn of the polling loop.
Poll(c) ==
  /\ pc[c] = "poll"
  /\ wqsList = "ready"
  /\ \/ /\ Matches(want[c]) = {}
        /\ ClientAt(c, IF TimesOut(c) THEN "idle" ELSE "poll")
        /\ want' = [want EXCEPT ![c] = IF TimesOut(c) THEN NULL ELSE @]
        /\ t' = [t EXCEPT ![c] = IF TimesOut(c) THEN 0
                                 ELSE IF @ + 1 < Polls THEN @ + 1 ELSE @]
        /\ UNCHANGED found
     \/ \E r \in Matches(want[c]) :
          /\ found' = [found EXCEPT ![c] = r]
          /\ ClientAt(c, "attach")
          /\ t' = [t EXCEPT ![c] = 0]
          /\ UNCHANGED want
  /\ UNCHANGED <<shouldExit, heapVars, slotVars, mgrVars, runnerVars, ctlVars>>

\* workqueue_attach refuses a queue that is to stop.
Attach(c) ==
  /\ pc[c] = "attach"
  /\ runnerAt' = [runnerAt EXCEPT ![found[c]] =
                    IF @ \in {"listed", "used"} THEN "used" ELSE @]
  /\ ClientAt(c, "idle")
  /\ want' = [want EXCEPT ![c] = NULL]
  /\ found' = [found EXCEPT ![c] = NULL]
  /\ UNCHANGED <<shouldExit, heapVars, slotVars, mgrVars, config, t, ctlVars>>

-----------------------------------------------------------------------------
(* workqueue_manager_run.                                                  *)

MgrAlloc ==
  /\ mgr = "alloc"
  /\ wqsList' = "raw"
  /\ createQueue' = "raw"
  /\ mgr' = "init"
  /\ UNCHANGED <<shouldExit, listed, slotVars, request, runnerVars, clientVars,
                 ctlVars>>

MgrInit ==
  /\ mgr = "init"
  /\ wqsList' = "ready"
  /\ listed' = {}
  /\ createQueue' = "ready"
  /\ semHead' = 1
  /\ semTail' = 0
  /\ data' = NULL
  /\ mgr' = "check"
  /\ UNCHANGED <<shouldExit, pending, request, runnerVars, clientVars, ctlVars>>

MgrCheck ==
  /\ mgr = "check"
  /\ mgr' = IF shouldExit THEN "done" ELSE "pop"
  /\ UNCHANGED <<shouldExit, heapVars, slotVars, request, runnerVars,
                 clientVars, ctlVars>>

MgrPop ==
  /\ mgr = "pop"
  /\ PopWait
  /\ mgr' = "read"
  /\ UNCHANGED <<shouldExit, heapVars, request, runnerVars, clientVars,
                 ctlVars>>

MgrRead ==
  /\ mgr = "read"
  /\ PopRead
  /\ request' = data
  /\ mgr' = IF data # NULL THEN "create" ELSE "check"
  /\ UNCHANGED <<shouldExit, heapVars, runnerVars, clientVars, ctlVars>>

\* pthread_create may fail; a careful application has memory left.
MgrCreate ==
  /\ mgr = "create"
  /\ \/ \E r \in Runners :
          /\ runnerAt[r] = "absent"
          /\ runnerAt' = [runnerAt EXCEPT ![r] = "init"]
          /\ config' = [config EXCEPT ![r] = request]
     \/ /\ Careful => \A r \in Runners : runnerAt[r] # "absent"
        /\ UNCHANGED runnerVars
  /\ mgr' = "check"
  /\ request' = NULL
  /\ UNCHANGED <<shouldExit, heapVars, slotVars, clientVars, ctlVars>>

-----------------------------------------------------------------------------
(* workqueue_runner.                                                       *)

RunnerAdd(r) ==
  /\ runnerAt[r] = "init"
  /\ wqsList = "ready"
  /\ listed' = listed \cup {r}
  /\ runnerAt' = [runnerAt EXCEPT ![r] = "listed"]
  /\ UNCHANGED <<shouldExit, wqsList, createQueue, slotVars, mgrVars, config,
                 clientVars, ctlVars>>

\* The last item detaches, which asks the worker to stop and wakes it.
LastDetach(r) ==
  /\ runnerAt[r] \in {"used", "told_used"}
  /\ runnerAt' = [runnerAt EXCEPT ![r] = "leaving"]
  /\ UNCHANGED <<shouldExit, heapVars, slotVars, mgrVars, config, clientVars,
                 ctlVars>>

RunnerRemove(r) ==
  /\ runnerAt[r] = "leaving"
  /\ wqsList = "ready"
  /\ listed' = listed \ {r}
  /\ runnerAt' = [runnerAt EXCEPT ![r] = "gone"]
  /\ UNCHANGED <<shouldExit, wqsList, createQueue, slotVars, mgrVars, config,
                 clientVars, ctlVars>>

-----------------------------------------------------------------------------
(* workqueue_manager_start and workqueue_manager_stop.                     *)

\* pthread_create of the manager thread may fail.
workqueue_manager_start ==
  /\ ctl = "idle"
  /\ IF shouldExit /\ createQueue = "null"
     THEN \/ shouldExit' = FALSE /\ mgr' = "alloc" /\ ret' = "ok"
          \/ UNCHANGED <<shouldExit, mgr>> /\ ret' = "failed"
     ELSE UNCHANGED <<shouldExit, mgr>> /\ ret' = "already_running"
  /\ UNCHANGED <<heapVars, slotVars, request, runnerVars, clientVars, ctl>>

workqueue_manager_stop ==
  /\ ctl = "idle"
  /\ MayStop
  /\ \/ shouldExit /\ ret' = "not_running" /\ UNCHANGED ctl
     \/ /\ ~shouldExit
        /\ wqsList = "ready"
        /\ listed # {}
        /\ ret' = "active"
        /\ UNCHANGED ctl
     \/ /\ ~shouldExit
        /\ wqsList = "ready"
        /\ listed = {}
        /\ ret' = "none"
        /\ ctl' = "ask"
  /\ UNCHANGED <<shouldExit, heapVars, slotVars, mgrVars, runnerVars,
                 clientVars>>

\* workqueue_request_stop of every listed queue, which wakes no worker.
StopAsk ==
  /\ ctl = "ask"
  /\ wqsList = "ready"
  /\ runnerAt' = [r \in Runners |->
                    IF r \notin listed THEN runnerAt[r]
                    ELSE CASE runnerAt[r] = "listed" -> "told"
                           [] runnerAt[r] = "used" -> "told_used"
                           [] OTHER -> runnerAt[r]]
  /\ ctl' = "wait"
  /\ UNCHANGED <<shouldExit, heapVars, slotVars, mgrVars, config, clientVars,
                 ret>>

StopFreeList ==
  /\ ctl = "wait"
  /\ wqsList = "ready"
  /\ listed = {}
  /\ wqsList' = "freed"
  /\ ctl' = "exit"
  /\ UNCHANGED <<shouldExit, listed, createQueue, slotVars, mgrVars,
                 runnerVars, clientVars, ret>>

(* A stop that does not set should_exit before it wakes the manager. *)
StopExit_NoStore ==
  /\ ctl = "exit"
  /\ ctl' = "push"
  /\ UNCHANGED <<shouldExit, heapVars, slotVars, mgrVars, runnerVars,
                 clientVars, ret>>

StopExit ==
  /\ ctl = "exit"
  /\ shouldExit' = TRUE
  /\ ctl' = "push"
  /\ UNCHANGED <<heapVars, slotVars, mgrVars, runnerVars, clientVars, ret>>

StopPush ==
  /\ ctl = "push"
  /\ PushWait
  /\ ctl' = "write"
  /\ UNCHANGED <<shouldExit, heapVars, mgrVars, runnerVars, clientVars, ret>>

(* A stop that does not push anything to wake the manager. *)
StopPushNull_NoPush ==
  /\ ctl = "write"
  /\ ctl' = "sleep"
  /\ UNCHANGED <<shouldExit, heapVars, slotVars, mgrVars, runnerVars,
                 clientVars, ret>>

StopPushNull ==
  /\ ctl = "write"
  /\ PushWrite(NULL)
  /\ ctl' = "sleep"
  /\ UNCHANGED <<shouldExit, heapVars, mgrVars, runnerVars, clientVars, ret>>

MgrRests == mgr \in {"absent", "done"} \/ (mgr = "pop" /\ semTail = 0)

\* usleep, then destroy and free the create queue.
StopFreeQueue ==
  /\ ctl = "sleep"
  /\ Careful => MgrRests
  /\ createQueue' = "freed"
  /\ ctl' = "idle"
  /\ ret' = "ok"
  /\ UNCHANGED <<shouldExit, wqsList, listed, slotVars, mgrVars, runnerVars,
                 clientVars>>

-----------------------------------------------------------------------------
ClientCall(c) == Find(c) \/ Push(c) \/ PushConfig(c) \/ Poll(c) \/ Attach(c)

Manager ==
  \/ MgrAlloc
  \/ MgrInit
  \/ MgrCheck
  \/ MgrPop
  \/ MgrRead
  \/ MgrCreate

Runner(r) == RunnerAdd(r) \/ RunnerRemove(r)

Stop ==
  \/ StopAsk
  \/ StopFreeList
  \/ StopExit
  \/ StopPush
  \/ StopPushNull
  \/ StopFreeQueue

Next ==
  \/ \E c \in Clients :
       ClientCall(c) \/ \E k \in Configs : workqueue_find_or_create(c, k)
  \/ Manager
  \/ \E r \in Runners : Runner(r) \/ LastDetach(r)
  \/ workqueue_manager_start
  \/ workqueue_manager_stop
  \/ Stop

\* Threads are scheduled.  The semaphore of the slot wakes its waiters in
\* order, so no client waits in a push for ever while others succeed.
Fairness ==
  /\ WF_vars(Manager)
  /\ WF_vars(Stop)
  /\ \A r \in Runners : WF_vars(Runner(r))
  /\ \A c \in Clients : WF_vars(ClientCall(c)) /\ SF_vars(Push(c))

Spec == Init /\ [][Next]_vars /\ Fairness

-----------------------------------------------------------------------------
\* The variables have their types: the semaphores of the slot never go below
\* zero and a client polls at most Polls times.
TypeOK ==
  /\ shouldExit \in BOOLEAN
  /\ wqsList \in Blocks
  /\ listed \subseteq Runners
  /\ createQueue \in Blocks
  /\ semHead \in Nat
  /\ semTail \in Nat
  /\ data \in Configs \cup {NULL}
  /\ mgr \in MgrSteps
  /\ request \in Configs \cup {NULL}
  /\ runnerAt \in [Runners -> RunnerSteps]
  /\ config \in [Runners -> Configs \cup {NULL}]
  /\ pc \in [Clients -> ClientSteps]
  /\ want \in [Clients -> Configs \cup {NULL}]
  /\ t \in [Clients -> 0..(Polls - 1)]
  /\ found \in [Clients -> Runners \cup {NULL}]
  /\ ctl \in CtlSteps
  /\ ret \in Returns
  /\ pending \in [Configs -> Int]

(***************************************************************************)
(* No request is lost, doubled or overwritten in the slot: the requests    *)
(* pushed and not yet taken by the manager are exactly the one in the      *)
(* slot, although push and pop write and read it outside any lock, between *)
(* two semaphore operations, and any number of clients push.               *)
(***************************************************************************)
NoRequestLost ==
  \A k \in Configs : pending[k] = IF InSlot /\ data = k THEN 1 ELSE 0

(***************************************************************************)
(* Nobody uses the manager's list or its create queue before they are      *)
(* initialised or after workqueue_manager_stop has freed them.             *)
(***************************************************************************)
NoStrayUse ==
  /\ \A c \in Clients :
       /\ pc[c] \in {"find", "poll"} => wqsList = "ready"
       /\ pc[c] \in {"push", "write"} => createQueue = "ready"
  /\ mgr \in {"pop", "read"} => createQueue = "ready"
  /\ \A r \in Runners : runnerAt[r] \notin {"absent", "gone"} => wqsList = "ready"
  /\ ctl \in {"ask", "wait"} => wqsList = "ready"
  /\ ctl \in {"push", "write"} => createQueue = "ready"

(***************************************************************************)
(* "create work queue if it doesn't already exist" (workqueue_manager.c,   *)
(* workqueue_find_or_create): there are never two queues of one name.      *)
(***************************************************************************)
OneQueuePerName ==
  \A r, s \in listed : config[r] = config[s] => r = s

(***************************************************************************)
(* "already running" (workqueue_manager_start): a start that is refused    *)
(* with this warning has found a manager thread at work.                   *)
(***************************************************************************)
RefusedMeansRunning ==
  [][ret' = "already_running" /\ ret # "already_running"
       => mgr \notin {"absent", "done"}]_vars

(***************************************************************************)
(* workqueue_find_or_create returns, with a queue or without.              *)
(***************************************************************************)
FindReturns == \A c \in Clients : pc[c] # "idle" ~> pc[c] = "idle"

(***************************************************************************)
(* A stop of a manager whose clients have gone returns, and ends the       *)
(* manager thread.                                                         *)
(***************************************************************************)
StopEnds == ctl # "idle" ~> ctl = "idle" /\ mgr \in {"absent", "done"}

-----------------------------------------------------------------------------
(* The parts of the inductive invariant.                                   *)

\* The manager thread sets the create queue up before anybody can push.
SetupShape ==
  /\ createQueue = "null" => mgr \in {"absent", "alloc"}
  /\ createQueue = "raw" => mgr = "init"
  /\ mgr \in {"absent", "alloc"} => createQueue = "null"
  /\ mgr = "init" => createQueue = "raw"
  /\ createQueue \in {"null", "raw"} =>
       /\ semHead = 0 /\ semTail = 0 /\ ctl = "idle"
       /\ \A c \in Clients : pc[c] # "write"

\* The slot's one token is in a semaphore or with the one who uses the slot.
SlotShape ==
  /\ semHead + semTail <= 1
  /\ mgr = "read" => semHead = 0 /\ semTail = 0
  /\ ctl = "write" => semHead = 0 /\ semTail = 0 /\ mgr # "read"
  /\ \A c \in Clients : pc[c] = "write" =>
       /\ semHead = 0 /\ semTail = 0 /\ mgr # "read" /\ ctl # "write"
       /\ \A d \in Clients : pc[d] = "write" => d = c

RequestInv == TypeOK /\ SetupShape /\ SlotShape /\ NoRequestLost

(* The parts that need careful applications.                               *)

\* Clients ask for different names, and one that pushes a request has found
\* no queue of its name.
AskShape ==
  /\ \A c \in Clients : pc[c] # "idle" => want[c] \in Configs
  /\ \A c, d \in Clients : want[c] = want[d] /\ want[c] # NULL => c = d
  /\ \A c \in Clients : pc[c] \in {"push", "write"} => Matches(want[c]) = {}

\* Somebody polls for a queue of k.
Awaited(k) == \E c \in Clients : pc[c] = "poll" /\ want[c] = k

\* r executes workqueue_runner and may be found, now or later.
Serving(r) == runnerAt[r] = "init" \/ r \in listed

\* A request goes from the slot to the manager and on to one runner; while it
\* does, its client polls, and it is the only one of its name.
TokenShape ==
  /\ InSlot /\ data # NULL =>
       /\ Awaited(data)
       /\ request # data
       /\ \A r \in Runners : Serving(r) => config[r] # data
  /\ request # NULL =>
       Awaited(request) /\ \A r \in Runners : Serving(r) => config[r] # request
  /\ \A r \in Runners : runnerAt[r] = "init" => Awaited(config[r])
  /\ \A r, s \in Runners :
       Serving(r) /\ Serving(s) /\ config[r] = config[s] => r = s

\* Who runs is listed, and nobody runs before the list is set up.
ListShape ==
  /\ \A r \in Runners :
       r \in listed <=> runnerAt[r] \notin {"absent", "init", "gone"}
  /\ createQueue \in {"null", "raw"} => \A r \in Runners : runnerAt[r] = "absent"

\* How far a stop has come; while it runs there is no client.
StopShape ==
  /\ ctl # "idle" => \A c \in Clients : pc[c] = "idle"
  /\ ctl # "idle" => createQueue = "ready"
  /\ mgr \in {"alloc", "init"} => ~shouldExit
  /\ ctl \in {"ask", "wait"} => wqsList = "ready" /\ ~shouldExit
  /\ ctl \in {"exit", "push", "write", "sleep"} => wqsList = "freed"
  /\ ctl \in {"push", "write", "sleep"} => shouldExit
  /\ ctl = "idle" /\ createQueue = "ready" => wqsList = "ready" /\ ~shouldExit
  /\ createQueue = "freed" => wqsList = "freed" /\ shouldExit
  /\ \A c \in Clients : pc[c] # "idle" => createQueue = "ready"
  /\ \A r \in Runners :
       runnerAt[r] \notin {"absent", "gone"} => wqsList = "ready"

\* The manager thread: it creates exactly when it has a request, it meets the
\* empty request only at the end of a stop, and then it does not sleep again.
EndShape ==
  /\ mgr = "create" <=> request # NULL
  /\ InSlot /\ data = NULL => ctl = "sleep" \/ createQueue = "freed"
  /\ ctl = "sleep" /\ mgr = "pop" => semTail > 0
  /\ createQueue = "freed" => mgr = "done"

CarefulInv == AskShape /\ TokenShape /\ ListShape /\ StopShape /\ EndShape
=============================================================================
