--------------------------- MODULE WorkQueueProofs ---------------------------
(***************************************************************************)
(* WorkQueueInv is an inductive invariant of WorkQueue, for any sets of    *)
(* items, threads and queues and with or without overlapping calls.  It    *)
(* gives the type invariant, NoLostWakeup and InUseIsAlive.  DisciplineInv *)
(* is inductive with it when no schedule of an item overlaps its init or   *)
(* deinit, and gives DeinitPreventsInsertions and ScheduleOnLiveQueue.     *)
(* PostsBounded is inductive by itself.                                    *)
(*                                                                         *)
(* Each part of WorkQueueInv has a lemma of its own with one step per      *)
(* action; the parts it needs of the others are its assumptions.           *)
(***************************************************************************)
EXTENDS WorkQueue, SequenceTheorems, FiniteSetTheorems, TLAPS

USE DistinctNames DEF Procs, queueVars, workerVars, callVars

-----------------------------------------------------------------------------
(* Facts about sequences, for the operators of FifoOps.                     *)

(* Leaving out the k-th element gives a sequence, one shorter. *)
LEMMA WithoutIsSeq ==
  ASSUME NEW S, NEW s \in Seq(S), NEW k \in 1..Len(s)
  PROVE  /\ Without(s, k) \in Seq(S)
         /\ Len(Without(s, k)) = Len(s) - 1
         /\ \A j \in 1..(Len(s) - 1) :
              Without(s, k)[j] = IF j < k THEN s[j] ELSE s[j + 1]
<1> DEFINE t == Without(s, k)
<1>1. Len(s) \in Nat /\ Len(s) >= 1
  OBVIOUS
<1>2. \A j \in 1..(Len(s) - 1) : t[j] = IF j < k THEN s[j] ELSE s[j + 1]
  BY DEF Without
<1>3. \A j \in 1..(Len(s) - 1) : t[j] \in S
  BY <1>1, <1>2
<1>4. t \in [1..(Len(s) - 1) -> S]
  BY <1>3 DEF Without
<1>5. t \in Seq(S) /\ Len(t) = Len(s) - 1
  BY <1>1, <1>4
<1> QED
  BY <1>2, <1>5

(* When no element occurs twice, dropping an element leaves out its place. *)
LEMMA DropAt ==
  ASSUME NEW S, NEW s \in Seq(S), NEW k \in 1..Len(s), Distinct(s)
  PROVE  Drop(s, s[k]) = Without(s, k)
<1>1. Has(s, s[k])
  BY DEF Has
<1>2. \A j \in 1..Len(s) : s[j] = s[k] => j = k
  BY DEF Distinct
<1>3. (CHOOSE j \in 1..Len(s) : s[j] = s[k]) = k
  BY <1>2
<1> QED
  BY <1>1, <1>3 DEF Drop

(* Dropping gives a sequence of elements of the old one. *)
LEMMA DropIsSeq ==
  ASSUME NEW S, NEW s \in Seq(S), NEW e
  PROVE  /\ Drop(s, e) \in Seq(S)
         /\ \A x : Has(Drop(s, e), x) => Has(s, x)
<1>1. CASE ~Has(s, e)
  BY <1>1 DEF Drop
<1>2. CASE Has(s, e)
  <2> DEFINE k == CHOOSE j \in 1..Len(s) : s[j] = e
  <2>1. k \in 1..Len(s)
    BY <1>2 DEF Has
  <2> HIDE DEF k
  <2>2. Drop(s, e) = Without(s, k)
    BY <1>2 DEF Drop, k
  <2>3. ASSUME NEW x, Has(Without(s, k), x) PROVE Has(s, x)
    <3>1. PICK j \in 1..(Len(s) - 1) : Without(s, k)[j] = x
      BY <2>1, <2>3, WithoutIsSeq DEF Has
    <3>2. j \in 1..Len(s) /\ j + 1 \in 1..Len(s)
      OBVIOUS
    <3>3. x = s[j] \/ x = s[j + 1]
      BY <2>1, <3>1, WithoutIsSeq
    <3> QED
      BY <3>2, <3>3 DEF Has
  <2> QED
    BY <2>1, <2>2, <2>3, WithoutIsSeq
<1> QED
  BY <1>1, <1>2

(* Dropping keeps the elements distinct and takes out the dropped one. *)
LEMMA DropDistinct ==
  ASSUME NEW S, NEW s \in Seq(S), NEW e, Distinct(s)
  PROVE  Distinct(Drop(s, e)) /\ ~Has(Drop(s, e), e)
<1>1. CASE ~Has(s, e)
  BY <1>1 DEF Drop
<1>2. CASE Has(s, e)
  <2>1. PICK k \in 1..Len(s) : s[k] = e
    BY <1>2 DEF Has
  <2>2. Drop(s, e) = Without(s, k)
    BY <2>1, DropAt
  <2> DEFINE t == Without(s, k)
  <2>3. /\ Len(t) = Len(s) - 1
        /\ \A j \in 1..(Len(s) - 1) : t[j] = IF j < k THEN s[j] ELSE s[j + 1]
    BY WithoutIsSeq
  <2> HIDE DEF t
  <2>4. ASSUME NEW j \in 1..Len(t)
        PROVE  /\ t[j] = s[IF j < k THEN j ELSE j + 1]
               /\ (IF j < k THEN j ELSE j + 1) \in 1..Len(s)
    BY <2>3
  <2>5. Distinct(t)
    BY <2>4 DEF Distinct
  <2>6. ~Has(t, e)
    BY <2>1, <2>4 DEF Distinct, Has
  <2> QED
    BY <2>2, <2>5, <2>6 DEF t
<1> QED
  BY <1>1, <1>2

(* Taking the first element leaves the others, distinct if they were. *)
LEMMA TailFacts ==
  ASSUME NEW S, NEW s \in Seq(S), s # <<>>
  PROVE  /\ Tail(s) \in Seq(S)
         /\ Head(s) \in S
         /\ \A x : Has(Tail(s), x) => Has(s, x)
         /\ Distinct(s) => Distinct(Tail(s)) /\ ~Has(Tail(s), Head(s))
<1>1. /\ Tail(s) \in Seq(S)
      /\ Len(s) \in Nat
      /\ Len(s) >= 1
      /\ Len(Tail(s)) = Len(s) - 1
      /\ \A j \in 1..Len(Tail(s)) : Tail(s)[j] = s[j + 1]
      /\ Head(s) = s[1]
  OBVIOUS
<1>2. ASSUME NEW x, Has(Tail(s), x) PROVE Has(s, x)
  <2>1. PICK j \in 1..Len(Tail(s)) : Tail(s)[j] = x
    BY <1>2 DEF Has
  <2>2. j + 1 \in 1..Len(s) /\ s[j + 1] = x
    BY <1>1, <2>1
  <2> QED
    BY <2>2 DEF Has
<1>3. ASSUME Distinct(s) PROVE Distinct(Tail(s)) /\ ~Has(Tail(s), Head(s))
  BY <1>1, <1>3 DEF Distinct, Has
<1> QED
  BY <1>1, <1>2, <1>3

(* Appending an element that does not occur keeps the elements distinct. *)
LEMMA AppendFacts ==
  ASSUME NEW S, NEW s \in Seq(S), NEW e \in S
  PROVE  /\ Append(s, e) \in Seq(S)
         /\ \A x : Has(Append(s, e), x) <=> Has(s, x) \/ x = e
         /\ Distinct(s) /\ ~Has(s, e) => Distinct(Append(s, e))
<1> DEFINE t == Append(s, e)
<1>1. /\ t \in Seq(S)
      /\ Len(s) \in Nat
      /\ Len(t) = Len(s) + 1
      /\ \A j \in 1..Len(s) : t[j] = s[j]
      /\ t[Len(s) + 1] = e
  OBVIOUS
<1> HIDE DEF t
<1>2. ASSUME NEW x PROVE Has(t, x) <=> Has(s, x) \/ x = e
  <2>1. ASSUME Has(t, x) PROVE Has(s, x) \/ x = e
    BY <1>1, <2>1 DEF Has
  <2>2. ASSUME Has(s, x) PROVE Has(t, x)
    BY <1>1, <2>2 DEF Has
  <2>3. ASSUME x = e PROVE Has(t, x)
    BY <1>1, <2>3 DEF Has
  <2> QED
    BY <2>1, <2>2, <2>3
<1>3. ASSUME Distinct(s), ~Has(s, e) PROVE Distinct(t)
  BY <1>1, <1>3 DEF Distinct, Has
<1> QED
  BY <1>1, <1>2, <1>3 DEF t

-----------------------------------------------------------------------------
(* WorkQueueInv.                                                            *)

(* Initially no queue exists and nobody is in a call. *)
LEMMA InitInv == Init => WorkQueueInv
<1> SUFFICES ASSUME Init PROVE WorkQueueInv
  OBVIOUS
<1>1. TypeOK
  BY DEF Init, TypeOK, WorkerSteps, PCs
<1>2. CallShape /\ LockShape /\ LifecycleShape
  BY DEF Init, CallShape, LockShape, LifecycleShape, ScheduleSteps,
         DeinitSteps, InitSteps
<1>3. AttachShape /\ WakeupShape
  BY DEF Init, AttachShape, WakeupShape
<1> QED
  BY <1>1, <1>2, <1>3 DEF WorkQueueInv

-----------------------------------------------------------------------------
(* A call with well-typed arguments leaves the call variables well typed. *)
LEMMA CallTypes ==
  ASSUME TypeOK, NEW p \in Procs, NEW l \in PCs, NEW i \in Items \cup {NULL},
         NEW w \in Queues \cup {NULL}, Call(p, l, i, w)
  PROVE  /\ pc' \in [Procs -> PCs]
         /\ item' \in [Procs -> Items \cup {NULL}]
         /\ queue' \in [Procs -> Queues \cup {NULL}]
BY DEF Call, Goto, TypeOK

(* So does the end of a call. *)
LEMMA LeaveTypes ==
  ASSUME TypeOK, NEW p \in Procs, NEW l \in PCs, Leave(p, l)
  PROVE  /\ pc' \in [Procs -> PCs]
         /\ item' \in [Procs -> Items \cup {NULL}]
         /\ queue' \in [Procs -> Queues \cup {NULL}]
         /\ reinit' \in [Procs -> BOOLEAN]
BY CallTypes DEF Leave, TypeOK

(* So does the return of workitem_deinit, to workitem_init or to its caller. *)
LEMMA AfterDeinitTypes ==
  ASSUME TypeOK, NEW p \in Procs, AfterDeinit(p)
  PROVE  /\ pc' \in [Procs -> PCs]
         /\ item' \in [Procs -> Items \cup {NULL}]
         /\ queue' \in [Procs -> Queues \cup {NULL}]
         /\ reinit' \in [Procs -> BOOLEAN]
<1>1. CASE reinit[p]
  BY <1>1, CallTypes DEF AfterDeinit, TypeOK, PCs, InitSteps
<1>2. CASE ~reinit[p]
  BY <1>2, LeaveTypes DEF AfterDeinit, PCs
<1> QED
  BY <1>1, <1>2

(* A step that ends in a fault changes only the call of its process. *)
LEMMA FaultTypes ==
  ASSUME TypeOK, NEW p \in Procs, Fault(p)
  PROVE  TypeOK'
BY LeaveTypes DEF Fault, TypeOK, PCs

(* Every step of the program keeps the types. *)
LEMMA TypeStep ==
  ASSUME TypeOK, CallShape, Next
  PROVE  TypeOK'
<1>1. ASSUME NEW p \in Procs, NEW i \in Items,
             workitem_schedule_now(p, i)
      PROVE  TypeOK'
  BY <1>1 DEF workitem_schedule_now, TypeOK, PCs, ScheduleSteps, Call, Goto
<1>2. ASSUME NEW p \in Procs, NEW i \in Items,
             workitem_schedule_clear(p, i)
      PROVE  TypeOK'
  BY <1>2 DEF workitem_schedule_clear, TypeOK, PCs, ScheduleSteps, Call, Goto
<1>3. ASSUME NEW p \in Procs, NEW i \in Items,
             workitem_deinit(p, i)
      PROVE  TypeOK'
  BY <1>3 DEF workitem_deinit, TypeOK, PCs, DeinitSteps, Call, Goto
<1>4. ASSUME NEW p \in Procs, NEW i \in Items,
             workitem_init(p, i)
      PROVE  TypeOK'
  BY <1>4 DEF workitem_init, TypeOK, PCs, DeinitSteps, InitSteps, Call, Goto
<1>5. ASSUME NEW p \in Procs, NEW i \in Items, NEW j \in Items,
             workitem_init_method2(p, i, j)
      PROVE  TypeOK'
  BY <1>5 DEF workitem_init_method2, TypeOK, PCs, InitSteps, Call, Goto
<1>6. ASSUME NEW p \in Procs, workqueue_add(p) PROVE TypeOK'
  BY <1>6, AppendFacts DEF workqueue_add, SecondRead, Usable, Push, CallShape,
                           TypeOK, PCs, ScheduleSteps, Call, Goto
<1>7. ASSUME NEW p \in Procs, workqueue_remove(p) PROVE TypeOK'
  <2>1. PICK w \in SecondRead(p) : q' = [q EXCEPT ![w] = Drop(@, item[p])]
    BY <1>7 DEF workqueue_remove
  <2>2. \A v \in Queues : Drop(q[v], item[p]) \in Seq(Items)
    BY DropIsSeq DEF TypeOK
  <2>3. q' \in [Queues -> Seq(Items)]
    BY <2>1, <2>2 DEF TypeOK
  <2> QED
    BY <1>7, <2>3, LeaveTypes DEF workqueue_remove, TypeOK, PCs
<1>8. ASSUME NEW p \in Procs, UseBadPointer(p) PROVE TypeOK'
  BY <1>8, FaultTypes DEF UseBadPointer
<1>9. ASSUME NEW p \in Procs, SignalTest(p) PROVE TypeOK'
  <2>1. CASE processLock[queue[p]] <= 0
    BY <1>9, <2>1 DEF SignalTest, Goto, TypeOK, PCs, ScheduleSteps
  <2>2. CASE ~(processLock[queue[p]] <= 0)
    BY <1>9, <2>2, LeaveTypes DEF SignalTest, TypeOK, PCs
  <2> QED
    BY <2>1, <2>2
<1>10. ASSUME NEW p \in Procs, SignalPost(p) PROVE TypeOK'
  <2>1. queue[p] \in Queues
    BY <1>10 DEF SignalPost, CallShape, ScheduleSteps
  <2>2. processLock' \in [Queues -> Nat]
    BY <1>10, <2>1 DEF SignalPost, TypeOK
  <2> QED
    BY <1>10, <2>2, LeaveTypes DEF SignalPost, TypeOK, PCs
<1>11. ASSUME NEW p \in Procs, DeinitRemove(p) PROVE TypeOK'
  BY <1>11, DropIsSeq DEF DeinitRemove, TypeOK, PCs, DeinitSteps, Goto
<1>12. ASSUME NEW p \in Procs, workqueue_detach(p) PROVE TypeOK'
  <2>1. queue[p] \in Queues
    BY <1>12 DEF workqueue_detach, CallShape, DeinitSteps
  <2>2. workItems' \in [Queues -> SUBSET Items]
    BY <1>12, <2>1 DEF workqueue_detach, TypeOK
  <2>3. CASE workItems[queue[p]] \ {item[p]} = {}
    <3>1. shouldExit' \in [Queues -> BOOLEAN]
      BY <1>12, <2>1, <2>3 DEF workqueue_detach, TypeOK
    <3>2. lock' \in [Queues -> Procs \cup {NULL}]
      <4>1. lock' = [lock EXCEPT ![queue[p]] = p]
        BY <1>12, <2>3 DEF workqueue_detach
      <4> QED
        BY <4>1 DEF TypeOK
    <3>3. pc' \in [Procs -> PCs]
      BY <1>12, <2>3 DEF workqueue_detach, Goto, TypeOK, PCs, DeinitSteps
    <3>4. UNCHANGED <<q, processLock, workerVars, wq, item, queue, reinit>>
      BY <1>12, <2>3 DEF workqueue_detach
    <3> QED
      BY <2>2, <3>1, <3>2, <3>3, <3>4 DEF TypeOK
  <2>4. CASE workItems[queue[p]] \ {item[p]} # {}
    BY <1>12, <2>2, <2>4, AfterDeinitTypes DEF workqueue_detach, TypeOK
  <2> QED
    BY <2>3, <2>4
<1>13. ASSUME NEW p \in Procs, DetachTest(p) PROVE TypeOK'
  <2>1. CASE processLock[queue[p]] <= 0
    BY <1>13, <2>1 DEF DetachTest, Goto, TypeOK, PCs, DeinitSteps
  <2>2. CASE ~(processLock[queue[p]] <= 0)
    <3>1. lock' \in [Queues -> Procs \cup {NULL}]
      BY <1>13, <2>2 DEF DetachTest, TypeOK
    <3> QED
      BY <1>13, <2>2, <3>1, AfterDeinitTypes DEF DetachTest, TypeOK
  <2> QED
    BY <2>1, <2>2
<1>14. ASSUME NEW p \in Procs, DetachPost(p) PROVE TypeOK'
  <2>1. queue[p] \in Queues
    BY <1>14 DEF DetachPost, CallShape, DeinitSteps
  <2>2. processLock' \in [Queues -> Nat]
    BY <1>14, <2>1 DEF DetachPost, TypeOK
  <2>3. lock' \in [Queues -> Procs \cup {NULL}]
    BY <1>14 DEF DetachPost, TypeOK
  <2> QED
    BY <1>14, <2>2, <2>3, AfterDeinitTypes DEF DetachPost, TypeOK
<1>15. ASSUME NEW p \in Procs, InitNodes(p) PROVE TypeOK'
  BY <1>15 DEF InitNodes, TypeOK, PCs, InitSteps, Goto
<1>16. ASSUME NEW p \in Procs, InitQueuedNode(p) PROVE TypeOK'
  BY <1>16, FaultTypes DEF InitQueuedNode
<1>17. ASSUME NEW p \in Procs, FindOrCreate(p) PROVE TypeOK'
  <2>1. ASSUME NEW w \in Queues, Call(p, "attach", item[p], w),
               UNCHANGED reinit
        PROVE  TypeOK'
    <3>1. item[p] \in Items \cup {NULL} /\ "attach" \in PCs
      BY DEF TypeOK, PCs, InitSteps
    <3> QED
      BY <1>17, <2>1, <3>1, CallTypes DEF FindOrCreate, TypeOK
  <2>2. CASE Leave(p, "idle")
    BY <1>17, <2>2, LeaveTypes DEF FindOrCreate, TypeOK, PCs
  <2> QED
    BY <1>17, <2>1, <2>2 DEF FindOrCreate
<1>18. ASSUME NEW p \in Procs, workqueue_attach(p) PROVE TypeOK'
  <2>1. CASE shouldExit[queue[p]]
    BY <1>18, <2>1, LeaveTypes DEF workqueue_attach, TypeOK, PCs
  <2>2. CASE ~shouldExit[queue[p]]
    <3>1. item[p] \in Items /\ queue[p] \in Queues
      BY <1>18 DEF workqueue_attach, CallShape, InitSteps
    <3>2. workItems' \in [Queues -> SUBSET Items]
      <4>1. workItems' = [workItems EXCEPT ![queue[p]] = @ \cup {item[p]}]
        BY <1>18, <2>2 DEF workqueue_attach
      <4> QED
        BY <3>1, <4>1 DEF TypeOK
    <3>3. pc' \in [Procs -> PCs]
      BY <1>18, <2>2 DEF workqueue_attach, Goto, TypeOK, PCs, InitSteps
    <3> QED
      BY <1>18, <2>2, <3>2, <3>3 DEF workqueue_attach, TypeOK
  <2> QED
    BY <2>1, <2>2
<1>19. ASSUME NEW p \in Procs, InitPublish(p) PROVE TypeOK'
  BY <1>19, LeaveTypes DEF InitPublish, CallShape, InitSteps, TypeOK, PCs
<1>20. ASSUME NEW p \in Procs, UseDestroyed(p) PROVE TypeOK'
  BY <1>20, FaultTypes DEF UseDestroyed
<1>21. ASSUME NEW w \in Queues, WorkerStart(w) PROVE TypeOK'
  BY <1>21 DEF WorkerStart, TypeOK, WorkerSteps
<1>22. ASSUME NEW w \in Queues, RunCheck(w) PROVE TypeOK'
  BY <1>22 DEF RunCheck, TypeOK, WorkerSteps
<1>23. ASSUME NEW w \in Queues, RunWait(w) PROVE TypeOK'
  BY <1>23 DEF RunWait, TypeOK, WorkerSteps
<1>24. ASSUME NEW w \in Queues, RunPop(w) PROVE TypeOK'
  <2>1. CASE q[w] = <<>>
    BY <1>24, <2>1 DEF RunPop, TypeOK, WorkerSteps
  <2>2. CASE q[w] # <<>>
    <3>1. Head(q[w]) \in Items /\ Tail(q[w]) \in Seq(Items)
      BY <2>2, TailFacts DEF TypeOK
    <3>2. /\ workerAt' = [workerAt EXCEPT ![w] = "run"]
          /\ work' = [work EXCEPT ![w] = Head(q[w])]
          /\ q' = [q EXCEPT ![w] = Tail(q[w])]
      BY <1>24, <2>2 DEF RunPop
    <3>3. work' \in [Queues -> Items \cup {NULL}]
      BY <3>1, <3>2 DEF TypeOK
    <3>4. q' \in [Queues -> Seq(Items)]
      BY <3>1, <3>2 DEF TypeOK
    <3>5. workerAt' \in [Queues -> WorkerSteps]
      BY <3>2 DEF TypeOK, WorkerSteps
    <3> QED
      BY <1>24, <3>3, <3>4, <3>5 DEF RunPop, TypeOK
  <2> QED
    BY <2>1, <2>2
<1>25. ASSUME NEW w \in Queues, EntryReturns(w) PROVE TypeOK'
  BY <1>25 DEF EntryReturns, TypeOK, WorkerSteps
<1>26. ASSUME NEW w \in Queues, RunnerUnlist(w) PROVE TypeOK'
  BY <1>26 DEF RunnerUnlist, TypeOK, WorkerSteps
<1>27. ASSUME NEW w \in Queues, workqueue_deinit(w) PROVE TypeOK'
  BY <1>27 DEF workqueue_deinit, TypeOK, WorkerSteps
<1>28. ASSUME NEW w \in Queues, workqueue_clear(w) PROVE TypeOK'
  BY <1>28 DEF workqueue_clear, TypeOK
<1>29. ASSUME NEW i \in Items, InterruptSchedules(i) PROVE TypeOK'
  BY <1>29, AppendFacts DEF InterruptSchedules, Push, TypeOK
<1> QED
  BY <1>1, <1>2, <1>3, <1>4, <1>5, <1>6, <1>7, <1>8, <1>9, <1>10, <1>11,
     <1>12, <1>13, <1>14, <1>15, <1>16, <1>17, <1>18, <1>19, <1>20, <1>21,
     <1>22, <1>23, <1>24, <1>25, <1>26, <1>27, <1>28, <1>29 DEF Next,
                                                                StartCall,
                                                                CallStep,
                                                                Worker

-----------------------------------------------------------------------------
(* The effect of a step on the call variables is always that of Call: the  *)
(* following lemmas say so for the steps that branch, and the proofs below *)
(* use them instead of the branches.                                       *)

(* Moving on within a call is a call with the same arguments. *)
LEMMA GotoForm ==
  ASSUME TypeOK, NEW p \in Procs, NEW l, Goto(p, l), UNCHANGED <<item, queue>>
  PROVE  Call(p, l, item[p], queue[p])
<1>1. item' = [item EXCEPT ![p] = item[p]]
  BY DEF TypeOK
<1>2. queue' = [queue EXCEPT ![p] = queue[p]]
  BY DEF TypeOK
<1> QED
  BY <1>1, <1>2 DEF Call

(* signal_worker_thread either goes on to post or returns. *)
LEMMA SignalTestForm ==
  ASSUME TypeOK, CallShape, NEW p \in Procs, SignalTest(p)
  PROVE  /\ pc[p] = "signal"
         /\ UNCHANGED <<queueVars, workerVars, wq>>
         /\ \/ Call(p, "post", item[p], queue[p])
            \/ processLock[queue[p]] > 0 /\ Call(p, "idle", NULL, NULL)
<1>1. CASE processLock[queue[p]] <= 0
  BY <1>1, GotoForm DEF SignalTest
<1>2. CASE ~(processLock[queue[p]] <= 0)
  <2>1. processLock[queue[p]] > 0
    BY <1>2 DEF SignalTest, CallShape, ScheduleSteps, TypeOK
  <2> QED
    BY <1>2, <2>1 DEF SignalTest, Leave
<1> QED
  BY <1>1, <1>2

(* workitem_deinit returns into workitem_init or to its caller. *)
LEMMA AfterDeinitForm ==
  ASSUME NEW p \in Procs, AfterDeinit(p)
  PROVE  Call(p, "nodes", item[p], NULL) \/ Call(p, "idle", NULL, NULL)
BY DEF AfterDeinit, Leave

(* workqueue_detach stops the queue and goes on to signal, or returns. *)
LEMMA DetachForm ==
  ASSUME TypeOK, CallShape, NEW p \in Procs, workqueue_detach(p)
  PROVE  LET w == queue[p]
             rest == workItems[w] \ {item[p]}
         IN /\ pc[p] = "detach"
            /\ w \in Queues
            /\ item[p] \in Items
            /\ Alive(w)
            /\ lock[w] = NULL
            /\ workItems' = [workItems EXCEPT ![w] = rest]
            /\ UNCHANGED <<q, processLock, workerAt, wq>>
            /\ \/ /\ rest = {}
                  /\ shouldExit' = [shouldExit EXCEPT ![w] = TRUE]
                  /\ lock' = [lock EXCEPT ![w] = p]
                  /\ Call(p, "detach_signal", item[p], w)
               \/ /\ rest # {}
                  /\ UNCHANGED <<shouldExit, lock>>
                  /\ \/ Call(p, "nodes", item[p], NULL)
                     \/ Call(p, "idle", NULL, NULL)
<1>1. queue[p] \in Queues /\ item[p] \in Items
  BY DEF workqueue_detach, CallShape, DeinitSteps
<1>2. CASE workItems[queue[p]] \ {item[p]} = {}
  BY <1>1, <1>2, GotoForm DEF workqueue_detach
<1>3. CASE workItems[queue[p]] \ {item[p]} # {}
  BY <1>1, <1>3, AfterDeinitForm DEF workqueue_detach
<1> QED
  BY <1>2, <1>3

(* The test inside the lock goes on to post, or returns and unlocks. *)
LEMMA DetachTestForm ==
  ASSUME TypeOK, CallShape, NEW p \in Procs, DetachTest(p)
  PROVE  LET w == queue[p]
         IN /\ pc[p] = "detach_signal"
            /\ w \in Queues
            /\ item[p] \in Items
            /\ UNCHANGED <<q, workItems, processLock, shouldExit, workerAt, wq>>
            /\ \/ UNCHANGED lock /\ Call(p, "detach_post", item[p], w)
               \/ /\ processLock[w] > 0
                  /\ lock' = [lock EXCEPT ![w] = NULL]
                  /\ \/ Call(p, "nodes", item[p], NULL)
                     \/ Call(p, "idle", NULL, NULL)
<1>1. queue[p] \in Queues /\ item[p] \in Items
  BY DEF DetachTest, CallShape, DeinitSteps
<1>2. CASE processLock[queue[p]] <= 0
  BY <1>1, <1>2, GotoForm DEF DetachTest
<1>3. CASE ~(processLock[queue[p]] <= 0)
  <2>1. processLock[queue[p]] > 0
    BY <1>1, <1>3 DEF TypeOK
  <2> QED
    BY <1>1, <1>3, <2>1, AfterDeinitForm DEF DetachTest
<1> QED
  BY <1>2, <1>3

(* The post inside the lock returns and unlocks. *)
LEMMA DetachPostForm ==
  ASSUME TypeOK, CallShape, NEW p \in Procs, DetachPost(p)
  PROVE  LET w == queue[p]
         IN /\ pc[p] = "detach_post"
            /\ w \in Queues
            /\ item[p] \in Items
            /\ processLock' = [processLock EXCEPT ![w] = @ + 1]
            /\ lock' = [lock EXCEPT ![w] = NULL]
            /\ UNCHANGED <<q, workItems, shouldExit, workerAt, wq>>
            /\ \/ Call(p, "nodes", item[p], NULL)
               \/ Call(p, "idle", NULL, NULL)
<1>1. queue[p] \in Queues /\ item[p] \in Items
  BY DEF DetachPost, CallShape, DeinitSteps
<1> QED
  BY <1>1, AfterDeinitForm DEF DetachPost

(* workqueue_find_or_create goes on with a queue or fails. *)
LEMMA FindForm ==
  ASSUME NEW p \in Procs, FindOrCreate(p)
  PROVE  /\ pc[p] = "find"
         /\ UNCHANGED <<queueVars, workerVars, wq>>
         /\ \/ \E w \in Queues : Call(p, "attach", item[p], w)
            \/ Call(p, "idle", NULL, NULL)
BY DEF FindOrCreate, Leave

(* workqueue_attach refuses or attaches. *)
LEMMA AttachForm ==
  ASSUME TypeOK, CallShape, NEW p \in Procs, workqueue_attach(p)
  PROVE  LET w == queue[p]
         IN /\ pc[p] = "attach"
            /\ w \in Queues
            /\ item[p] \in Items
            /\ Alive(w)
            /\ UNCHANGED <<q, processLock, shouldExit, lock, workerAt, wq>>
            /\ \/ UNCHANGED workItems /\ Call(p, "idle", NULL, NULL)
               \/ /\ ~shouldExit[w]
                  /\ workItems' = [workItems EXCEPT ![w] = @ \cup {item[p]}]
                  /\ Call(p, "publish", item[p], w)
<1>1. queue[p] \in Queues /\ item[p] \in Items
  BY DEF workqueue_attach, CallShape, InitSteps
<1>2. CASE shouldExit[queue[p]]
  BY <1>1, <1>2 DEF workqueue_attach, Leave
<1>3. CASE ~shouldExit[queue[p]]
  BY <1>1, <1>3, GotoForm DEF workqueue_attach
<1> QED
  BY <1>2, <1>3

-----------------------------------------------------------------------------
(* What a move of one process's call needs to keep each part.              *)

(* CallShape is kept by a call that has the arguments its step uses. *)
LEMMA CallShapeMove ==
  ASSUME TypeOK, CallShape, NEW p \in Procs, NEW l, NEW i, NEW w,
         Call(p, l, i, w),
         l \in ScheduleSteps \cup DeinitSteps \cup InitSteps => i \in Items,
         l \in ScheduleSteps \cup DeinitSteps \cup {"attach", "publish"}
           => w \in Queues
  PROVE  CallShape'
BY DEF CallShape, Call, Goto, TypeOK

(* LockShape is kept by moves outside the signalling part of a detach. *)
LEMMA LockShapeMove ==
  ASSUME TypeOK, LockShape, NEW p \in Procs, NEW l, NEW i, NEW w,
         Call(p, l, i, w), UNCHANGED lock,
         pc[p] \notin {"detach_signal", "detach_post"},
         l \notin {"detach_signal", "detach_post"}
  PROVE  LockShape'
BY DEF LockShape, Call, Goto, TypeOK

(* LockShape is kept when a detach takes the lock of a free queue. *)
LEMMA LockShapeTake ==
  ASSUME TypeOK, LockShape, NEW p \in Procs, NEW i, NEW w \in Queues,
         Call(p, "detach_signal", i, w), lock[w] = NULL,
         lock' = [lock EXCEPT ![w] = p],
         pc[p] \notin {"detach_signal", "detach_post"}
  PROVE  LockShape'
<1> SUFFICES ASSUME NEW v \in Queues, NEW r \in Procs
             PROVE  lock'[v] = r <=>
                      /\ queue'[r] = v
                      /\ pc'[r] \in {"detach_signal", "detach_post"}
  BY DEF LockShape
<1>1. \A x \in Procs : lock[w] # x
  OBVIOUS
<1>2. lock'[v] = IF v = w THEN p ELSE lock[v]
  BY DEF TypeOK
<1>3. CASE r = p
  <2>1. pc'[p] = "detach_signal" /\ queue'[p] = w
    BY DEF Call, Goto, TypeOK
  <2> QED
    BY <1>2, <1>3, <2>1 DEF LockShape
<1>4. CASE r # p
  <2>1. pc'[r] = pc[r] /\ queue'[r] = queue[r]
    BY <1>4 DEF Call, Goto, TypeOK
  <2> QED
    BY <1>1, <1>2, <1>4, <2>1 DEF LockShape
<1> QED
  BY <1>3, <1>4

(* LockShape is kept when the holder goes on from its test to its post. *)
LEMMA LockShapeKeep ==
  ASSUME TypeOK, LockShape, NEW p \in Procs, NEW i,
         Call(p, "detach_post", i, queue[p]), UNCHANGED lock,
         pc[p] \in {"detach_signal", "detach_post"}
  PROVE  LockShape'
BY DEF LockShape, Call, Goto, TypeOK

(* LockShape is kept when the holder releases the lock and goes on. *)
LEMMA LockShapeRelease ==
  ASSUME TypeOK, LockShape, NEW p \in Procs, NEW l, NEW i, NEW w,
         Call(p, l, i, w), queue[p] \in Queues,
         lock' = [lock EXCEPT ![queue[p]] = NULL],
         pc[p] \in {"detach_signal", "detach_post"},
         l \notin {"detach_signal", "detach_post"}
  PROVE  LockShape'
<1> SUFFICES ASSUME NEW v \in Queues, NEW r \in Procs
             PROVE  lock'[v] = r <=>
                      /\ queue'[r] = v
                      /\ pc'[r] \in {"detach_signal", "detach_post"}
  BY DEF LockShape
<1>1. lock[queue[p]] = p /\ \A x \in Procs : NULL # x
  BY DEF LockShape
<1>2. lock'[v] = IF v = queue[p] THEN NULL ELSE lock[v]
  BY DEF TypeOK
<1>3. CASE r = p
  <2>1. pc'[p] = l
    BY DEF Call, Goto, TypeOK
  <2> QED
    BY <1>1, <1>2, <1>3, <2>1 DEF LockShape
<1>4. CASE r # p
  <2>1. pc'[r] = pc[r] /\ queue'[r] = queue[r]
    BY <1>4 DEF Call, Goto, TypeOK
  <2> QED
    BY <1>1, <1>2, <1>4, <2>1 DEF LockShape
<1> QED
  BY <1>3, <1>4

(* LifecycleShape is kept by a lifecycle call that goes on, or ends. *)
LEMMA LifecycleMove ==
  ASSUME TypeOK, LifecycleShape, NEW p \in Procs, NEW l, NEW i, NEW w,
         Call(p, l, i, w), UNCHANGED wq,
         l \in DeinitSteps \cup InitSteps =>
           pc[p] \in DeinitSteps \cup InitSteps /\ i = item[p]
  PROVE  LifecycleShape'
BY DEF LifecycleShape, Call, Goto, TypeOK

(* AttachShape is kept by a move that leaves the lists and workers alone. *)
LEMMA AttachMove ==
  ASSUME TypeOK, AttachShape, NEW p \in Procs, NEW l, NEW i, NEW w,
         Call(p, l, i, w), UNCHANGED <<wq, workItems, shouldExit, workerAt>>,
         l \in {"remove", "detach", "publish"} =>
           /\ pc[p] \in {"remove", "detach", "publish"}
           /\ i = item[p]
           /\ w = queue[p],
         l \in {"detach_signal", "detach_post"} =>
           pc[p] \in {"detach_signal", "detach_post"} /\ w = queue[p]
  PROVE  AttachShape'
BY DEF AttachShape, Alive, Listed, Call, Goto, TypeOK

(* A pending signal survives a move that is not its end. *)
LEMMA SignalledMove ==
  ASSUME TypeOK, NEW v \in Queues, Signalled(v),
         NEW p \in Procs, NEW l, NEW i, NEW w, Call(p, l, i, w),
         processLock'[v] >= processLock[v], processLock'[v] \in Nat,
         queue[p] = v /\ pc[p] \in SignalSteps =>
           processLock'[v] > 0 \/ (l \in SignalSteps /\ w = v)
  PROVE  Signalled(v)'
<1>1. CASE processLock[v] > 0
  BY <1>1 DEF Signalled, TypeOK
<1>2. ASSUME NEW r \in Procs, queue[r] = v, pc[r] \in SignalSteps
      PROVE  Signalled(v)'
  <2>1. CASE r = p
    <3>1. pc'[p] = l /\ queue'[p] = w
      BY DEF Call, Goto, TypeOK
    <3> QED
      BY <1>2, <2>1, <3>1 DEF Signalled
  <2>2. CASE r # p
    <3>1. pc'[r] = pc[r] /\ queue'[r] = queue[r]
      BY <2>2 DEF Call, Goto, TypeOK
    <3> QED
      BY <1>2, <3>1 DEF Signalled
  <2> QED
    BY <2>1, <2>2
<1> QED
  BY <1>1, <1>2 DEF Signalled

(* A pending signal survives a step that moves no call and takes no count. *)
LEMMA SignalledStays ==
  ASSUME TypeOK, NEW v \in Queues, Signalled(v), UNCHANGED callVars,
         processLock'[v] >= processLock[v], processLock'[v] \in Nat
  PROVE  Signalled(v)'
BY DEF Signalled, TypeOK

(* WakeupShape is kept by a move that leaves the workers alone, adds no    *)
(* work and ends no signal to a live queue before its time.                *)
LEMMA WakeupMove ==
  ASSUME TypeOK, WakeupShape, NEW p \in Procs, NEW l, NEW i, NEW w,
         Call(p, l, i, w), UNCHANGED <<workerAt, shouldExit>>,
         \A v \in Queues :
           /\ processLock'[v] \in Nat /\ processLock'[v] >= processLock[v]
           /\ q'[v] # <<>> => q[v] # <<>>,
         pc[p] \in SignalSteps =>
           \/ ~Alive(queue[p])
           \/ processLock'[queue[p]] > 0
           \/ l \in SignalSteps /\ w = queue[p]
  PROVE  WakeupShape'
<1> SUFFICES ASSUME NEW v \in Queues
             PROVE  /\ q'[v] # <<>> => workerAt'[v] # "absent"
                    /\ workerAt'[v] \in {"check", "wait"} /\ q'[v] # <<>>
                         => Signalled(v)'
                    /\ workerAt'[v] = "wait" /\ shouldExit'[v]
                         => Signalled(v)'
  BY DEF WakeupShape
<1>1. q'[v] # <<>> => workerAt'[v] # "absent"
  BY DEF WakeupShape
<1>2. workerAt[v] \in {"check", "wait"} => Alive(v)
  BY DEF Alive, Listed
<1>3. Alive(v) /\ Signalled(v) => Signalled(v)'
  BY SignalledMove
<1> QED
  BY <1>1, <1>2, <1>3 DEF WakeupShape

-----------------------------------------------------------------------------
(* The worker's own steps, workqueue_clear and interrupts move no call and *)
(* leave the lock, the attached items, _should_exit and _wq alone.         *)
LEMMA OtherFrame ==
  ASSUME \/ \E w \in Queues :
              WorkerStart(w) \/ Worker(w) \/ workqueue_clear(w)
         \/ \E i \in Items : InterruptSchedules(i)
  PROVE  UNCHANGED <<workItems, shouldExit, lock, wq, callVars>>
BY DEF WorkerStart, Worker, RunCheck, RunWait, RunPop, EntryReturns,
       RunnerUnlist, workqueue_deinit, workqueue_clear, InterruptSchedules

(* Every step keeps CallShape. *)
LEMMA CallShapeStep ==
  ASSUME TypeOK, CallShape, Next
  PROVE  CallShape'
<1>1. ASSUME NEW p \in Procs, NEW i \in Items,
             workitem_schedule_now(p, i)
      PROVE  CallShape'
  BY <1>1 DEF workitem_schedule_now, CanCall, MaySchedule, Call, Goto, TypeOK,
              CallShape, ScheduleSteps, DeinitSteps, InitSteps
<1>2. ASSUME NEW p \in Procs, NEW i \in Items,
             workitem_schedule_clear(p, i)
      PROVE  CallShape'
  BY <1>2 DEF workitem_schedule_clear, CanCall, MaySchedule, Call, Goto,
              TypeOK, CallShape, ScheduleSteps, DeinitSteps, InitSteps
<1>3. ASSUME NEW p \in Procs, NEW i \in Items,
             workitem_deinit(p, i)
      PROVE  CallShape'
  BY <1>3 DEF workitem_deinit, CanCall, MayChange, LifecycleBusy, Call, Goto,
              TypeOK, CallShape, ScheduleSteps, DeinitSteps, InitSteps
<1>4. ASSUME NEW p \in Procs, NEW i \in Items,
             workitem_init(p, i)
      PROVE  CallShape'
  BY <1>4 DEF workitem_init, CanCall, MayChange, LifecycleBusy, Call, Goto,
              TypeOK, CallShape, ScheduleSteps, DeinitSteps, InitSteps
<1>5. ASSUME NEW p \in Procs, NEW i \in Items, NEW j \in Items,
             workitem_init_method2(p, i, j)
      PROVE  CallShape'
  BY <1>5 DEF workitem_init_method2, CanCall, MayChange, LifecycleBusy, Call,
              Goto, TypeOK, CallShape, ScheduleSteps, DeinitSteps, InitSteps
<1>6. ASSUME NEW p \in Procs, workqueue_add(p) PROVE CallShape'
  BY <1>6 DEF workqueue_add, SecondRead, Usable, Push, Call, Goto, TypeOK,
              CallShape, ScheduleSteps, DeinitSteps, InitSteps
<1>7. ASSUME NEW p \in Procs, workqueue_remove(p) PROVE CallShape'
  BY <1>7 DEF workqueue_remove, SecondRead, Usable, Leave, Call, Goto, TypeOK,
              CallShape, ScheduleSteps, DeinitSteps, InitSteps
<1>8. ASSUME NEW p \in Procs, UseBadPointer(p) PROVE CallShape'
  BY <1>8 DEF UseBadPointer, Fault, Leave, Call, Goto, TypeOK, CallShape,
              ScheduleSteps, DeinitSteps, InitSteps
<1>9. ASSUME NEW p \in Procs, SignalTest(p) PROVE CallShape'
  BY <1>9, SignalTestForm, CallShapeMove DEF CallShape, ScheduleSteps,
                                             DeinitSteps, InitSteps
<1>10. ASSUME NEW p \in Procs, SignalPost(p) PROVE CallShape'
  BY <1>10 DEF SignalPost, Leave, Call, Goto, TypeOK, CallShape,
               ScheduleSteps, DeinitSteps, InitSteps
<1>11. ASSUME NEW p \in Procs, DeinitRemove(p) PROVE CallShape'
  BY <1>11 DEF DeinitRemove, Goto, TypeOK, CallShape, ScheduleSteps,
               DeinitSteps, InitSteps
<1>12. ASSUME NEW p \in Procs, workqueue_detach(p) PROVE CallShape'
  BY <1>12, DetachForm, CallShapeMove DEF CallShape, ScheduleSteps,
                                          DeinitSteps, InitSteps
<1>13. ASSUME NEW p \in Procs, DetachTest(p) PROVE CallShape'
  BY <1>13, DetachTestForm, CallShapeMove DEF CallShape, ScheduleSteps,
                                              DeinitSteps, InitSteps
<1>14. ASSUME NEW p \in Procs, DetachPost(p) PROVE CallShape'
  BY <1>14, DetachPostForm, CallShapeMove DEF CallShape, ScheduleSteps,
                                              DeinitSteps, InitSteps
<1>15. ASSUME NEW p \in Procs, InitNodes(p) PROVE CallShape'
  BY <1>15 DEF InitNodes, Goto, TypeOK, CallShape, ScheduleSteps, DeinitSteps,
               InitSteps
<1>16. ASSUME NEW p \in Procs, InitQueuedNode(p) PROVE CallShape'
  BY <1>16 DEF InitQueuedNode, Fault, Leave, Call, Goto, TypeOK, CallShape,
               ScheduleSteps, DeinitSteps, InitSteps
<1>17. ASSUME NEW p \in Procs, FindOrCreate(p) PROVE CallShape'
  BY <1>17, FindForm, CallShapeMove DEF CallShape, ScheduleSteps, DeinitSteps,
                                        InitSteps
<1>18. ASSUME NEW p \in Procs, workqueue_attach(p) PROVE CallShape'
  BY <1>18, AttachForm, CallShapeMove DEF CallShape, ScheduleSteps,
                                          DeinitSteps, InitSteps
<1>19. ASSUME NEW p \in Procs, InitPublish(p) PROVE CallShape'
  BY <1>19 DEF InitPublish, Leave, Call, Goto, TypeOK, CallShape,
               ScheduleSteps, DeinitSteps, InitSteps
<1>20. ASSUME NEW p \in Procs, UseDestroyed(p) PROVE CallShape'
  BY <1>20 DEF UseDestroyed, Fault, Leave, Call, Goto, TypeOK, CallShape,
               ScheduleSteps, DeinitSteps, InitSteps
<1>21. ASSUME NEW w \in Queues,
             WorkerStart(w) \/ Worker(w) \/ workqueue_clear(w)
       PROVE  CallShape'
  BY <1>21, OtherFrame DEF CallShape, callVars
<1>22. ASSUME NEW i \in Items, InterruptSchedules(i)
       PROVE  CallShape'
  BY <1>22, OtherFrame DEF CallShape, callVars
<1> QED
  BY <1>1, <1>2, <1>3, <1>4, <1>5, <1>6, <1>7, <1>8, <1>9, <1>10, <1>11,
     <1>12, <1>13, <1>14, <1>15, <1>16, <1>17, <1>18, <1>19, <1>20, <1>21,
     <1>22 DEF Next, StartCall, CallStep

(* Every step keeps LockShape. *)
LEMMA LockShapeStep ==
  ASSUME TypeOK, CallShape, LockShape, AttachShape, Next
  PROVE  LockShape'
<1>1. ASSUME NEW p \in Procs, NEW i \in Items,
             workitem_schedule_now(p, i)
      PROVE  LockShape'
  BY <1>1 DEF workitem_schedule_now, CanCall, MaySchedule, Call, Goto, TypeOK,
              LockShape
<1>2. ASSUME NEW p \in Procs, NEW i \in Items,
             workitem_schedule_clear(p, i)
      PROVE  LockShape'
  BY <1>2 DEF workitem_schedule_clear, CanCall, MaySchedule, Call, Goto,
              TypeOK, LockShape
<1>3. ASSUME NEW p \in Procs, NEW i \in Items,
             workitem_deinit(p, i)
      PROVE  LockShape'
  BY <1>3 DEF workitem_deinit, CanCall, MayChange, LifecycleBusy, Call, Goto,
              TypeOK, LockShape
<1>4. ASSUME NEW p \in Procs, NEW i \in Items,
             workitem_init(p, i)
      PROVE  LockShape'
  BY <1>4 DEF workitem_init, CanCall, MayChange, LifecycleBusy, Call, Goto,
              TypeOK, LockShape
<1>5. ASSUME NEW p \in Procs, NEW i \in Items, NEW j \in Items,
             workitem_init_method2(p, i, j)
      PROVE  LockShape'
  BY <1>5 DEF workitem_init_method2, CanCall, MayChange, LifecycleBusy, Call,
              Goto, TypeOK, LockShape
<1>6. ASSUME NEW p \in Procs, workqueue_add(p) PROVE LockShape'
  BY <1>6 DEF workqueue_add, SecondRead, Usable, Push, Call, Goto, TypeOK,
              LockShape
<1>7. ASSUME NEW p \in Procs, workqueue_remove(p) PROVE LockShape'
  BY <1>7 DEF workqueue_remove, SecondRead, Usable, Leave, Call, Goto, TypeOK,
              LockShape
<1>8. ASSUME NEW p \in Procs, UseBadPointer(p) PROVE LockShape'
  BY <1>8 DEF UseBadPointer, Fault, Leave, Call, Goto, TypeOK, LockShape
<1>9. ASSUME NEW p \in Procs, SignalTest(p) PROVE LockShape'
  BY <1>9, SignalTestForm, LockShapeMove
<1>10. ASSUME NEW p \in Procs, SignalPost(p) PROVE LockShape'
  BY <1>10 DEF SignalPost, Leave, Call, Goto, TypeOK, LockShape
<1>11. ASSUME NEW p \in Procs, DeinitRemove(p) PROVE LockShape'
  BY <1>11 DEF DeinitRemove, Goto, TypeOK, LockShape
<1>12. ASSUME NEW p \in Procs, workqueue_detach(p) PROVE LockShape'
  BY <1>12, DetachForm, LockShapeTake, LockShapeMove
<1>13. ASSUME NEW p \in Procs, DetachTest(p) PROVE LockShape'
  BY <1>13, DetachTestForm, LockShapeKeep, LockShapeRelease
<1>14. ASSUME NEW p \in Procs, DetachPost(p) PROVE LockShape'
  BY <1>14, DetachPostForm, LockShapeRelease
<1>15. ASSUME NEW p \in Procs, InitNodes(p) PROVE LockShape'
  BY <1>15 DEF InitNodes, Goto, TypeOK, LockShape
<1>16. ASSUME NEW p \in Procs, InitQueuedNode(p) PROVE LockShape'
  BY <1>16 DEF InitQueuedNode, Fault, Leave, Call, Goto, TypeOK, LockShape
<1>17. ASSUME NEW p \in Procs, FindOrCreate(p) PROVE LockShape'
  BY <1>17, FindForm, LockShapeMove
<1>18. ASSUME NEW p \in Procs, workqueue_attach(p) PROVE LockShape'
  BY <1>18, AttachForm, LockShapeMove
<1>19. ASSUME NEW p \in Procs, InitPublish(p) PROVE LockShape'
  BY <1>19 DEF InitPublish, Leave, Call, Goto, TypeOK, LockShape
<1>20. ASSUME NEW p \in Procs, UseDestroyed(p) PROVE LockShape'
  <2>1. pc[p] \notin {"detach_signal", "detach_post"}
    BY <1>20 DEF UseDestroyed, AttachShape
  <2> QED
    BY <1>20, <2>1, LockShapeMove DEF UseDestroyed, Fault, Leave
<1>21. ASSUME NEW w \in Queues,
             WorkerStart(w) \/ Worker(w) \/ workqueue_clear(w)
       PROVE  LockShape'
  BY <1>21, OtherFrame DEF LockShape, callVars
<1>22. ASSUME NEW i \in Items, InterruptSchedules(i)
       PROVE  LockShape'
  BY <1>22, OtherFrame DEF LockShape, callVars
<1> QED
  BY <1>1, <1>2, <1>3, <1>4, <1>5, <1>6, <1>7, <1>8, <1>9, <1>10, <1>11,
     <1>12, <1>13, <1>14, <1>15, <1>16, <1>17, <1>18, <1>19, <1>20, <1>21,
     <1>22 DEF Next, StartCall, CallStep

(* Every step keeps LifecycleShape. *)
LEMMA LifecycleStep ==
  ASSUME TypeOK, CallShape, LifecycleShape, Next
  PROVE  LifecycleShape'
<1>1. ASSUME NEW p \in Procs, NEW i \in Items,
             workitem_schedule_now(p, i)
      PROVE  LifecycleShape'
  BY <1>1 DEF workitem_schedule_now, CanCall, MaySchedule, Call, Goto, TypeOK,
              CallShape, LifecycleShape, ScheduleSteps, DeinitSteps,
              InitSteps
<1>2. ASSUME NEW p \in Procs, NEW i \in Items,
             workitem_schedule_clear(p, i)
      PROVE  LifecycleShape'
  BY <1>2 DEF workitem_schedule_clear, CanCall, MaySchedule, Call, Goto,
              TypeOK, CallShape, LifecycleShape, ScheduleSteps, DeinitSteps,
              InitSteps
<1>3. ASSUME NEW p \in Procs, NEW i \in Items,
             workitem_deinit(p, i)
      PROVE  LifecycleShape'
  BY <1>3 DEF workitem_deinit, CanCall, MayChange, LifecycleBusy, Call, Goto,
              TypeOK, CallShape, LifecycleShape, ScheduleSteps, DeinitSteps,
              InitSteps
<1>4. ASSUME NEW p \in Procs, NEW i \in Items,
             workitem_init(p, i)
      PROVE  LifecycleShape'
  BY <1>4 DEF workitem_init, CanCall, MayChange, LifecycleBusy, Call, Goto,
              TypeOK, CallShape, LifecycleShape, ScheduleSteps, DeinitSteps,
              InitSteps
<1>5. ASSUME NEW p \in Procs, NEW i \in Items, NEW j \in Items,
             workitem_init_method2(p, i, j)
      PROVE  LifecycleShape'
  BY <1>5 DEF workitem_init_method2, CanCall, MayChange, LifecycleBusy, Call,
              Goto, TypeOK, CallShape, LifecycleShape, ScheduleSteps,
              DeinitSteps, InitSteps
<1>6. ASSUME NEW p \in Procs, workqueue_add(p) PROVE LifecycleShape'
  BY <1>6 DEF workqueue_add, SecondRead, Usable, Push, Call, Goto, TypeOK,
              CallShape, LifecycleShape, ScheduleSteps, DeinitSteps,
              InitSteps
<1>7. ASSUME NEW p \in Procs, workqueue_remove(p) PROVE LifecycleShape'
  BY <1>7 DEF workqueue_remove, SecondRead, Usable, Leave, Call, Goto, TypeOK,
              CallShape, LifecycleShape, ScheduleSteps, DeinitSteps,
              InitSteps
<1>8. ASSUME NEW p \in Procs, UseBadPointer(p) PROVE LifecycleShape'
  BY <1>8 DEF UseBadPointer, Fault, Leave, Call, Goto, TypeOK, CallShape,
              LifecycleShape, ScheduleSteps, DeinitSteps, InitSteps
<1>9. ASSUME NEW p \in Procs, SignalTest(p) PROVE LifecycleShape'
  BY <1>9, SignalTestForm, LifecycleMove DEF ScheduleSteps, DeinitSteps,
                                             InitSteps
<1>10. ASSUME NEW p \in Procs, SignalPost(p) PROVE LifecycleShape'
  BY <1>10 DEF SignalPost, Leave, Call, Goto, TypeOK, CallShape,
               LifecycleShape, ScheduleSteps, DeinitSteps, InitSteps
<1>11. ASSUME NEW p \in Procs, DeinitRemove(p) PROVE LifecycleShape'
  BY <1>11 DEF DeinitRemove, Goto, TypeOK, CallShape, LifecycleShape,
               ScheduleSteps, DeinitSteps, InitSteps
<1>12. ASSUME NEW p \in Procs, workqueue_detach(p) PROVE LifecycleShape'
  BY <1>12, DetachForm, LifecycleMove DEF ScheduleSteps, DeinitSteps,
                                          InitSteps
<1>13. ASSUME NEW p \in Procs, DetachTest(p) PROVE LifecycleShape'
  BY <1>13, DetachTestForm, LifecycleMove DEF ScheduleSteps, DeinitSteps,
                                              InitSteps
<1>14. ASSUME NEW p \in Procs, DetachPost(p) PROVE LifecycleShape'
  BY <1>14, DetachPostForm, LifecycleMove DEF ScheduleSteps, DeinitSteps,
                                              InitSteps
<1>15. ASSUME NEW p \in Procs, InitNodes(p) PROVE LifecycleShape'
  BY <1>15 DEF InitNodes, Goto, TypeOK, CallShape, LifecycleShape,
               ScheduleSteps, DeinitSteps, InitSteps
<1>16. ASSUME NEW p \in Procs, InitQueuedNode(p) PROVE LifecycleShape'
  BY <1>16 DEF InitQueuedNode, Fault, Leave, Call, Goto, TypeOK, CallShape,
               LifecycleShape, ScheduleSteps, DeinitSteps, InitSteps
<1>17. ASSUME NEW p \in Procs, FindOrCreate(p) PROVE LifecycleShape'
  BY <1>17, FindForm, LifecycleMove DEF ScheduleSteps, DeinitSteps, InitSteps
<1>18. ASSUME NEW p \in Procs, workqueue_attach(p) PROVE LifecycleShape'
  BY <1>18, AttachForm, LifecycleMove DEF ScheduleSteps, DeinitSteps,
                                          InitSteps
<1>19. ASSUME NEW p \in Procs, InitPublish(p) PROVE LifecycleShape'
  BY <1>19 DEF InitPublish, Leave, Call, Goto, TypeOK, CallShape,
               LifecycleShape, ScheduleSteps, DeinitSteps, InitSteps
<1>20. ASSUME NEW p \in Procs, UseDestroyed(p) PROVE LifecycleShape'
  BY <1>20 DEF UseDestroyed, Fault, Leave, Call, Goto, TypeOK, CallShape,
               LifecycleShape, ScheduleSteps, DeinitSteps, InitSteps
<1>21. ASSUME NEW w \in Queues,
             WorkerStart(w) \/ Worker(w) \/ workqueue_clear(w)
       PROVE  LifecycleShape'
  BY <1>21, OtherFrame DEF LifecycleShape, callVars
<1>22. ASSUME NEW i \in Items, InterruptSchedules(i)
       PROVE  LifecycleShape'
  BY <1>22, OtherFrame DEF LifecycleShape, callVars
<1> QED
  BY <1>1, <1>2, <1>3, <1>4, <1>5, <1>6, <1>7, <1>8, <1>9, <1>10, <1>11,
     <1>12, <1>13, <1>14, <1>15, <1>16, <1>17, <1>18, <1>19, <1>20, <1>21,
     <1>22 DEF Next, StartCall, CallStep

(* Every step keeps AttachShape. *)
LEMMA AttachShapeStep ==
  ASSUME TypeOK, CallShape, LockShape, LifecycleShape, AttachShape, Next
  PROVE  AttachShape'
<1>1. ASSUME NEW p \in Procs, NEW i \in Items,
             workitem_schedule_now(p, i)
      PROVE  AttachShape'
  BY <1>1 DEF workitem_schedule_now, CanCall, MaySchedule, Call, Goto, TypeOK,
              CallShape, LockShape, LifecycleShape, AttachShape, Alive,
              Listed, ScheduleSteps, DeinitSteps, InitSteps
<1>2. ASSUME NEW p \in Procs, NEW i \in Items,
             workitem_schedule_clear(p, i)
      PROVE  AttachShape'
  BY <1>2 DEF workitem_schedule_clear, CanCall, MaySchedule, Call, Goto,
              TypeOK, CallShape, LockShape, LifecycleShape, AttachShape,
              Alive, Listed, ScheduleSteps, DeinitSteps, InitSteps
<1>3. ASSUME NEW p \in Procs, NEW i \in Items,
             workitem_deinit(p, i)
      PROVE  AttachShape'
  BY <1>3 DEF workitem_deinit, CanCall, MayChange, LifecycleBusy, Call, Goto,
              TypeOK, CallShape, LockShape, LifecycleShape, AttachShape,
              Alive, Listed, ScheduleSteps, DeinitSteps, InitSteps
<1>4. ASSUME NEW p \in Procs, NEW i \in Items,
             workitem_init(p, i)
      PROVE  AttachShape'
  BY <1>4 DEF workitem_init, CanCall, MayChange, LifecycleBusy, Call, Goto,
              TypeOK, CallShape, LockShape, LifecycleShape, AttachShape,
              Alive, Listed, ScheduleSteps, DeinitSteps, InitSteps
<1>5. ASSUME NEW p \in Procs, NEW i \in Items, NEW j \in Items,
             workitem_init_method2(p, i, j)
      PROVE  AttachShape'
  BY <1>5 DEF workitem_init_method2, CanCall, MayChange, LifecycleBusy, Call,
              Goto, TypeOK, CallShape, LockShape, LifecycleShape, AttachShape,
              Alive, Listed, ScheduleSteps, DeinitSteps, InitSteps
<1>6. ASSUME NEW p \in Procs, workqueue_add(p) PROVE AttachShape'
  BY <1>6 DEF workqueue_add, SecondRead, Usable, Push, Call, Goto, TypeOK,
              CallShape, LockShape, LifecycleShape, AttachShape, Alive,
              Listed, ScheduleSteps, DeinitSteps, InitSteps
<1>7. ASSUME NEW p \in Procs, workqueue_remove(p) PROVE AttachShape'
  BY <1>7 DEF workqueue_remove, SecondRead, Usable, Leave, Call, Goto, TypeOK,
              CallShape, LockShape, LifecycleShape, AttachShape, Alive,
              Listed, ScheduleSteps, DeinitSteps, InitSteps
<1>8. ASSUME NEW p \in Procs, UseBadPointer(p) PROVE AttachShape'
  BY <1>8 DEF UseBadPointer, Fault, Leave, Call, Goto, TypeOK, CallShape,
              LockShape, LifecycleShape, AttachShape, Alive, Listed,
              ScheduleSteps, DeinitSteps, InitSteps
<1>9. ASSUME NEW p \in Procs, SignalTest(p) PROVE AttachShape'
  BY <1>9, SignalTestForm, AttachMove
<1>10. ASSUME NEW p \in Procs, SignalPost(p) PROVE AttachShape'
  BY <1>10 DEF SignalPost, Leave, Call, Goto, TypeOK, CallShape, LockShape,
               LifecycleShape, AttachShape, Alive, Listed, ScheduleSteps,
               DeinitSteps, InitSteps
<1>11. ASSUME NEW p \in Procs, DeinitRemove(p) PROVE AttachShape'
  BY <1>11 DEF DeinitRemove, Goto, TypeOK, CallShape, LockShape,
               LifecycleShape, AttachShape, Alive, Listed, ScheduleSteps,
               DeinitSteps, InitSteps
<1>12. ASSUME NEW p \in Procs, workqueue_detach(p) PROVE AttachShape'
  <2> DEFINE w == queue[p]
  <2>1. /\ pc[p] = "detach"
        /\ w \in Queues
        /\ item[p] \in Items
        /\ Alive(w)
        /\ workItems' = [workItems EXCEPT ![w] = @ \ {item[p]}]
        /\ UNCHANGED <<workerAt, wq>>
        /\ \/ /\ workItems[w] \ {item[p]} = {}
              /\ shouldExit' = [shouldExit EXCEPT ![w] = TRUE]
              /\ Call(p, "detach_signal", item[p], w)
           \/ /\ workItems[w] \ {item[p]} # {}
              /\ UNCHANGED shouldExit
              /\ \/ Call(p, "nodes", item[p], NULL)
                 \/ Call(p, "idle", NULL, NULL)
    BY <1>12, DetachForm
  <2> HIDE DEF w
  <2>2. \A v \in Queues :
          workItems'[v] = IF v = w THEN workItems[w] \ {item[p]}
                          ELSE workItems[v]
    BY <2>1 DEF TypeOK
  <2>3. /\ shouldExit'[w] => workItems'[w] = {}
        /\ shouldExit[w] => shouldExit'[w]
        /\ \A v \in Queues \ {w} : shouldExit'[v] = shouldExit[v]
    <3>1. CASE workItems[w] \ {item[p]} = {}
      BY <2>1, <2>2, <3>1 DEF TypeOK
    <3>2. CASE workItems[w] \ {item[p]} # {}
      BY <2>1, <2>2, <3>2 DEF AttachShape
    <3> QED
      BY <3>1, <3>2
  <2>4. \A i \in Items : wq'[i] # NULL => i \in workItems'[wq'[i]]
    BY <2>1, <2>2 DEF LifecycleShape, AttachShape, DeinitSteps, TypeOK
  <2>5. ASSUME NEW r \in Procs, pc'[r] \in {"remove", "detach", "publish"}
        PROVE  item'[r] \in workItems'[queue'[r]]
    <3>1. r # p
      BY <2>1, <2>5 DEF Call, Goto, TypeOK
    <3>2. pc'[r] = pc[r] /\ item'[r] = item[r] /\ queue'[r] = queue[r]
      BY <2>1, <3>1 DEF Call, Goto, TypeOK
    <3>3. /\ queue[r] \in Queues
          /\ pc[r] \in DeinitSteps \cup InitSteps
          /\ pc[p] \in DeinitSteps \cup InitSteps
      BY <2>1, <2>5, <3>2 DEF CallShape, DeinitSteps, InitSteps
    <3>4. item[r] # item[p]
      BY <3>1, <3>3 DEF LifecycleShape
    <3> QED
      BY <2>2, <2>5, <3>2, <3>3, <3>4 DEF AttachShape
  <2>6. ASSUME NEW r \in Procs, pc'[r] \in {"detach_signal", "detach_post"}
        PROVE  Alive(queue[r])'
    <3>1. CASE r = p
      <4>1. queue'[p] = w
        BY <2>1, <2>6, <3>1 DEF Call, Goto, TypeOK
      <4> QED
        BY <2>1, <3>1, <4>1 DEF Alive, Listed
    <3>2. CASE r # p
      <4>1. pc'[r] = pc[r] /\ queue'[r] = queue[r]
        BY <2>1, <3>2 DEF Call, Goto, TypeOK
      <4> QED
        BY <2>1, <2>6, <4>1 DEF AttachShape, Alive, Listed
    <3> QED
      BY <3>1, <3>2
  <2>7. ASSUME NEW v \in Queues
        PROVE  /\ shouldExit'[v] => workItems'[v] = {}
               /\ workItems'[v] # {} => workerAt'[v] # "absent"
               /\ workerAt'[v] \in {"unlist", "deinit", "gone"}
                    => shouldExit'[v]
    <3>1. CASE v = w
      BY <2>1, <2>2, <2>3, <3>1 DEF AttachShape
    <3>2. CASE v # w
      BY <2>1, <2>2, <2>3, <3>2 DEF AttachShape
    <3> QED
      BY <3>1, <3>2
  <2> QED
    BY <2>4, <2>5, <2>6, <2>7 DEF AttachShape
<1>13. ASSUME NEW p \in Procs, DetachTest(p) PROVE AttachShape'
  BY <1>13, DetachTestForm, AttachMove
<1>14. ASSUME NEW p \in Procs, DetachPost(p) PROVE AttachShape'
  BY <1>14, DetachPostForm, AttachMove
<1>15. ASSUME NEW p \in Procs, InitNodes(p) PROVE AttachShape'
  BY <1>15 DEF InitNodes, Goto, TypeOK, CallShape, LockShape, LifecycleShape,
               AttachShape, Alive, Listed, ScheduleSteps, DeinitSteps,
               InitSteps
<1>16. ASSUME NEW p \in Procs, InitQueuedNode(p) PROVE AttachShape'
  BY <1>16 DEF InitQueuedNode, Fault, Leave, Call, Goto, TypeOK, CallShape,
               LockShape, LifecycleShape, AttachShape, Alive, Listed,
               ScheduleSteps, DeinitSteps, InitSteps
<1>17. ASSUME NEW p \in Procs, FindOrCreate(p) PROVE AttachShape'
  BY <1>17, FindForm, AttachMove
<1>18. ASSUME NEW p \in Procs, workqueue_attach(p) PROVE AttachShape'
  <2>1. CASE Call(p, "idle", NULL, NULL) /\ UNCHANGED workItems
    BY <1>18, <2>1, AttachForm, AttachMove
  <2>2. CASE ~(Call(p, "idle", NULL, NULL) /\ UNCHANGED workItems)
    <3>1. /\ queue[p] \in Queues
          /\ item[p] \in Items
          /\ Alive(queue[p])
          /\ ~shouldExit[queue[p]]
          /\ workItems' = [workItems EXCEPT ![queue[p]] = @ \cup {item[p]}]
          /\ Call(p, "publish", item[p], queue[p])
          /\ pc[p] = "attach"
          /\ UNCHANGED <<shouldExit, workerAt, wq>>
      BY <1>18, <2>2, AttachForm
    <3> QED
      BY <3>1 DEF AttachShape, Alive, Listed, Call, Goto, TypeOK
  <2> QED
    BY <2>1, <2>2
<1>19. ASSUME NEW p \in Procs, InitPublish(p) PROVE AttachShape'
  BY <1>19 DEF InitPublish, Leave, Call, Goto, TypeOK, CallShape, LockShape,
               LifecycleShape, AttachShape, Alive, Listed, ScheduleSteps,
               DeinitSteps, InitSteps
<1>20. ASSUME NEW p \in Procs, UseDestroyed(p) PROVE AttachShape'
  BY <1>20 DEF UseDestroyed, Fault, Leave, Call, Goto, TypeOK, CallShape,
               LockShape, LifecycleShape, AttachShape, Alive, Listed,
               ScheduleSteps, DeinitSteps, InitSteps
<1>21. ASSUME NEW w \in Queues, WorkerStart(w) PROVE AttachShape'
  BY <1>21 DEF WorkerStart, TypeOK, CallShape, LockShape, LifecycleShape,
               AttachShape, Alive, Listed, ScheduleSteps, DeinitSteps,
               InitSteps
<1>22. ASSUME NEW w \in Queues, RunCheck(w) PROVE AttachShape'
  BY <1>22 DEF RunCheck, TypeOK, CallShape, LockShape, LifecycleShape,
               AttachShape, Alive, Listed, ScheduleSteps, DeinitSteps,
               InitSteps
<1>23. ASSUME NEW w \in Queues, RunWait(w) PROVE AttachShape'
  BY <1>23 DEF RunWait, TypeOK, CallShape, LockShape, LifecycleShape,
               AttachShape, Alive, Listed, ScheduleSteps, DeinitSteps,
               InitSteps
<1>24. ASSUME NEW w \in Queues, RunPop(w) PROVE AttachShape'
  <2>1. PICK l \in {"check", "run"} : workerAt' = [workerAt EXCEPT ![w] = l]
    BY <1>24 DEF RunPop
  <2>2. workerAt[w] = "pop" /\ UNCHANGED <<workItems, shouldExit, wq,
     callVars>>
    BY <1>24 DEF RunPop
  <2> QED
    BY <2>1, <2>2 DEF TypeOK, CallShape, DeinitSteps, AttachShape, Alive,
                      Listed
<1>25. ASSUME NEW w \in Queues, EntryReturns(w) PROVE AttachShape'
  BY <1>25 DEF EntryReturns, TypeOK, CallShape, LockShape, LifecycleShape,
               AttachShape, Alive, Listed, ScheduleSteps, DeinitSteps,
               InitSteps
<1>26. ASSUME NEW w \in Queues, RunnerUnlist(w) PROVE AttachShape'
  BY <1>26 DEF RunnerUnlist, TypeOK, CallShape, LockShape, LifecycleShape,
               AttachShape, Alive, Listed, ScheduleSteps, DeinitSteps,
               InitSteps
<1>27. ASSUME NEW w \in Queues, workqueue_deinit(w) PROVE AttachShape'
  BY <1>27 DEF workqueue_deinit, TypeOK, CallShape, LockShape, LifecycleShape,
               AttachShape, Alive, Listed, ScheduleSteps, DeinitSteps,
               InitSteps
<1>28. ASSUME NEW w \in Queues, workqueue_clear(w) PROVE AttachShape'
  BY <1>28 DEF workqueue_clear, TypeOK, CallShape, LockShape, LifecycleShape,
               AttachShape, Alive, Listed, ScheduleSteps, DeinitSteps,
               InitSteps
<1>29. ASSUME NEW i \in Items, InterruptSchedules(i) PROVE AttachShape'
  BY <1>29 DEF InterruptSchedules, Push, Elsewhere, TypeOK, CallShape,
               LockShape, LifecycleShape, AttachShape, Alive, Listed,
               ScheduleSteps, DeinitSteps, InitSteps
<1> QED
  BY <1>1, <1>2, <1>3, <1>4, <1>5, <1>6, <1>7, <1>8, <1>9, <1>10, <1>11,
     <1>12, <1>13, <1>14, <1>15, <1>16, <1>17, <1>18, <1>19, <1>20, <1>21,
     <1>22, <1>23, <1>24, <1>25, <1>26, <1>27, <1>28, <1>29 DEF Next,
                                                                StartCall,
                                                                CallStep,
                                                                Worker

(* Dropping from the empty queue leaves it empty. *)
LEMMA DropFromEmpty == \A e : Drop(<<>>, e) = <<>>
BY DEF Drop, Has

(* WakeupShape is kept by a move of a call that touches no queue, if the   *)
(* call is not a signal, or is one that goes on or is no longer needed.    *)
LEMMA WakeupQuiet ==
  ASSUME TypeOK, WakeupShape, NEW p \in Procs, NEW l, NEW i, NEW w,
         Call(p, l, i, w), UNCHANGED <<q, processLock, workerAt, shouldExit>>,
         pc[p] \in SignalSteps =>
           \/ ~Alive(queue[p])
           \/ processLock[queue[p]] > 0
           \/ l \in SignalSteps /\ w = queue[p]
  PROVE  WakeupShape'
<1>1. \A v \in Queues :
        /\ processLock'[v] \in Nat /\ processLock'[v] >= processLock[v]
        /\ q'[v] # <<>> => q[v] # <<>>
  BY DEF TypeOK
<1> QED
  BY <1>1, WakeupMove

(* WakeupShape is kept by a worker that moves on, if it goes to the test   *)
(* of should_exit or to sleep only as workqueue_run does.                  *)
LEMMA WakeupWorker ==
  ASSUME TypeOK, WakeupShape, NEW w \in Queues, NEW l \in WorkerSteps,
         workerAt' = [workerAt EXCEPT ![w] = l],
         UNCHANGED <<shouldExit, callVars>>,
         \A v \in Queues \ {w} :
           processLock'[v] = processLock[v] /\ q'[v] = q[v],
         l # "absent",
         l \in {"check", "wait"} =>
           /\ processLock'[w] = processLock[w]
           /\ q'[w] # <<>> => /\ workerAt[w] \in {"check", "wait"}
                              /\ q[w] # <<>>,
         l = "wait" => ~shouldExit[w]
  PROVE  WakeupShape'
<1> SUFFICES ASSUME NEW v \in Queues
             PROVE  /\ q'[v] # <<>> => workerAt'[v] # "absent"
                    /\ workerAt'[v] \in {"check", "wait"} /\ q'[v] # <<>>
                         => Signalled(v)'
                    /\ workerAt'[v] = "wait" /\ shouldExit'[v]
                         => Signalled(v)'
  BY DEF WakeupShape
<1>1. processLock'[v] = processLock[v] /\ Signalled(v) => Signalled(v)'
  BY SignalledStays DEF TypeOK
<1>2. CASE v = w
  BY <1>1, <1>2 DEF WakeupShape, TypeOK
<1>3. CASE v # w
  BY <1>1, <1>3 DEF WakeupShape, TypeOK
<1> QED
  BY <1>2, <1>3

(* Every step keeps WakeupShape. *)
LEMMA WakeupStep ==
  ASSUME TypeOK, CallShape, AttachShape, WakeupShape, Next
  PROVE  WakeupShape'
<1>1. ASSUME NEW p \in Procs, NEW i \in Items,
             workitem_schedule_now(p, i)
      PROVE  WakeupShape'
  <2>1. /\ Call(p, "add", i, wq[i])
        /\ pc[p] = "idle"
        /\ UNCHANGED <<q, processLock, workerAt, shouldExit>>
    BY <1>1 DEF workitem_schedule_now, CanCall
  <2> QED
    BY <2>1, WakeupQuiet DEF SignalSteps
<1>2. ASSUME NEW p \in Procs, NEW i \in Items,
             workitem_schedule_clear(p, i)
      PROVE  WakeupShape'
  <2>1. /\ Call(p, "clear", i, wq[i])
        /\ pc[p] = "idle"
        /\ UNCHANGED <<q, processLock, workerAt, shouldExit>>
    BY <1>2 DEF workitem_schedule_clear, CanCall
  <2> QED
    BY <2>1, WakeupQuiet DEF SignalSteps
<1>3. ASSUME NEW p \in Procs, NEW i \in Items,
             workitem_deinit(p, i)
      PROVE  WakeupShape'
  <2>1. /\ Call(p, "remove", i, wq[i])
        /\ pc[p] = "idle"
        /\ UNCHANGED <<q, processLock, workerAt, shouldExit>>
    BY <1>3 DEF workitem_deinit, CanCall
  <2> QED
    BY <2>1, WakeupQuiet DEF SignalSteps
<1>4. ASSUME NEW p \in Procs, NEW i \in Items,
             workitem_init(p, i)
      PROVE  WakeupShape'
  <2>1. /\ Call(p, IF wq[i] # NULL THEN "remove" ELSE "nodes", i, wq[i])
        /\ pc[p] = "idle"
        /\ UNCHANGED <<q, processLock, workerAt, shouldExit>>
    BY <1>4 DEF workitem_init, CanCall
  <2> QED
    BY <2>1, WakeupQuiet DEF SignalSteps
<1>5. ASSUME NEW p \in Procs, NEW i \in Items, NEW j \in Items,
             workitem_init_method2(p, i, j)
      PROVE  WakeupShape'
  <2>1. /\ Call(p, "attach", i, wq[j])
        /\ pc[p] = "idle"
        /\ UNCHANGED <<q, processLock, workerAt, shouldExit>>
    BY <1>5 DEF workitem_init_method2, CanCall
  <2> QED
    BY <2>1, WakeupQuiet DEF SignalSteps
<1>6. ASSUME NEW p \in Procs, workqueue_add(p) PROVE WakeupShape'
  <2>0. PICK w \in SecondRead(p) :
          /\ Usable(p, w)
          /\ q' = [q EXCEPT ![w] = Push(@, item[p])]
          /\ Call(p, "signal", item[p], w)
    BY <1>6 DEF workqueue_add
  <2>1. w \in Queues
    BY <1>6, <2>0 DEF workqueue_add, SecondRead, Usable, CallShape,
                    ScheduleSteps, TypeOK
  <2>2. UNCHANGED <<workerAt, processLock, shouldExit>> /\ pc[p] = "add"
    BY <1>6 DEF workqueue_add
  <2>3. Signalled(w)'
    <3>1. pc'[p] = "signal" /\ queue'[p] = w
      BY <2>0 DEF Call, Goto, TypeOK
    <3> QED
      BY <3>1 DEF Signalled, SignalSteps
  <2>4. workerAt[w] # "absent"
    BY <2>0 DEF Usable, Alive, Listed
  <2>5. ASSUME NEW v \in Queues, v # w, Signalled(v) PROVE Signalled(v)'
    <3>1. /\ processLock'[v] \in Nat /\ processLock'[v] >= processLock[v]
          /\ pc[p] \notin SignalSteps
      BY <2>2 DEF SignalSteps, TypeOK
    <3> QED
      BY <2>0, <2>5, <3>1, SignalledMove
  <2>6. \A v \in Queues \ {w} : q'[v] = q[v]
    BY <2>0 DEF TypeOK
  <2> QED
    BY <2>1, <2>2, <2>3, <2>4, <2>5, <2>6 DEF WakeupShape
<1>7. ASSUME NEW p \in Procs, workqueue_remove(p) PROVE WakeupShape'
  <2>1. /\ Call(p, "idle", NULL, NULL)
        /\ pc[p] = "clear"
        /\ UNCHANGED <<processLock, workerAt, shouldExit>>
    BY <1>7 DEF workqueue_remove, Leave
  <2>2. \A v \in Queues :
          /\ processLock'[v] \in Nat /\ processLock'[v] >= processLock[v]
          /\ q'[v] # <<>> => q[v] # <<>>
    BY <1>7, <2>1, DropFromEmpty DEF workqueue_remove, TypeOK
  <2> QED
    BY <2>1, <2>2, WakeupMove DEF SignalSteps
<1>8. ASSUME NEW p \in Procs, UseBadPointer(p) PROVE WakeupShape'
  <2>1. /\ Call(p, "fault", NULL, NULL)
        /\ pc[p] \in {"add", "clear"}
        /\ UNCHANGED <<q, processLock, workerAt, shouldExit>>
    BY <1>8 DEF UseBadPointer, Fault, Leave
  <2> QED
    BY <2>1, WakeupQuiet DEF SignalSteps
<1>9. ASSUME NEW p \in Procs, SignalTest(p) PROVE WakeupShape'
  <2>1. /\ \/ Call(p, "post", item[p], queue[p])
           \/ processLock[queue[p]] > 0 /\ Call(p, "idle", NULL, NULL)
        /\ pc[p] = "signal"
        /\ UNCHANGED <<q, processLock, workerAt, shouldExit>>
    BY <1>9, SignalTestForm
  <2> QED
    BY <2>1, WakeupQuiet DEF SignalSteps
<1>10. ASSUME NEW p \in Procs, SignalPost(p) PROVE WakeupShape'
  <2>1. queue[p] \in Queues
    BY <1>10 DEF SignalPost, CallShape, ScheduleSteps
  <2>2. \A v \in Queues :
          processLock'[v] = IF v = queue[p] THEN processLock[v] + 1
                            ELSE processLock[v]
    BY <1>10, <2>1 DEF SignalPost, TypeOK
  <2>3. /\ processLock'[queue[p]] > 0
        /\ \A v \in Queues : processLock'[v] \in Nat
                              /\ processLock'[v] >= processLock[v]
    BY <2>1, <2>2 DEF TypeOK
  <2> QED
    BY <1>10, <2>3, WakeupMove DEF SignalPost, Leave
<1>11. ASSUME NEW p \in Procs, DeinitRemove(p) PROVE WakeupShape'
  <2>1. /\ Call(p, "detach", item[p], queue[p])
        /\ pc[p] = "remove"
        /\ UNCHANGED <<processLock, workerAt, shouldExit>>
    BY <1>11, GotoForm DEF DeinitRemove
  <2>2. \A v \in Queues :
          /\ processLock'[v] \in Nat /\ processLock'[v] >= processLock[v]
          /\ q'[v] # <<>> => q[v] # <<>>
    BY <1>11, <2>1, DropFromEmpty DEF DeinitRemove, TypeOK
  <2> QED
    BY <2>1, <2>2, WakeupMove DEF SignalSteps
<1>12. ASSUME NEW p \in Procs, workqueue_detach(p) PROVE WakeupShape'
  <2>0. PICK w \in Queues : w = queue[p]
    BY <1>12 DEF workqueue_detach, CallShape, DeinitSteps
  <2>1. CASE UNCHANGED shouldExit
    <3>1. /\ \/ Call(p, "detach_signal", item[p], w)
             \/ Call(p, "nodes", item[p], NULL)
             \/ Call(p, "idle", NULL, NULL)
          /\ pc[p] = "detach"
          /\ UNCHANGED <<q, processLock, workerAt, shouldExit>>
      BY <1>12, <2>0, <2>1, DetachForm
    <3> QED
      BY <3>1, WakeupQuiet DEF SignalSteps
  <2>2. CASE ~(UNCHANGED shouldExit)
    <3>1. /\ w \in Queues
          /\ shouldExit' = [shouldExit EXCEPT ![w] = TRUE]
          /\ Call(p, "detach_signal", item[p], w)
          /\ pc[p] = "detach"
          /\ UNCHANGED <<q, processLock, workerAt>>
      BY <1>12, <2>0, <2>2, DetachForm
    <3>2. Signalled(w)'
      <4>1. pc'[p] = "detach_signal" /\ queue'[p] = w
        BY <3>1 DEF Call, Goto, TypeOK
      <4> QED
        BY <4>1 DEF Signalled, SignalSteps
    <3>3. ASSUME NEW v \in Queues, v # w, Signalled(v) PROVE Signalled(v)'
      <4>1. /\ processLock'[v] \in Nat /\ processLock'[v] >= processLock[v]
            /\ pc[p] \notin SignalSteps
        BY <3>1 DEF SignalSteps, TypeOK
      <4> QED
        BY <3>1, <3>3, <4>1, SignalledMove
    <3>4. \A v \in Queues \ {w} : shouldExit'[v] = shouldExit[v]
      BY <3>1 DEF TypeOK
    <3> QED
      BY <2>0, <3>1, <3>2, <3>3, <3>4 DEF WakeupShape
  <2> QED
    BY <2>1, <2>2
<1>13. ASSUME NEW p \in Procs, DetachTest(p) PROVE WakeupShape'
  <2>1. /\ \/ Call(p, "detach_post", item[p], queue[p])
           \/ /\ processLock[queue[p]] > 0
              /\ \/ Call(p, "nodes", item[p], NULL)
                 \/ Call(p, "idle", NULL, NULL)
        /\ pc[p] = "detach_signal"
        /\ UNCHANGED <<q, processLock, workerAt, shouldExit>>
    BY <1>13, DetachTestForm
  <2> QED
    BY <2>1, WakeupQuiet DEF SignalSteps
<1>14. ASSUME NEW p \in Procs, DetachPost(p) PROVE WakeupShape'
  <2>1. /\ queue[p] \in Queues
        /\ \/ Call(p, "nodes", item[p], NULL)
           \/ Call(p, "idle", NULL, NULL)
        /\ processLock' = [processLock EXCEPT ![queue[p]] = @ + 1]
        /\ UNCHANGED <<q, workerAt, shouldExit>>
    BY <1>14, DetachPostForm
  <2>2. \A v \in Queues :
          processLock'[v] = IF v = queue[p] THEN processLock[v] + 1
                            ELSE processLock[v]
    BY <2>1 DEF TypeOK
  <2>3. /\ processLock'[queue[p]] > 0
        /\ \A v \in Queues :
             /\ processLock'[v] \in Nat /\ processLock'[v] >= processLock[v]
             /\ q'[v] # <<>> => q[v] # <<>>
    BY <2>1, <2>2 DEF TypeOK
  <2> QED
    BY <2>1, <2>3, WakeupMove
<1>15. ASSUME NEW p \in Procs, InitNodes(p) PROVE WakeupShape'
  <2>1. /\ Call(p, "find", item[p], queue[p])
        /\ pc[p] = "nodes"
        /\ UNCHANGED <<q, processLock, workerAt, shouldExit>>
    BY <1>15, GotoForm DEF InitNodes
  <2> QED
    BY <2>1, WakeupQuiet DEF SignalSteps
<1>16. ASSUME NEW p \in Procs, InitQueuedNode(p) PROVE WakeupShape'
  <2>1. /\ Call(p, "fault", NULL, NULL)
        /\ pc[p] = "nodes"
        /\ UNCHANGED <<q, processLock, workerAt, shouldExit>>
    BY <1>16 DEF InitQueuedNode, Fault, Leave
  <2> QED
    BY <2>1, WakeupQuiet DEF SignalSteps
<1>17. ASSUME NEW p \in Procs, FindOrCreate(p) PROVE WakeupShape'
  <2>1. /\ \/ \E w \in Queues : Call(p, "attach", item[p], w)
           \/ Call(p, "idle", NULL, NULL)
        /\ pc[p] = "find"
        /\ UNCHANGED <<q, processLock, workerAt, shouldExit>>
    BY <1>17, FindForm
  <2> QED
    BY <2>1, WakeupQuiet DEF SignalSteps
<1>18. ASSUME NEW p \in Procs, workqueue_attach(p) PROVE WakeupShape'
  <2>1. /\ \/ Call(p, "publish", item[p], queue[p])
           \/ Call(p, "idle", NULL, NULL)
        /\ pc[p] = "attach"
        /\ UNCHANGED <<q, processLock, workerAt, shouldExit>>
    BY <1>18, AttachForm
  <2> QED
    BY <2>1, WakeupQuiet DEF SignalSteps
<1>19. ASSUME NEW p \in Procs, InitPublish(p) PROVE WakeupShape'
  <2>1. /\ Call(p, "idle", NULL, NULL)
        /\ pc[p] = "publish"
        /\ UNCHANGED <<q, processLock, workerAt, shouldExit>>
    BY <1>19 DEF InitPublish, Leave
  <2> QED
    BY <2>1, WakeupQuiet DEF SignalSteps
<1>20. ASSUME NEW p \in Procs, UseDestroyed(p) PROVE WakeupShape'
  <2>1. /\ Call(p, "fault", NULL, NULL)
        /\ ~Alive(queue[p])
        /\ UNCHANGED <<q, processLock, workerAt, shouldExit>>
    BY <1>20 DEF UseDestroyed, Fault, Leave
  <2> QED
    BY <2>1, WakeupQuiet DEF SignalSteps
<1>21. ASSUME NEW w \in Queues, WorkerStart(w) PROVE WakeupShape'
  BY <1>21, WakeupWorker DEF WorkerStart, WorkerSteps, WakeupShape
<1>22. ASSUME NEW w \in Queues, RunCheck(w) PROVE WakeupShape'
  <2>1. CASE shouldExit[w]
    BY <1>22, <2>1, WakeupWorker DEF RunCheck, WorkerSteps
  <2>2. CASE ~shouldExit[w]
    BY <1>22, <2>2, WakeupWorker DEF RunCheck, WorkerSteps
  <2> QED
    BY <2>1, <2>2
<1>23. ASSUME NEW w \in Queues, RunWait(w) PROVE WakeupShape'
  BY <1>23, WakeupWorker DEF RunWait, WorkerSteps, TypeOK
<1>24. ASSUME NEW w \in Queues, RunPop(w) PROVE WakeupShape'
  <2>1. CASE q[w] = <<>>
    BY <1>24, <2>1, WakeupWorker DEF RunPop, WorkerSteps
  <2>2. CASE q[w] # <<>>
    <3>1. \A v \in Queues \ {w} : q'[v] = q[v]
      BY <1>24, <2>2 DEF RunPop, TypeOK
    <3>2. workerAt' = [workerAt EXCEPT ![w] = "run"]
      BY <1>24, <2>2 DEF RunPop
    <3>3. UNCHANGED <<processLock, shouldExit, callVars>>
      BY <1>24 DEF RunPop
    <3> QED
      BY <3>1, <3>2, <3>3, WakeupWorker DEF WorkerSteps
  <2> QED
    BY <2>1, <2>2
<1>25. ASSUME NEW w \in Queues, EntryReturns(w) PROVE WakeupShape'
  BY <1>25, WakeupWorker DEF EntryReturns, WorkerSteps
<1>26. ASSUME NEW w \in Queues, RunnerUnlist(w) PROVE WakeupShape'
  BY <1>26, WakeupWorker DEF RunnerUnlist, WorkerSteps
<1>27. ASSUME NEW w \in Queues, workqueue_deinit(w) PROVE WakeupShape'
  BY <1>27, WakeupWorker DEF workqueue_deinit, WorkerSteps
<1>28. ASSUME NEW w \in Queues, workqueue_clear(w) PROVE WakeupShape'
  <2>1. \A v \in Queues : q'[v] # <<>> => q[v] # <<>>
    BY <1>28 DEF workqueue_clear, TypeOK
  <2>2. UNCHANGED <<processLock, shouldExit, workerAt, callVars>>
    BY <1>28 DEF workqueue_clear
  <2>3. ASSUME NEW v \in Queues, Signalled(v) PROVE Signalled(v)'
    BY <2>2, <2>3 DEF Signalled
  <2> QED
    BY <2>1, <2>2, <2>3 DEF WakeupShape
<1>29. ASSUME NEW i \in Items, InterruptSchedules(i) PROVE WakeupShape'
  <2>1. PICK w \in Queues : w = wq[i]
    BY <1>29 DEF InterruptSchedules, TypeOK
  <2>2. /\ UNCHANGED <<shouldExit, workerAt, callVars>>
        /\ q' = [q EXCEPT ![w] = Push(@, i)]
        /\ processLock' = [processLock EXCEPT ![w] =
                             IF @ <= 0 THEN @ + 1 ELSE @]
    BY <1>29, <2>1 DEF InterruptSchedules
  <2>3. processLock'[w] = IF processLock[w] <= 0 THEN processLock[w] + 1
                          ELSE processLock[w]
    BY <2>2 DEF TypeOK
  <2>4. processLock'[w] > 0
    BY <2>3 DEF TypeOK
  <2>5. \A v \in Queues \ {w} : processLock'[v] = processLock[v] /\ q'[v] = q[v]
    BY <2>2 DEF TypeOK
  <2>6. workerAt[w] # "absent"
    BY <2>1, DistinctNames DEF AttachShape
  <2>7. Signalled(w)'
    BY <2>4 DEF Signalled
  <2>8. ASSUME NEW v \in Queues, v # w, Signalled(v) PROVE Signalled(v)'
    BY <2>2, <2>5, <2>8 DEF Signalled
  <2> QED
    BY <2>2, <2>5, <2>6, <2>7, <2>8 DEF WakeupShape
<1> QED
  BY <1>1, <1>2, <1>3, <1>4, <1>5, <1>6, <1>7, <1>8, <1>9, <1>10, <1>11,
     <1>12, <1>13, <1>14, <1>15, <1>16, <1>17, <1>18, <1>19, <1>20, <1>21,
     <1>22, <1>23, <1>24, <1>25, <1>26, <1>27, <1>28, <1>29 DEF Next,
                                                                StartCall,
                                                                CallStep,
                                                                Worker

-----------------------------------------------------------------------------
(***************************************************************************)
(* WorkQueueInv holds in every reachable state.                            *)
(***************************************************************************)
THEOREM WorkQueueInvariant == Spec => []WorkQueueInv
<1>1. Init => WorkQueueInv
  BY InitInv
<1>2. WorkQueueInv /\ [Next]_vars => WorkQueueInv'
  <2> SUFFICES ASSUME WorkQueueInv, [Next]_vars PROVE WorkQueueInv'
    OBVIOUS
  <2>1. CASE Next
    BY <2>1, TypeStep, CallShapeStep, LockShapeStep, LifecycleStep,
       AttachShapeStep, WakeupStep DEF WorkQueueInv
  <2>2. CASE UNCHANGED vars
    <3>1. TypeOK' /\ CallShape' /\ LockShape' /\ LifecycleShape'
      BY <2>2 DEF vars, WorkQueueInv, TypeOK, CallShape, LockShape,
                  LifecycleShape
    <3>2. AttachShape' /\ WakeupShape'
      BY <2>2 DEF vars, WorkQueueInv, AttachShape, WakeupShape, Alive, Listed,
                  Signalled
    <3> QED
      BY <3>1, <3>2 DEF WorkQueueInv
  <2> QED
    BY <2>1, <2>2
<1> QED
  BY <1>1, <1>2, PTL DEF Spec

(***************************************************************************)
(* Every variable of the work-queue model keeps its type; in particular    *)
(* the count of the semaphore never goes below zero.                       *)
(***************************************************************************)
THEOREM TypeCorrect == Spec => []TypeOK
<1>1. WorkQueueInv => TypeOK
  BY DEF WorkQueueInv
<1> QED
  BY <1>1, WorkQueueInvariant, PTL

(***************************************************************************)
(* The worker of workqueue_run never sleeps for good on pending work or on *)
(* a pending stop request, for any numbers of items, threads and queues.   *)
(***************************************************************************)
THEOREM WakeupsAreNotLost == Spec => []NoLostWakeup
<1>1. WorkQueueInv => NoLostWakeup
  BY DEF WorkQueueInv, WakeupShape, NoLostWakeup
<1> QED
  BY <1>1, WorkQueueInvariant, PTL

(* WorkQueueInv keeps the queues in use alive. *)
LEMMA UseIsAlive ==
  ASSUME WorkQueueInv
  PROVE  InUseIsAlive
<1>1. ASSUME NEW w \in Queues, workItems[w] # {}
      PROVE  Alive(w) /\ ~shouldExit[w]
  BY <1>1 DEF WorkQueueInv, AttachShape, Alive, Listed, TypeOK,
                    WorkerSteps
<1>2. ASSUME NEW i \in Items, wq[i] # NULL
      PROVE  Alive(wq[i]) /\ ~shouldExit[wq[i]]
  BY <1>1, <1>2 DEF WorkQueueInv, AttachShape, TypeOK
<1>3. ASSUME NEW p \in Procs, pc[p] \in {"remove", "detach", "publish"}
      PROVE  Alive(queue[p]) /\ ~shouldExit[queue[p]]
  <2>1. queue[p] \in Queues
    BY <1>3 DEF WorkQueueInv, CallShape, DeinitSteps
  <2> QED
    BY <1>1, <1>3, <2>1 DEF WorkQueueInv, AttachShape
<1>4. ASSUME NEW p \in Procs, pc[p] \in {"detach_signal", "detach_post"}
      PROVE  Alive(queue[p])
  BY <1>4 DEF WorkQueueInv, AttachShape
<1> QED
  BY <1>2, <1>3, <1>4 DEF InUseIsAlive, DeinitSteps

(***************************************************************************)
(* workqueue_deinit destroys no queue that an item points to or that an    *)
(* item's deinit or init is still working on.                              *)
(***************************************************************************)
THEOREM QueuesInUseAreAlive == Spec => []InUseIsAlive
BY UseIsAlive, WorkQueueInvariant, PTL

-----------------------------------------------------------------------------
(* Calls that keep to the rule that no schedule of an item overlaps its    *)
(* init or deinit.                                                         *)

(* ScheduleShape is kept by a move whose new call keeps to the rule, as    *)
(* long as _wq of an item that others schedule stays.                      *)
LEMMA ScheduleMove ==
  ASSUME TypeOK, ScheduleShape, NEW p \in Procs, NEW l, NEW i, NEW w,
         Call(p, l, i, w),
         l \in ScheduleSteps =>
           /\ wq'[i] = w
           /\ \A r \in Procs \ {p} :
                pc[r] \in DeinitSteps \cup InitSteps => item[r] # i,
         l \in DeinitSteps \cup InitSteps =>
           \A r \in Procs \ {p} : pc[r] \in ScheduleSteps => item[r] # i,
         \A r \in Procs \ {p} :
           pc[r] \in ScheduleSteps => wq'[item[r]] = wq[item[r]]
  PROVE  ScheduleShape'
<1>1. /\ pc'[p] = l /\ item'[p] = i /\ queue'[p] = w
      /\ \A r \in Procs \ {p} :
           pc'[r] = pc[r] /\ item'[r] = item[r] /\ queue'[r] = queue[r]
  BY DEF Call, Goto, TypeOK
<1>2. ASSUME NEW a \in Procs, NEW r \in Procs, pc'[a] \in ScheduleSteps,
             pc'[r] \in DeinitSteps \cup InitSteps
      PROVE  item'[a] # item'[r]
  <2>1. a # r
    BY <1>2 DEF ScheduleSteps, DeinitSteps, InitSteps
  <2>2. CASE a = p
    BY <1>1, <1>2, <2>1, <2>2
  <2>3. CASE r = p
    BY <1>1, <1>2, <2>1, <2>3
  <2>4. CASE a # p /\ r # p
    BY <1>1, <1>2, <2>4 DEF ScheduleShape
  <2> QED
    BY <2>2, <2>3, <2>4
<1>3. ASSUME NEW a \in Procs, pc'[a] \in ScheduleSteps
      PROVE  wq'[item'[a]] = queue'[a]
  BY <1>1, <1>3 DEF ScheduleShape
<1> QED
  BY <1>2, <1>3 DEF ScheduleShape

(* Going on within a call, or leaving it, keeps to the rule. *)
LEMMA ScheduleOn ==
  ASSUME TypeOK, ScheduleShape, NEW p \in Procs, NEW l, NEW i, NEW w,
         Call(p, l, i, w), UNCHANGED wq,
         l \in ScheduleSteps =>
           pc[p] \in ScheduleSteps /\ i = item[p] /\ w = queue[p],
         l \in DeinitSteps \cup InitSteps =>
           pc[p] \in DeinitSteps \cup InitSteps /\ i = item[p]
  PROVE  ScheduleShape'
BY ScheduleMove DEF ScheduleShape

(* QueuedShape is kept by a move of a call that has no removal due, when   *)
(* the queues get only items of theirs and _wq of an item changes only     *)
(* from NULL.                                                              *)
LEMMA QueuedMove ==
  ASSUME TypeOK, QueuedShape, NEW p \in Procs, NEW l, NEW i, NEW w,
         Call(p, l, i, w), pc[p] # "remove",
         \A v \in Queues : Distinct(q'[v]),
         \A v \in Queues, e \in Items :
           Has(q'[v], e) => Has(q[v], e) \/ wq'[e] = v,
         \A e \in Items : wq'[e] = wq[e] \/ wq[e] = NULL
  PROVE  QueuedShape'
<1>1. \A r \in Procs \ {p} :
        pc'[r] = pc[r] /\ item'[r] = item[r] /\ queue'[r] = queue[r]
  BY DEF Call, Goto, TypeOK
<1>2. ASSUME NEW v \in Queues, NEW e \in Items, Has(q'[v], e), wq'[e] # v
      PROVE  \E r \in Procs : pc'[r] = "remove" /\ item'[r] = e /\ queue'[r] = v
  <2>1. Has(q[v], e) /\ wq[e] # v
    BY <1>2
  <2>2. PICK r \in Procs : pc[r] = "remove" /\ item[r] = e /\ queue[r] = v
    BY <2>1 DEF QueuedShape
  <2> QED
    BY <1>1, <2>2
<1> QED
  BY <1>2 DEF QueuedShape

(* The same when the queues and _wq stay. *)
LEMMA QueuedOn ==
  ASSUME TypeOK, QueuedShape, NEW p \in Procs, NEW l, NEW i, NEW w,
         Call(p, l, i, w), pc[p] # "remove", UNCHANGED <<q, wq>>
  PROVE  QueuedShape'
BY QueuedMove DEF QueuedShape

(* And when no call moves and the queues get only items of theirs. *)
LEMMA QueuedStays ==
  ASSUME TypeOK, QueuedShape, UNCHANGED <<wq, callVars>>,
         \A v \in Queues : Distinct(q'[v]),
         \A v \in Queues, e \in Items :
           Has(q'[v], e) => Has(q[v], e) \/ wq'[e] = v
  PROVE  QueuedShape'
BY DEF QueuedShape

(* A workitem_deinit or workitem_init that has forgotten the queue of its  *)
(* item has the removal from it due.                                       *)
LEMMA QueuedForget ==
  ASSUME TypeOK, CallShape, QueuedShape, NEW p \in Procs, NEW i \in Items, NEW l,
         Call(p, l, i, wq[i]), pc[p] = "idle",
         wq[i] # NULL => l = "remove",
         wq' = [wq EXCEPT ![i] = NULL], UNCHANGED q
  PROVE  QueuedShape'
<1>1. /\ pc'[p] = l /\ item'[p] = i /\ queue'[p] = wq[i]
      /\ \A r \in Procs \ {p} :
           pc'[r] = pc[r] /\ item'[r] = item[r] /\ queue'[r] = queue[r]
  BY DEF Call, Goto, TypeOK
<1>2. wq'[i] = NULL /\ \A e \in Items \ {i} : wq'[e] = wq[e]
  BY DEF TypeOK
<1>3. ASSUME NEW v \in Queues, NEW e \in Items, Has(q[v], e), wq'[e] # v
      PROVE  \E r \in Procs : pc'[r] = "remove" /\ item'[r] = e /\ queue'[r] = v
  <2>1. CASE wq[e] = v
    <3>1. e = i /\ v # NULL
      BY <1>2, <1>3, <2>1
    <3> QED
      BY <1>1, <2>1, <3>1
  <2>2. CASE wq[e] # v
    <3>1. PICK r \in Procs : pc[r] = "remove" /\ item[r] = e /\ queue[r] = v
      BY <1>3, <2>2 DEF QueuedShape
    <3> QED
      BY <1>1, <3>1
  <2> QED
    BY <2>1, <2>2
<1> QED
  BY <1>3 DEF QueuedShape

(* Pushing an item into a queue of distinct items. *)
LEMMA PushFacts ==
  ASSUME NEW s \in Seq(Items), NEW i \in Items, Distinct(s)
  PROVE  /\ Distinct(Push(s, i))
         /\ \A e : Has(Push(s, i), e) => Has(s, e) \/ e = i
BY AppendFacts DEF Push

(* Without overlap every step keeps ScheduleShape. *)
LEMMA ScheduleStep ==
  ASSUME ~Overlap, TypeOK, CallShape, LifecycleShape, ScheduleShape, Next
  PROVE  ScheduleShape'
<1>1. ASSUME NEW p \in Procs, NEW i \in Items, workitem_schedule_now(p, i)
      PROVE  ScheduleShape'
  <2>1. Call(p, "add", i, wq[i]) /\ UNCHANGED wq
    BY <1>1 DEF workitem_schedule_now
  <2>2. \A r \in Procs : pc[r] \in DeinitSteps \cup InitSteps => item[r] # i
    BY <1>1 DEF workitem_schedule_now, MaySchedule, LifecycleBusy
  <2> QED
    BY <2>1, <2>2, ScheduleMove DEF ScheduleSteps, DeinitSteps, InitSteps
<1>2. ASSUME NEW p \in Procs, NEW i \in Items, workitem_schedule_clear(p, i)
      PROVE  ScheduleShape'
  <2>1. Call(p, "clear", i, wq[i]) /\ UNCHANGED wq
    BY <1>2 DEF workitem_schedule_clear
  <2>2. \A r \in Procs : pc[r] \in DeinitSteps \cup InitSteps => item[r] # i
    BY <1>2 DEF workitem_schedule_clear, MaySchedule, LifecycleBusy
  <2> QED
    BY <2>1, <2>2, ScheduleMove DEF ScheduleSteps, DeinitSteps, InitSteps
<1>3. ASSUME NEW p \in Procs, NEW i \in Items, workitem_deinit(p, i)
      PROVE  ScheduleShape'
  <2>1. Call(p, "remove", i, wq[i]) /\ wq' = [wq EXCEPT ![i] = NULL]
    BY <1>3 DEF workitem_deinit
  <2>2. \A r \in Procs : pc[r] \in ScheduleSteps => item[r] # i
    BY <1>3 DEF workitem_deinit, MayChange, ScheduleBusy
  <2>3. \A r \in Procs : pc[r] \in ScheduleSteps => wq'[item[r]] = wq[item[r]]
    BY <2>1, <2>2 DEF CallShape, TypeOK
  <2> QED
    BY <2>1, <2>2, <2>3, ScheduleMove DEF ScheduleSteps, DeinitSteps, InitSteps
<1>4. ASSUME NEW p \in Procs, NEW i \in Items, workitem_init(p, i)
      PROVE  ScheduleShape'
  <2>1. /\ Call(p, IF wq[i] # NULL THEN "remove" ELSE "nodes", i, wq[i])
        /\ wq' = [wq EXCEPT ![i] = NULL]
    BY <1>4 DEF workitem_init
  <2>2. \A r \in Procs : pc[r] \in ScheduleSteps => item[r] # i
    BY <1>4 DEF workitem_init, MayChange, ScheduleBusy
  <2>3. \A r \in Procs : pc[r] \in ScheduleSteps => wq'[item[r]] = wq[item[r]]
    BY <2>1, <2>2 DEF CallShape, TypeOK
  <2> QED
    BY <2>1, <2>2, <2>3, ScheduleMove DEF ScheduleSteps, DeinitSteps, InitSteps
<1>5. ASSUME NEW p \in Procs, NEW i \in Items, NEW j \in Items, workitem_init_method2(p, i, j)
      PROVE  ScheduleShape'
  <2>1. Call(p, "attach", i, wq[j]) /\ UNCHANGED wq
    BY <1>5 DEF workitem_init_method2
  <2>2. \A r \in Procs : pc[r] \in ScheduleSteps => item[r] # i
    BY <1>5 DEF workitem_init_method2, MayChange, ScheduleBusy
  <2> QED
    BY <2>1, <2>2, ScheduleMove DEF ScheduleSteps, DeinitSteps, InitSteps
<1>6. ASSUME NEW p \in Procs, workqueue_add(p)
      PROVE  ScheduleShape'
  <2>1. PICK w \in SecondRead(p) : Call(p, "signal", item[p], w)
    BY <1>6 DEF workqueue_add
  <2>2. pc[p] = "add" /\ UNCHANGED wq
    BY <1>6 DEF workqueue_add
  <2>3. w = queue[p]
    BY <2>2 DEF SecondRead, ScheduleShape, ScheduleSteps
  <2> QED
    BY <2>1, <2>2, <2>3, ScheduleOn DEF ScheduleSteps, DeinitSteps, InitSteps
<1>7. ASSUME NEW p \in Procs, workqueue_remove(p)
      PROVE  ScheduleShape'
  BY <1>7, ScheduleOn DEF workqueue_remove, Leave, ScheduleSteps, DeinitSteps, InitSteps
<1>8. ASSUME NEW p \in Procs, UseBadPointer(p)
      PROVE  ScheduleShape'
  BY <1>8, ScheduleOn DEF UseBadPointer, Fault, Leave, ScheduleSteps, DeinitSteps, InitSteps
<1>9. ASSUME NEW p \in Procs, SignalTest(p)
      PROVE  ScheduleShape'
  BY <1>9, SignalTestForm, ScheduleOn DEF ScheduleSteps, DeinitSteps, InitSteps
<1>10. ASSUME NEW p \in Procs, SignalPost(p)
      PROVE  ScheduleShape'
  BY <1>10, ScheduleOn DEF SignalPost, Leave, ScheduleSteps, DeinitSteps, InitSteps
<1>11. ASSUME NEW p \in Procs, DeinitRemove(p)
      PROVE  ScheduleShape'
  BY <1>11, GotoForm, ScheduleOn DEF DeinitRemove, ScheduleSteps, DeinitSteps, InitSteps
<1>12. ASSUME NEW p \in Procs, workqueue_detach(p)
      PROVE  ScheduleShape'
  BY <1>12, DetachForm, ScheduleOn DEF ScheduleSteps, DeinitSteps, InitSteps
<1>13. ASSUME NEW p \in Procs, DetachTest(p)
      PROVE  ScheduleShape'
  BY <1>13, DetachTestForm, ScheduleOn DEF ScheduleSteps, DeinitSteps, InitSteps
<1>14. ASSUME NEW p \in Procs, DetachPost(p)
      PROVE  ScheduleShape'
  BY <1>14, DetachPostForm, ScheduleOn DEF ScheduleSteps, DeinitSteps, InitSteps
<1>15. ASSUME NEW p \in Procs, InitNodes(p)
      PROVE  ScheduleShape'
  BY <1>15, GotoForm, ScheduleOn DEF InitNodes, ScheduleSteps, DeinitSteps, InitSteps
<1>16. ASSUME NEW p \in Procs, InitQueuedNode(p)
      PROVE  ScheduleShape'
  BY <1>16, ScheduleOn DEF InitQueuedNode, Fault, Leave, ScheduleSteps, DeinitSteps, InitSteps
<1>17. ASSUME NEW p \in Procs, FindOrCreate(p)
      PROVE  ScheduleShape'
  BY <1>17, FindForm, ScheduleOn DEF ScheduleSteps, DeinitSteps, InitSteps
<1>18. ASSUME NEW p \in Procs, workqueue_attach(p)
      PROVE  ScheduleShape'
  BY <1>18, AttachForm, ScheduleOn DEF ScheduleSteps, DeinitSteps, InitSteps
<1>19. ASSUME NEW p \in Procs, InitPublish(p)
      PROVE  ScheduleShape'
  <2>1. /\ pc[p] = "publish"
        /\ wq' = [wq EXCEPT ![item[p]] = queue[p]]
        /\ Call(p, "idle", NULL, NULL)
    BY <1>19 DEF InitPublish, Leave
  <2>2. \A r \in Procs : pc[r] \in ScheduleSteps => item[r] # item[p]
    BY <2>1 DEF ScheduleShape, InitSteps
  <2>3. \A r \in Procs : pc[r] \in ScheduleSteps => wq'[item[r]] = wq[item[r]]
    BY <2>1, <2>2 DEF CallShape, TypeOK
  <2> QED
    BY <2>1, <2>3, ScheduleMove DEF ScheduleSteps, DeinitSteps, InitSteps
<1>20. ASSUME NEW p \in Procs, UseDestroyed(p)
      PROVE  ScheduleShape'
  BY <1>20, ScheduleOn DEF UseDestroyed, Fault, Leave, ScheduleSteps, DeinitSteps, InitSteps
<1>21. ASSUME NEW w \in Queues,
              WorkerStart(w) \/ Worker(w) \/ workqueue_clear(w)
       PROVE  ScheduleShape'
  BY <1>21, OtherFrame DEF ScheduleShape
<1>22. ASSUME NEW i \in Items, InterruptSchedules(i)
       PROVE  ScheduleShape'
  BY <1>22, OtherFrame DEF ScheduleShape
<1> QED
  BY <1>1, <1>2, <1>3, <1>4, <1>5, <1>6, <1>7, <1>8, <1>9, <1>10, <1>11, <1>12, <1>13, <1>14, <1>15, <1>16, <1>17, <1>18, <1>19, <1>20, <1>21, <1>22
     DEF Next, StartCall, CallStep

(* Without overlap every step keeps QueuedShape. *)
LEMMA QueuedStep ==
  ASSUME ~Overlap, WorkQueueInv, ScheduleShape, QueuedShape, Next
  PROVE  QueuedShape'
<1> USE DEF WorkQueueInv
<1>1. ASSUME NEW p \in Procs, NEW i \in Items, workitem_schedule_now(p, i)
      PROVE  QueuedShape'
  BY <1>1, QueuedOn DEF workitem_schedule_now, CanCall
<1>2. ASSUME NEW p \in Procs, NEW i \in Items, workitem_schedule_clear(p, i)
      PROVE  QueuedShape'
  BY <1>2, QueuedOn DEF workitem_schedule_clear, CanCall
<1>3. ASSUME NEW p \in Procs, NEW i \in Items, workitem_deinit(p, i)
      PROVE  QueuedShape'
  BY <1>3, QueuedForget DEF workitem_deinit, CanCall
<1>4. ASSUME NEW p \in Procs, NEW i \in Items, workitem_init(p, i)
      PROVE  QueuedShape'
  BY <1>4, QueuedForget DEF workitem_init, CanCall
<1>5. ASSUME NEW p \in Procs, NEW i \in Items, NEW j \in Items, workitem_init_method2(p, i, j)
      PROVE  QueuedShape'
  BY <1>5, QueuedOn DEF workitem_init_method2, CanCall
<1>6. ASSUME NEW p \in Procs, workqueue_add(p)
      PROVE  QueuedShape'
  <2>1. PICK w \in SecondRead(p) : /\ q' = [q EXCEPT ![w] = Push(@, item[p])]
                                   /\ Call(p, "signal", item[p], w)
    BY <1>6 DEF workqueue_add
  <2>2. pc[p] = "add" /\ UNCHANGED wq
    BY <1>6 DEF workqueue_add
  <2>3. w = queue[p] /\ wq[item[p]] = w /\ w \in Queues /\ item[p] \in Items
    BY <2>2 DEF SecondRead, ScheduleShape, ScheduleSteps, CallShape
  <2>4. q'[w] = Push(q[w], item[p]) /\ \A v \in Queues \ {w} : q'[v] = q[v]
    BY <2>1, <2>3 DEF TypeOK
  <2>5. Distinct(q'[w]) /\ \A e : Has(q'[w], e) => Has(q[w], e) \/ e = item[p]
    BY <2>3, <2>4, PushFacts DEF QueuedShape, TypeOK
  <2>6. /\ \A v \in Queues : Distinct(q'[v])
        /\ \A v \in Queues, e \in Items :
             Has(q'[v], e) => Has(q[v], e) \/ wq'[e] = v
    BY <2>2, <2>3, <2>4, <2>5 DEF QueuedShape
  <2> QED
    BY <2>1, <2>2, <2>6, QueuedMove
<1>7. ASSUME NEW p \in Procs, workqueue_remove(p)
      PROVE  QueuedShape'
  <2>1. PICK w \in SecondRead(p) : q' = [q EXCEPT ![w] = Drop(@, item[p])]
    BY <1>7 DEF workqueue_remove
  <2>2. pc[p] = "clear" /\ UNCHANGED wq /\ Call(p, "idle", NULL, NULL)
    BY <1>7 DEF workqueue_remove, Leave
  <2>3. \A v \in Queues : q'[v] = q[v] \/ q'[v] = Drop(q[v], item[p])
    BY <2>1 DEF TypeOK
  <2>4. ASSUME NEW v \in Queues
        PROVE  Distinct(q'[v]) /\ \A e : Has(q'[v], e) => Has(q[v], e)
    <3>1. q[v] \in Seq(Items) /\ Distinct(q[v])
      BY DEF QueuedShape, TypeOK
    <3>2. CASE q'[v] = q[v]
      BY <3>1, <3>2
    <3>3. CASE q'[v] = Drop(q[v], item[p])
      BY <3>1, <3>3, DropIsSeq, DropDistinct
    <3> QED
      BY <2>3, <3>2, <3>3
  <2> QED
    BY <2>2, <2>4, QueuedMove
<1>8. ASSUME NEW p \in Procs, UseBadPointer(p)
      PROVE  QueuedShape'
  BY <1>8, QueuedOn DEF UseBadPointer, Fault, Leave
<1>9. ASSUME NEW p \in Procs, SignalTest(p)
      PROVE  QueuedShape'
  BY <1>9, SignalTestForm, QueuedOn
<1>10. ASSUME NEW p \in Procs, SignalPost(p)
      PROVE  QueuedShape'
  BY <1>10, QueuedOn DEF SignalPost, Leave
<1>11. ASSUME NEW p \in Procs, DeinitRemove(p)
      PROVE  QueuedShape'
  <2> DEFINE w == queue[p]
  <2>1. /\ pc[p] = "remove"
        /\ q' = [q EXCEPT ![w] = Drop(@, item[p])]
        /\ UNCHANGED <<wq, item, queue>>
        /\ pc' = [pc EXCEPT ![p] = "detach"]
    BY <1>11 DEF DeinitRemove, Goto
  <2>2. w \in Queues /\ item[p] \in Items
    BY <2>1 DEF CallShape, DeinitSteps
  <2>3. q'[w] = Drop(q[w], item[p]) /\ \A v \in Queues \ {w} : q'[v] = q[v]
    BY <2>1, <2>2 DEF TypeOK
  <2>4. /\ Distinct(q'[w]) /\ ~Has(q'[w], item[p])
        /\ \A e : Has(q'[w], e) => Has(q[w], e)
    BY <2>2, <2>3, DropIsSeq, DropDistinct DEF QueuedShape, TypeOK
  <2>5. \A r \in Procs \ {p} : pc'[r] = pc[r]
    BY <2>1 DEF TypeOK
  <2> HIDE DEF w
  <2>6. ASSUME NEW v \in Queues, NEW e \in Items, Has(q'[v], e), wq'[e] # v
        PROVE  \E r \in Procs : pc'[r] = "remove" /\ item'[r] = e /\ queue'[r] = v
    <3>1. Has(q[v], e) /\ wq[e] # v
      BY <2>1, <2>3, <2>4, <2>6
    <3>2. PICK r \in Procs : pc[r] = "remove" /\ item[r] = e /\ queue[r] = v
      BY <3>1 DEF QueuedShape
    <3>3. r # p
      BY <2>4, <2>6, <3>2 DEF w
    <3> QED
      BY <2>1, <2>5, <3>2, <3>3
  <2> QED
    BY <2>3, <2>4, <2>6 DEF QueuedShape
<1>12. ASSUME NEW p \in Procs, workqueue_detach(p)
      PROVE  QueuedShape'
  BY <1>12, DetachForm, QueuedOn
<1>13. ASSUME NEW p \in Procs, DetachTest(p)
      PROVE  QueuedShape'
  BY <1>13, DetachTestForm, QueuedOn
<1>14. ASSUME NEW p \in Procs, DetachPost(p)
      PROVE  QueuedShape'
  BY <1>14, DetachPostForm, QueuedOn
<1>15. ASSUME NEW p \in Procs, InitNodes(p)
      PROVE  QueuedShape'
  BY <1>15, GotoForm, QueuedOn DEF InitNodes
<1>16. ASSUME NEW p \in Procs, InitQueuedNode(p)
      PROVE  QueuedShape'
  BY <1>16, QueuedOn DEF InitQueuedNode, Fault, Leave
<1>17. ASSUME NEW p \in Procs, FindOrCreate(p)
      PROVE  QueuedShape'
  BY <1>17, FindForm, QueuedOn
<1>18. ASSUME NEW p \in Procs, workqueue_attach(p)
      PROVE  QueuedShape'
  BY <1>18, AttachForm, QueuedOn
<1>19. ASSUME NEW p \in Procs, InitPublish(p)
      PROVE  QueuedShape'
  <2>1. /\ pc[p] = "publish"
        /\ wq' = [wq EXCEPT ![item[p]] = queue[p]]
        /\ Call(p, "idle", NULL, NULL)
        /\ UNCHANGED q
    BY <1>19 DEF InitPublish, Leave
  <2>2. wq[item[p]] = NULL
    BY <2>1 DEF LifecycleShape, InitSteps
  <2>3. \A e \in Items : wq'[e] = wq[e] \/ wq[e] = NULL
    BY <2>1, <2>2 DEF TypeOK
  <2> QED
    BY <2>1, <2>3, QueuedMove DEF QueuedShape
<1>20. ASSUME NEW p \in Procs, UseDestroyed(p)
      PROVE  QueuedShape'
  <2>1. pc[p] # "remove"
    BY <1>20, UseIsAlive DEF UseDestroyed, InUseIsAlive, DeinitSteps
  <2> QED
    BY <1>20, <2>1, QueuedOn DEF UseDestroyed, Fault, Leave
<1>21. ASSUME NEW w \in Queues, WorkerStart(w) \/ Worker(w)
       PROVE  QueuedShape'
  <2>1. UNCHANGED <<wq, callVars>>
    BY <1>21, OtherFrame
  <2>2. CASE RunPop(w)
    <3>1. CASE q[w] = <<>>
      BY <2>1, <2>2, <3>1 DEF RunPop, QueuedShape
    <3>2. CASE q[w] # <<>>
      <4>1. q'[w] = Tail(q[w]) /\ \A v \in Queues \ {w} : q'[v] = q[v]
        BY <2>2, <3>2 DEF RunPop, TypeOK
      <4>2. Distinct(q'[w]) /\ \A e : Has(q'[w], e) => Has(q[w], e)
        BY <3>2, <4>1, TailFacts DEF QueuedShape, TypeOK
      <4>3. /\ \A v \in Queues : Distinct(q'[v])
            /\ \A v \in Queues, e \in Items : Has(q'[v], e) => Has(q[v], e)
        BY <4>1, <4>2 DEF QueuedShape
      <4> QED
        BY <2>1, <4>3, QueuedStays
    <3> QED
      BY <3>1, <3>2
  <2>3. CASE ~RunPop(w)
    <3>1. UNCHANGED q
      BY <1>21, <2>3 DEF WorkerStart, Worker, RunCheck, RunWait, EntryReturns,
                         RunnerUnlist, workqueue_deinit
    <3> QED
      BY <2>1, <3>1 DEF QueuedShape
  <2> QED
    BY <2>2, <2>3
<1>22. ASSUME NEW w \in Queues, workqueue_clear(w)
       PROVE  QueuedShape'
  <2>1. UNCHANGED <<wq, callVars>>
    BY <1>22 DEF workqueue_clear
  <2>2. q'[w] = <<>> /\ \A v \in Queues \ {w} : q'[v] = q[v]
    BY <1>22 DEF workqueue_clear, TypeOK
  <2>3. Distinct(q'[w]) /\ \A e : ~Has(q'[w], e)
    BY <2>2 DEF Distinct, Has
  <2>4. /\ \A v \in Queues : Distinct(q'[v])
        /\ \A v \in Queues, e \in Items : Has(q'[v], e) => Has(q[v], e)
    BY <2>2, <2>3 DEF QueuedShape
  <2> QED
    BY <2>1, <2>4, QueuedStays
<1>23. ASSUME NEW i \in Items, InterruptSchedules(i)
       PROVE  QueuedShape'
  <2>1. PICK w \in Queues : w = wq[i]
    BY <1>23 DEF InterruptSchedules, TypeOK
  <2>2. UNCHANGED <<wq, callVars>> /\ q' = [q EXCEPT ![w] = Push(@, i)]
    BY <1>23, <2>1 DEF InterruptSchedules
  <2>3. q'[w] = Push(q[w], i) /\ \A v \in Queues \ {w} : q'[v] = q[v]
    BY <2>2 DEF TypeOK
  <2>4. Distinct(q'[w]) /\ \A e : Has(q'[w], e) => Has(q[w], e) \/ e = i
    BY <2>3, PushFacts DEF QueuedShape, TypeOK
  <2>5. /\ \A v \in Queues : Distinct(q'[v])
        /\ \A v \in Queues, e \in Items :
             Has(q'[v], e) => Has(q[v], e) \/ wq'[e] = v
    BY <2>1, <2>2, <2>3, <2>4 DEF QueuedShape
  <2> QED
    BY <2>2, <2>5, QueuedStays
<1> QED
  BY <1>1, <1>2, <1>3, <1>4, <1>5, <1>6, <1>7, <1>8, <1>9, <1>10, <1>11, <1>12, <1>13, <1>14, <1>15, <1>16, <1>17, <1>18, <1>19, <1>20, <1>21, <1>22, <1>23
     DEF Next, StartCall, CallStep

-----------------------------------------------------------------------------
(***************************************************************************)
(* When applications do not overlap a schedule of an item with its init or *)
(* deinit (interrupts may schedule at any time), DisciplineInv holds in    *)
(* every reachable state.                                                  *)
(***************************************************************************)
THEOREM DisciplineInvariant ==
  ASSUME ~Overlap
  PROVE  Spec => [](WorkQueueInv /\ DisciplineInv)
<1>1. Init => DisciplineInv
  BY DEF Init, DisciplineInv, ScheduleShape, QueuedShape, ScheduleSteps, Has,
         Distinct
<1>2. WorkQueueInv /\ DisciplineInv /\ [Next]_vars => DisciplineInv'
  <2> SUFFICES ASSUME WorkQueueInv, DisciplineInv, [Next]_vars
               PROVE  DisciplineInv'
    OBVIOUS
  <2>1. CASE Next
    BY <2>1, ScheduleStep, QueuedStep DEF DisciplineInv, WorkQueueInv
  <2>2. CASE UNCHANGED vars
    BY <2>2 DEF vars, DisciplineInv, ScheduleShape, QueuedShape
  <2> QED
    BY <2>1, <2>2
<1> QED
  BY <1>1, <1>2, WorkQueueInvariant, PTL DEF Spec

(***************************************************************************)
(* workitem_deinit keeps its promise: once it is past its removal, nothing *)
(* inserts the item again, for any numbers of items, threads and queues.   *)
(***************************************************************************)
THEOREM NothingInsertedAfterDeinit ==
  ASSUME ~Overlap
  PROVE  Spec => []DeinitPreventsInsertions
<1>1. WorkQueueInv /\ DisciplineInv => DeinitPreventsInsertions
  BY DEF DisciplineInv, QueuedShape, DeinitPreventsInsertions, Queued
<1> QED
  BY <1>1, DisciplineInvariant, PTL

(***************************************************************************)
(* A schedule or clear, from its test of _wq to its last post, works on    *)
(* the queue its item still points to, and that queue exists.              *)
(***************************************************************************)
THEOREM SchedulesUseLiveQueues ==
  ASSUME ~Overlap
  PROVE  Spec => []ScheduleOnLiveQueue
<1>1. ASSUME WorkQueueInv, DisciplineInv PROVE ScheduleOnLiveQueue
  <2> SUFFICES ASSUME NEW p \in Procs, pc[p] \in ScheduleSteps
               PROVE  wq[item[p]] = queue[p] /\ Alive(queue[p])
    BY DEF ScheduleOnLiveQueue
  <2>1. wq[item[p]] = queue[p]
    BY <1>1 DEF DisciplineInv, ScheduleShape
  <2>2. item[p] \in Items /\ queue[p] \in Queues
    BY <1>1 DEF WorkQueueInv, CallShape
  <2> QED
    BY <1>1, <2>1, <2>2, UseIsAlive DEF InUseIsAlive
<1> QED
  BY <1>1, DisciplineInvariant, PTL

-----------------------------------------------------------------------------
(* The count of the semaphore.                                             *)

PostSteps == {"post", "detach_post"}
Posters(w) == {p \in Procs : queue[p] = w /\ pc[p] \in {"post", "detach_post"}}

(* At most as many processes are about to post as there are. *)
LEMMA PostersFinite ==
  ASSUME IsFiniteSet(Procs), NEW w
  PROVE  /\ IsFiniteSet(Posters(w))
         /\ Cardinality(Posters(w)) \in Nat
         /\ Cardinality(Posters(w)) <= Cardinality(Procs)
         /\ Cardinality(Procs) \in Nat
<1>1. Posters(w) \subseteq Procs
  BY DEF Posters
<1> QED
  BY <1>1, FS_Subset, FS_CardinalityType

(* PostsBounded is kept by a move that neither posts nor is about to. *)
LEMMA PostsQuiet ==
  ASSUME IsFiniteSet(Procs), TypeOK, PostsBounded, UNCHANGED processLock,
         NEW p \in Procs, NEW l, NEW i, NEW v, Call(p, l, i, v),
         l \notin PostSteps
  PROVE  PostsBounded'
<1>1. ASSUME NEW w \in Queues PROVE Posters(w)' \subseteq Posters(w)
  BY DEF Posters, PostSteps, Call, Goto, TypeOK
<1>2. ASSUME NEW w \in Queues
      PROVE  /\ Cardinality(Posters(w)') \in Nat
             /\ Cardinality(Posters(w)') <= Cardinality(Posters(w))
             /\ Cardinality(Posters(w)) \in Nat
  BY <1>1, PostersFinite, FS_Subset, FS_CardinalityType
<1>3. ASSUME NEW w \in Queues
      PROVE  processLock'[w] + Cardinality(Posters(w)') <= Cardinality(Procs) + 1
  <2>1. processLock[w] + Cardinality(Posters(w)) <= Cardinality(Procs) + 1
    BY DEF PostsBounded, Posters
  <2>2. processLock'[w] = processLock[w] /\ processLock[w] \in Nat
    BY DEF TypeOK
  <2>3. Cardinality(Procs) \in Nat
    BY FS_CardinalityType
  <2> QED
    BY <1>2, <2>1, <2>2, <2>3
<1> QED
  BY <1>3 DEF PostsBounded, Posters

(* It is kept by a test that has found the count at zero. *)
LEMMA PostsEnter ==
  ASSUME IsFiniteSet(Procs), TypeOK, PostsBounded, UNCHANGED processLock,
         NEW p \in Procs, NEW l, NEW i, NEW v \in Queues, Call(p, l, i, v),
         processLock[v] <= 0
  PROVE  PostsBounded'
<1>1. ASSUME NEW w \in Queues
      PROVE  processLock'[w] + Cardinality(Posters(w)') <= Cardinality(Procs) + 1
  <2>1. CASE w = v
    <3>1. Posters(w)' \subseteq Procs
      BY DEF Posters
    <3>2. /\ Cardinality(Posters(w)') \in Nat
          /\ Cardinality(Posters(w)') <= Cardinality(Procs)
          /\ Cardinality(Procs) \in Nat
      BY <3>1, FS_Subset, FS_CardinalityType
    <3>3. processLock'[w] \in Nat /\ processLock'[w] <= 0
      BY <2>1 DEF TypeOK
    <3> QED
      BY <3>2, <3>3
  <2>2. CASE w # v
    <3>1. Posters(w)' \subseteq Posters(w)
      BY <2>2 DEF Posters, Call, Goto, TypeOK
    <3>2. /\ Cardinality(Posters(w)') \in Nat
          /\ Cardinality(Posters(w)') <= Cardinality(Posters(w))
          /\ Cardinality(Posters(w)) \in Nat
      BY <3>1, PostersFinite, FS_Subset, FS_CardinalityType
    <3>3. processLock[w] + Cardinality(Posters(w)) <= Cardinality(Procs) + 1
      BY DEF PostsBounded, Posters
    <3>4. processLock'[w] = processLock[w] /\ processLock[w] \in Nat
      BY DEF TypeOK
    <3>5. Cardinality(Procs) \in Nat
      BY FS_CardinalityType
    <3> QED
      BY <3>2, <3>3, <3>4, <3>5
  <2> QED
    BY <2>1, <2>2
<1> QED
  BY <1>1 DEF PostsBounded, Posters

(* It is kept by the post itself, which ends a poster. *)
LEMMA PostsPost ==
  ASSUME IsFiniteSet(Procs), TypeOK, PostsBounded,
         NEW p \in Procs, NEW l, NEW i, NEW u, Call(p, l, i, u),
         l \notin PostSteps, pc[p] \in PostSteps, queue[p] \in Queues,
         processLock' = [processLock EXCEPT ![queue[p]] = @ + 1]
  PROVE  PostsBounded'
<1>1. ASSUME NEW w \in Queues
      PROVE  processLock'[w] + Cardinality(Posters(w)') <= Cardinality(Procs) + 1
  <2>1. processLock[w] + Cardinality(Posters(w)) <= Cardinality(Procs) + 1
    BY DEF PostsBounded, Posters
  <2>2. Posters(w)' = IF w = queue[p] THEN Posters(w) \ {p} ELSE Posters(w)
    BY DEF Posters, PostSteps, Call, Goto, TypeOK
  <2>3. CASE w = queue[p]
    <3>1. p \in Posters(w)
      BY <2>3 DEF Posters, PostSteps
    <3>2. Cardinality(Posters(w)') = Cardinality(Posters(w)) - 1
      BY <2>2, <2>3, <3>1, PostersFinite, FS_RemoveElement
    <3>3. processLock'[w] = processLock[w] + 1 /\ processLock[w] \in Nat
      BY <2>3 DEF TypeOK
    <3> QED
      BY <2>1, <3>2, <3>3, PostersFinite
  <2>4. CASE w # queue[p]
    BY <2>1, <2>2, <2>4 DEF TypeOK
  <2> QED
    BY <2>3, <2>4
<1> QED
  BY <1>1 DEF PostsBounded, Posters

(* Every step keeps PostsBounded. *)
LEMMA PostsStep ==
  ASSUME IsFiniteSet(Procs), TypeOK, CallShape, PostsBounded, Next
  PROVE  PostsBounded'
<1>1. ASSUME NEW p \in Procs, StartCall(p) PROVE PostsBounded'
  <2>1. /\ UNCHANGED processLock
        /\ \E l, i, w : Call(p, l, i, w) /\ l \notin PostSteps
    BY <1>1 DEF StartCall, workitem_schedule_now, workitem_schedule_clear,
                workitem_deinit, workitem_init, workitem_init_method2, PostSteps
  <2> QED
    BY <2>1, PostsQuiet
<1>2. ASSUME NEW p \in Procs,
             \/ workqueue_add(p) \/ workqueue_remove(p) \/ UseBadPointer(p)
             \/ DeinitRemove(p) \/ workqueue_detach(p) \/ InitNodes(p)
             \/ InitQueuedNode(p) \/ FindOrCreate(p) \/ workqueue_attach(p)
             \/ InitPublish(p) \/ UseDestroyed(p)
      PROVE  PostsBounded'
  <2>1. CASE workqueue_add(p)
    BY <2>1, PostsQuiet DEF workqueue_add, PostSteps
  <2>2. CASE \/ workqueue_remove(p) \/ UseBadPointer(p) \/ InitQueuedNode(p)
             \/ InitPublish(p) \/ UseDestroyed(p)
    <3>1. UNCHANGED processLock
      BY <2>2 DEF workqueue_remove, UseBadPointer, InitQueuedNode, InitPublish,
                  UseDestroyed, Fault
    <3>2. Call(p, "idle", NULL, NULL) \/ Call(p, "fault", NULL, NULL)
      BY <2>2 DEF workqueue_remove, UseBadPointer, InitQueuedNode, InitPublish,
                  UseDestroyed, Fault, Leave
    <3> QED
      BY <3>1, <3>2, PostsQuiet DEF PostSteps
  <2>3. CASE DeinitRemove(p)
    BY <2>3, GotoForm, PostsQuiet DEF DeinitRemove, PostSteps
  <2>4. CASE workqueue_detach(p)
    BY <2>4, DetachForm, PostsQuiet DEF PostSteps
  <2>5. CASE InitNodes(p)
    BY <2>5, GotoForm, PostsQuiet DEF InitNodes, PostSteps
  <2>6. CASE FindOrCreate(p)
    BY <2>6, FindForm, PostsQuiet DEF PostSteps
  <2>7. CASE workqueue_attach(p)
    BY <2>7, AttachForm, PostsQuiet DEF PostSteps
  <2> QED
    BY <1>2, <2>1, <2>2, <2>3, <2>4, <2>5, <2>6, <2>7
<1>3. ASSUME NEW p \in Procs, SignalTest(p) PROVE PostsBounded'
  <2>1. queue[p] \in Queues /\ UNCHANGED processLock
    BY <1>3 DEF SignalTest, CallShape, ScheduleSteps
  <2>2. CASE processLock[queue[p]] <= 0
    <3>1. Call(p, "post", item[p], queue[p])
      BY <1>3, <2>2, GotoForm DEF SignalTest
    <3> QED
      BY <2>1, <2>2, <3>1, PostsEnter
  <2>3. CASE ~(processLock[queue[p]] <= 0)
    BY <1>3, <2>1, <2>3, PostsQuiet DEF SignalTest, Leave, PostSteps
  <2> QED
    BY <2>2, <2>3
<1>4. ASSUME NEW p \in Procs, DetachTest(p) PROVE PostsBounded'
  <2>1. queue[p] \in Queues /\ UNCHANGED processLock
    BY <1>4 DEF DetachTest, CallShape, DeinitSteps
  <2>2. CASE processLock[queue[p]] <= 0
    <3>1. Call(p, "detach_post", item[p], queue[p])
      BY <1>4, <2>2, GotoForm DEF DetachTest
    <3> QED
      BY <2>1, <2>2, <3>1, PostsEnter
  <2>3. CASE ~(processLock[queue[p]] <= 0)
    BY <1>4, <2>1, <2>3, AfterDeinitForm, PostsQuiet DEF DetachTest, PostSteps
  <2> QED
    BY <2>2, <2>3
<1>5. ASSUME NEW p \in Procs, SignalPost(p) PROVE PostsBounded'
  BY <1>5, PostsPost DEF SignalPost, Leave, PostSteps, CallShape, ScheduleSteps
<1>6. ASSUME NEW p \in Procs, DetachPost(p) PROVE PostsBounded'
  BY <1>6, DetachPostForm, PostsPost DEF PostSteps
<1>7. ASSUME NEW w \in Queues,
             WorkerStart(w) \/ Worker(w) \/ workqueue_clear(w)
      PROVE  PostsBounded'
  <2>1. UNCHANGED callVars
    BY <1>7, OtherFrame
  <2>2. \A v \in Queues : processLock'[v] \in Nat /\ processLock'[v] <= processLock[v]
    <3>1. CASE RunWait(w)
      BY <3>1 DEF RunWait, TypeOK
    <3>2. CASE ~RunWait(w)
      <4>1. UNCHANGED processLock
        BY <1>7, <3>2 DEF WorkerStart, Worker, RunCheck, RunPop, EntryReturns,
                          RunnerUnlist, workqueue_deinit, workqueue_clear
      <4> QED
        BY <4>1 DEF TypeOK
    <3> QED
      BY <3>1, <3>2
  <2>3. \A v \in Queues : Posters(v)' = Posters(v)
    BY <2>1 DEF Posters
  <2>4. ASSUME NEW v \in Queues
        PROVE  processLock'[v] + Cardinality(Posters(v)') <= Cardinality(Procs) + 1
    <3>1. processLock[v] + Cardinality(Posters(v)) <= Cardinality(Procs) + 1
      BY DEF PostsBounded, Posters
    <3>2. /\ Cardinality(Posters(v)) \in Nat
          /\ Cardinality(Posters(v)') = Cardinality(Posters(v))
          /\ Cardinality(Procs) \in Nat
      BY <2>3, PostersFinite
    <3>3. processLock[v] \in Nat
      BY DEF TypeOK
    <3> QED
      BY <2>2, <3>1, <3>2, <3>3
  <2> QED
    BY <2>4 DEF PostsBounded, Posters
<1>8. ASSUME NEW i \in Items, InterruptSchedules(i) PROVE PostsBounded'
  <2>1. PICK w \in Queues : w = wq[i]
    BY <1>8 DEF InterruptSchedules, TypeOK
  <2>2. \A v \in Queues :
          \/ processLock'[v] = processLock[v]
          \/ processLock[v] <= 0 /\ processLock'[v] = processLock[v] + 1
    BY <1>8, <2>1 DEF InterruptSchedules, TypeOK
  <2>3. \A v \in Queues : Posters(v)' = Posters(v)
    BY <1>8 DEF InterruptSchedules, Posters
  <2>4. ASSUME NEW v \in Queues
        PROVE  processLock'[v] + Cardinality(Posters(v)') <= Cardinality(Procs) + 1
    <3>1. processLock[v] + Cardinality(Posters(v)) <= Cardinality(Procs) + 1
      BY DEF PostsBounded, Posters
    <3>2. /\ Cardinality(Posters(v)) \in Nat
          /\ Cardinality(Posters(v)') = Cardinality(Posters(v))
          /\ Cardinality(Posters(v)) <= Cardinality(Procs)
          /\ Cardinality(Procs) \in Nat
      BY <2>3, PostersFinite
    <3>3. processLock[v] \in Nat
      BY DEF TypeOK
    <3> QED
      BY <2>2, <3>1, <3>2, <3>3
  <2> QED
    BY <2>4 DEF PostsBounded, Posters
<1> QED
  BY <1>1, <1>2, <1>3, <1>4, <1>5, <1>6, <1>7, <1>8 DEF Next, CallStep

(***************************************************************************)
(* signal_worker_thread, whose test and post are two steps, cannot drive   *)
(* the semaphore's count beyond the number of processes plus one, with any *)
(* finite number of processes and interrupts at any time.                  *)
(***************************************************************************)
THEOREM PostsStayBounded ==
  ASSUME IsFiniteSet(Procs)
  PROVE  Spec => []PostsBounded
<1>1. Init => PostsBounded
  <2> SUFFICES ASSUME Init, NEW w \in Queues
               PROVE  processLock[w] + Cardinality(Posters(w))
                        <= Cardinality(Procs) + 1
    BY DEF PostsBounded, Posters
  <2>1. processLock[w] = 0
    BY DEF Init
  <2> QED
    BY <2>1, PostersFinite
<1>2. WorkQueueInv /\ PostsBounded /\ [Next]_vars => PostsBounded'
  <2> SUFFICES ASSUME WorkQueueInv, PostsBounded, [Next]_vars
               PROVE  PostsBounded'
    OBVIOUS
  <2>1. CASE Next
    BY <2>1, PostsStep DEF WorkQueueInv
  <2>2. CASE UNCHANGED vars
    BY <2>2 DEF vars, PostsBounded
  <2> QED
    BY <2>1, <2>2
<1> QED
  BY <1>1, <1>2, WorkQueueInvariant, PTL DEF Spec
=============================================================================
