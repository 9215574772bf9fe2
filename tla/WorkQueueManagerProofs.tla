------------------------ MODULE WorkQueueManagerProofs ------------------------
(***************************************************************************)
(* RequestInv is an inductive invariant of WorkQueueManager for any sets   *)
(* of clients, configurations and runners, careful or not: the one slot of *)
(* the create queue carries every request to the manager exactly once.     *)
(* CarefulInv is inductive with it for careful applications, and gives one *)
(* queue per name and no use of a block that does not exist.               *)
(***************************************************************************)
EXTENDS WorkQueueManager, TLAPS

USE ManagerConstants DEF heapVars, slotVars, mgrVars, runnerVars, clientVars,
                         ctlVars

(* The invariant holds before the first start. *)
LEMMA InitRequest == Init => RequestInv
BY DEF Init, RequestInv, TypeOK, SetupShape, SlotShape, NoRequestLost, InSlot,
       Blocks, MgrSteps, RunnerSteps, ClientSteps, CtlSteps, Returns

(* Every step keeps TypeOK. *)
LEMMA TypeStep ==
  ASSUME TypeOK, Next
  PROVE  TypeOK'
<1>1. ASSUME NEW c \in Clients, NEW k \in Configs, workqueue_find_or_create(c, k) PROVE TypeOK'
  BY <1>1 DEF workqueue_find_or_create, ClientAt, TypeOK, Blocks, MgrSteps,
         RunnerSteps, ClientSteps, CtlSteps, Returns
<1>2. ASSUME NEW c \in Clients, Find(c) PROVE TypeOK'
  BY <1>2 DEF Find, ClientAt, Matches, TypeOK, Blocks, MgrSteps, RunnerSteps,
         ClientSteps, CtlSteps, Returns
<1>3. ASSUME NEW c \in Clients, Push(c) PROVE TypeOK'
  BY <1>3 DEF Push, ClientAt, PushWait, TypeOK, Blocks, MgrSteps, RunnerSteps,
         ClientSteps, CtlSteps, Returns
<1>4. ASSUME NEW c \in Clients, PushConfig(c) PROVE TypeOK'
  BY <1>4 DEF PushConfig, ClientAt, PushWrite, TypeOK, Blocks, MgrSteps,
         RunnerSteps, ClientSteps, CtlSteps, Returns
<1>5. ASSUME NEW c \in Clients, Poll(c) PROVE TypeOK'
  BY <1>5 DEF Poll, ClientAt, Matches, TypeOK, Blocks, MgrSteps, RunnerSteps,
         ClientSteps, CtlSteps, Returns
<1>6. ASSUME NEW c \in Clients, Attach(c) PROVE TypeOK'
  <2>1. runnerAt' \in [Runners -> RunnerSteps]
    <3>1. CASE found[c] \in Runners
      BY <1>6, <3>1 DEF Attach, TypeOK, RunnerSteps
    <3>2. CASE found[c] \notin Runners
      BY <1>6, <3>2 DEF Attach, TypeOK
    <3> QED
      BY <3>1, <3>2
  <2> QED
    BY <1>6, <2>1 DEF Attach, ClientAt, TypeOK, ClientSteps
<1>7. ASSUME MgrAlloc PROVE TypeOK'
  BY <1>7 DEF MgrAlloc, TypeOK, Blocks, MgrSteps, RunnerSteps, ClientSteps,
         CtlSteps, Returns
<1>8. ASSUME MgrInit PROVE TypeOK'
  BY <1>8 DEF MgrInit, TypeOK, Blocks, MgrSteps, RunnerSteps, ClientSteps,
         CtlSteps, Returns
<1>9. ASSUME MgrCheck PROVE TypeOK'
  BY <1>9 DEF MgrCheck, TypeOK, Blocks, MgrSteps, RunnerSteps, ClientSteps,
         CtlSteps, Returns
<1>10. ASSUME MgrPop PROVE TypeOK'
  BY <1>10 DEF MgrPop, PopWait, TypeOK, Blocks, MgrSteps, RunnerSteps,
         ClientSteps, CtlSteps, Returns
<1>11. ASSUME MgrRead PROVE TypeOK'
  BY <1>11 DEF MgrRead, PopRead, TypeOK, Blocks, MgrSteps, RunnerSteps,
         ClientSteps, CtlSteps, Returns
<1>12. ASSUME MgrCreate PROVE TypeOK'
  BY <1>12 DEF MgrCreate, TypeOK, Blocks, MgrSteps, RunnerSteps, ClientSteps,
         CtlSteps, Returns
<1>13. ASSUME NEW r \in Runners, RunnerAdd(r) PROVE TypeOK'
  BY <1>13 DEF RunnerAdd, TypeOK, Blocks, MgrSteps, RunnerSteps, ClientSteps,
         CtlSteps, Returns
<1>14. ASSUME NEW r \in Runners, LastDetach(r) PROVE TypeOK'
  BY <1>14 DEF LastDetach, TypeOK, Blocks, MgrSteps, RunnerSteps, ClientSteps,
         CtlSteps, Returns
<1>15. ASSUME NEW r \in Runners, RunnerRemove(r) PROVE TypeOK'
  BY <1>15 DEF RunnerRemove, TypeOK, Blocks, MgrSteps, RunnerSteps,
         ClientSteps, CtlSteps, Returns
<1>16. ASSUME workqueue_manager_start PROVE TypeOK'
  BY <1>16 DEF workqueue_manager_start, TypeOK, Blocks, MgrSteps, RunnerSteps,
         ClientSteps, CtlSteps, Returns
<1>17. ASSUME workqueue_manager_stop PROVE TypeOK'
  BY <1>17 DEF workqueue_manager_stop, TypeOK, Blocks, MgrSteps, RunnerSteps,
         ClientSteps, CtlSteps, Returns
<1>18. ASSUME StopAsk PROVE TypeOK'
  BY <1>18 DEF StopAsk, TypeOK, Blocks, MgrSteps, RunnerSteps, ClientSteps,
         CtlSteps, Returns
<1>19. ASSUME StopFreeList PROVE TypeOK'
  BY <1>19 DEF StopFreeList, TypeOK, Blocks, MgrSteps, RunnerSteps,
         ClientSteps, CtlSteps, Returns
<1>20. ASSUME StopExit PROVE TypeOK'
  BY <1>20 DEF StopExit, TypeOK, Blocks, MgrSteps, RunnerSteps, ClientSteps,
         CtlSteps, Returns
<1>21. ASSUME StopPush PROVE TypeOK'
  BY <1>21 DEF StopPush, PushWait, TypeOK, Blocks, MgrSteps, RunnerSteps,
         ClientSteps, CtlSteps, Returns
<1>22. ASSUME StopPushNull PROVE TypeOK'
  BY <1>22 DEF StopPushNull, PushWrite, TypeOK, Blocks, MgrSteps, RunnerSteps,
         ClientSteps, CtlSteps, Returns
<1>23. ASSUME StopFreeQueue PROVE TypeOK'
  BY <1>23 DEF StopFreeQueue, TypeOK, Blocks, MgrSteps, RunnerSteps,
         ClientSteps, CtlSteps, Returns
<1> QED
  BY <1>1, <1>2, <1>3, <1>4, <1>5, <1>6, <1>7, <1>8, <1>9, <1>10, <1>11,
     <1>12, <1>13, <1>14, <1>15, <1>16, <1>17, <1>18, <1>19, <1>20, <1>21,
     <1>22, <1>23 DEF Next, ClientCall, Manager, Runner, Stop

(* Every step keeps SetupShape. *)
LEMMA SetupStep ==
  ASSUME TypeOK, SetupShape, Next
  PROVE  SetupShape'
<1>1. ASSUME NEW c \in Clients, NEW k \in Configs, workqueue_find_or_create(c, k) PROVE SetupShape'
  BY <1>1 DEF workqueue_find_or_create, ClientAt, SetupShape, TypeOK
<1>2. ASSUME NEW c \in Clients, Find(c) PROVE SetupShape'
  BY <1>2 DEF Find, ClientAt, Matches, SetupShape, TypeOK
<1>3. ASSUME NEW c \in Clients, Push(c) PROVE SetupShape'
  BY <1>3 DEF Push, ClientAt, PushWait, SetupShape, TypeOK
<1>4. ASSUME NEW c \in Clients, PushConfig(c) PROVE SetupShape'
  BY <1>4 DEF PushConfig, ClientAt, PushWrite, SetupShape, TypeOK
<1>5. ASSUME NEW c \in Clients, Poll(c) PROVE SetupShape'
  BY <1>5 DEF Poll, ClientAt, Matches, SetupShape, TypeOK
<1>6. ASSUME NEW c \in Clients, Attach(c) PROVE SetupShape'
  BY <1>6 DEF Attach, ClientAt, SetupShape, TypeOK
<1>7. ASSUME MgrAlloc PROVE SetupShape'
  BY <1>7 DEF MgrAlloc, SetupShape, TypeOK
<1>8. ASSUME MgrInit PROVE SetupShape'
  BY <1>8 DEF MgrInit, SetupShape, TypeOK
<1>9. ASSUME MgrCheck PROVE SetupShape'
  BY <1>9 DEF MgrCheck, SetupShape, TypeOK
<1>10. ASSUME MgrPop PROVE SetupShape'
  BY <1>10 DEF MgrPop, PopWait, SetupShape, TypeOK
<1>11. ASSUME MgrRead PROVE SetupShape'
  BY <1>11 DEF MgrRead, PopRead, SetupShape, TypeOK
<1>12. ASSUME MgrCreate PROVE SetupShape'
  BY <1>12 DEF MgrCreate, SetupShape, TypeOK
<1>13. ASSUME NEW r \in Runners, RunnerAdd(r) PROVE SetupShape'
  BY <1>13 DEF RunnerAdd, SetupShape, TypeOK
<1>14. ASSUME NEW r \in Runners, LastDetach(r) PROVE SetupShape'
  BY <1>14 DEF LastDetach, SetupShape, TypeOK
<1>15. ASSUME NEW r \in Runners, RunnerRemove(r) PROVE SetupShape'
  BY <1>15 DEF RunnerRemove, SetupShape, TypeOK
<1>16. ASSUME workqueue_manager_start PROVE SetupShape'
  BY <1>16 DEF workqueue_manager_start, SetupShape, TypeOK
<1>17. ASSUME workqueue_manager_stop PROVE SetupShape'
  BY <1>17 DEF workqueue_manager_stop, SetupShape, TypeOK, MayStop
<1>18. ASSUME StopAsk PROVE SetupShape'
  BY <1>18 DEF StopAsk, SetupShape, TypeOK
<1>19. ASSUME StopFreeList PROVE SetupShape'
  BY <1>19 DEF StopFreeList, SetupShape, TypeOK
<1>20. ASSUME StopExit PROVE SetupShape'
  BY <1>20 DEF StopExit, SetupShape, TypeOK
<1>21. ASSUME StopPush PROVE SetupShape'
  BY <1>21 DEF StopPush, PushWait, SetupShape, TypeOK
<1>22. ASSUME StopPushNull PROVE SetupShape'
  BY <1>22 DEF StopPushNull, PushWrite, SetupShape, TypeOK
<1>23. ASSUME StopFreeQueue PROVE SetupShape'
  BY <1>23 DEF StopFreeQueue, SetupShape, TypeOK
<1> QED
  BY <1>1, <1>2, <1>3, <1>4, <1>5, <1>6, <1>7, <1>8, <1>9, <1>10, <1>11,
     <1>12, <1>13, <1>14, <1>15, <1>16, <1>17, <1>18, <1>19, <1>20, <1>21,
     <1>22, <1>23 DEF Next, ClientCall, Manager, Runner, Stop

(* Every step keeps SlotShape. *)
LEMMA SlotStep ==
  ASSUME TypeOK, SetupShape, SlotShape, Next
  PROVE  SlotShape'
<1>1. ASSUME NEW c \in Clients, NEW k \in Configs, workqueue_find_or_create(c, k) PROVE SlotShape'
  BY <1>1 DEF workqueue_find_or_create, ClientAt, SlotShape, SetupShape,
         TypeOK
<1>2. ASSUME NEW c \in Clients, Find(c) PROVE SlotShape'
  BY <1>2 DEF Find, ClientAt, Matches, SlotShape, SetupShape, TypeOK
<1>3. ASSUME NEW c \in Clients, Push(c) PROVE SlotShape'
  BY <1>3 DEF Push, ClientAt, PushWait, SlotShape, SetupShape, TypeOK
<1>4. ASSUME NEW c \in Clients, PushConfig(c) PROVE SlotShape'
  BY <1>4 DEF PushConfig, ClientAt, PushWrite, SlotShape, SetupShape, TypeOK
<1>5. ASSUME NEW c \in Clients, Poll(c) PROVE SlotShape'
  BY <1>5 DEF Poll, ClientAt, Matches, SlotShape, SetupShape, TypeOK
<1>6. ASSUME NEW c \in Clients, Attach(c) PROVE SlotShape'
  BY <1>6 DEF Attach, ClientAt, SlotShape, SetupShape, TypeOK
<1>7. ASSUME MgrAlloc PROVE SlotShape'
  BY <1>7 DEF MgrAlloc, SlotShape, SetupShape, TypeOK
<1>8. ASSUME MgrInit PROVE SlotShape'
  BY <1>8 DEF MgrInit, SlotShape, SetupShape, TypeOK
<1>9. ASSUME MgrCheck PROVE SlotShape'
  BY <1>9 DEF MgrCheck, SlotShape, SetupShape, TypeOK
<1>10. ASSUME MgrPop PROVE SlotShape'
  BY <1>10 DEF MgrPop, PopWait, SlotShape, SetupShape, TypeOK
<1>11. ASSUME MgrRead PROVE SlotShape'
  BY <1>11 DEF MgrRead, PopRead, SlotShape, SetupShape, TypeOK
<1>12. ASSUME MgrCreate PROVE SlotShape'
  BY <1>12 DEF MgrCreate, SlotShape, SetupShape, TypeOK
<1>13. ASSUME NEW r \in Runners, RunnerAdd(r) PROVE SlotShape'
  BY <1>13 DEF RunnerAdd, SlotShape, SetupShape, TypeOK
<1>14. ASSUME NEW r \in Runners, LastDetach(r) PROVE SlotShape'
  BY <1>14 DEF LastDetach, SlotShape, SetupShape, TypeOK
<1>15. ASSUME NEW r \in Runners, RunnerRemove(r) PROVE SlotShape'
  BY <1>15 DEF RunnerRemove, SlotShape, SetupShape, TypeOK
<1>16. ASSUME workqueue_manager_start PROVE SlotShape'
  BY <1>16 DEF workqueue_manager_start, SlotShape, SetupShape, TypeOK
<1>17. ASSUME workqueue_manager_stop PROVE SlotShape'
  BY <1>17 DEF workqueue_manager_stop, SlotShape, SetupShape, TypeOK
<1>18. ASSUME StopAsk PROVE SlotShape'
  BY <1>18 DEF StopAsk, SlotShape, SetupShape, TypeOK
<1>19. ASSUME StopFreeList PROVE SlotShape'
  BY <1>19 DEF StopFreeList, SlotShape, SetupShape, TypeOK
<1>20. ASSUME StopExit PROVE SlotShape'
  BY <1>20 DEF StopExit, SlotShape, SetupShape, TypeOK
<1>21. ASSUME StopPush PROVE SlotShape'
  BY <1>21 DEF StopPush, PushWait, SlotShape, SetupShape, TypeOK
<1>22. ASSUME StopPushNull PROVE SlotShape'
  BY <1>22 DEF StopPushNull, PushWrite, SlotShape, SetupShape, TypeOK
<1>23. ASSUME StopFreeQueue PROVE SlotShape'
  BY <1>23 DEF StopFreeQueue, SlotShape, SetupShape, TypeOK
<1> QED
  BY <1>1, <1>2, <1>3, <1>4, <1>5, <1>6, <1>7, <1>8, <1>9, <1>10, <1>11,
     <1>12, <1>13, <1>14, <1>15, <1>16, <1>17, <1>18, <1>19, <1>20, <1>21,
     <1>22, <1>23 DEF Next, ClientCall, Manager, Runner, Stop

(* Every step keeps NoRequestLost. *)
LEMMA RequestStep ==
  ASSUME TypeOK, SetupShape, SlotShape, NoRequestLost, Next
  PROVE  NoRequestLost'
<1>1. ASSUME NEW c \in Clients, NEW k \in Configs, workqueue_find_or_create(c, k) PROVE NoRequestLost'
  BY <1>1 DEF workqueue_find_or_create, ClientAt, NoRequestLost, InSlot,
         SlotShape, SetupShape, TypeOK
<1>2. ASSUME NEW c \in Clients, Find(c) PROVE NoRequestLost'
  BY <1>2 DEF Find, ClientAt, Matches, NoRequestLost, InSlot, SlotShape,
         SetupShape, TypeOK
<1>3. ASSUME NEW c \in Clients, Push(c) PROVE NoRequestLost'
  BY <1>3 DEF Push, ClientAt, PushWait, NoRequestLost, InSlot, SlotShape,
         SetupShape, TypeOK
<1>4. ASSUME NEW c \in Clients, PushConfig(c) PROVE NoRequestLost'
  BY <1>4 DEF PushConfig, ClientAt, PushWrite, NoRequestLost, InSlot,
         SlotShape, SetupShape, TypeOK
<1>5. ASSUME NEW c \in Clients, Poll(c) PROVE NoRequestLost'
  BY <1>5 DEF Poll, ClientAt, Matches, NoRequestLost, InSlot, SlotShape,
         SetupShape, TypeOK
<1>6. ASSUME NEW c \in Clients, Attach(c) PROVE NoRequestLost'
  BY <1>6 DEF Attach, ClientAt, NoRequestLost, InSlot, SlotShape, SetupShape,
         TypeOK
<1>7. ASSUME MgrAlloc PROVE NoRequestLost'
  BY <1>7 DEF MgrAlloc, NoRequestLost, InSlot, SlotShape, SetupShape, TypeOK
<1>8. ASSUME MgrInit PROVE NoRequestLost'
  BY <1>8 DEF MgrInit, NoRequestLost, InSlot, SlotShape, SetupShape, TypeOK
<1>9. ASSUME MgrCheck PROVE NoRequestLost'
  BY <1>9 DEF MgrCheck, NoRequestLost, InSlot, SlotShape, SetupShape, TypeOK
<1>10. ASSUME MgrPop PROVE NoRequestLost'
  BY <1>10 DEF MgrPop, PopWait, NoRequestLost, InSlot, SlotShape, SetupShape,
         TypeOK
<1>11. ASSUME MgrRead PROVE NoRequestLost'
  BY <1>11 DEF MgrRead, PopRead, NoRequestLost, InSlot, SlotShape, SetupShape,
         TypeOK
<1>12. ASSUME MgrCreate PROVE NoRequestLost'
  BY <1>12 DEF MgrCreate, NoRequestLost, InSlot, SlotShape, SetupShape, TypeOK
<1>13. ASSUME NEW r \in Runners, RunnerAdd(r) PROVE NoRequestLost'
  BY <1>13 DEF RunnerAdd, NoRequestLost, InSlot, SlotShape, SetupShape, TypeOK
<1>14. ASSUME NEW r \in Runners, LastDetach(r) PROVE NoRequestLost'
  BY <1>14 DEF LastDetach, NoRequestLost, InSlot, SlotShape, SetupShape,
         TypeOK
<1>15. ASSUME NEW r \in Runners, RunnerRemove(r) PROVE NoRequestLost'
  BY <1>15 DEF RunnerRemove, NoRequestLost, InSlot, SlotShape, SetupShape,
         TypeOK
<1>16. ASSUME workqueue_manager_start PROVE NoRequestLost'
  BY <1>16 DEF workqueue_manager_start, NoRequestLost, InSlot, SlotShape,
         SetupShape, TypeOK
<1>17. ASSUME workqueue_manager_stop PROVE NoRequestLost'
  BY <1>17 DEF workqueue_manager_stop, NoRequestLost, InSlot, SlotShape,
         SetupShape, TypeOK
<1>18. ASSUME StopAsk PROVE NoRequestLost'
  BY <1>18 DEF StopAsk, NoRequestLost, InSlot, SlotShape, SetupShape, TypeOK
<1>19. ASSUME StopFreeList PROVE NoRequestLost'
  BY <1>19 DEF StopFreeList, NoRequestLost, InSlot, SlotShape, SetupShape,
         TypeOK
<1>20. ASSUME StopExit PROVE NoRequestLost'
  BY <1>20 DEF StopExit, NoRequestLost, InSlot, SlotShape, SetupShape, TypeOK
<1>21. ASSUME StopPush PROVE NoRequestLost'
  BY <1>21 DEF StopPush, PushWait, NoRequestLost, InSlot, SlotShape,
         SetupShape, TypeOK
<1>22. ASSUME StopPushNull PROVE NoRequestLost'
  BY <1>22 DEF StopPushNull, PushWrite, NoRequestLost, InSlot, SlotShape,
         SetupShape, TypeOK
<1>23. ASSUME StopFreeQueue PROVE NoRequestLost'
  BY <1>23 DEF StopFreeQueue, NoRequestLost, InSlot, SlotShape, SetupShape,
         TypeOK
<1> QED
  BY <1>1, <1>2, <1>3, <1>4, <1>5, <1>6, <1>7, <1>8, <1>9, <1>10, <1>11,
     <1>12, <1>13, <1>14, <1>15, <1>16, <1>17, <1>18, <1>19, <1>20, <1>21,
     <1>22, <1>23 DEF Next, ClientCall, Manager, Runner, Stop

(***************************************************************************)
(* RequestInv holds in every reachable state.                              *)
(***************************************************************************)
THEOREM RequestInvariant == Spec => []RequestInv
<1>1. RequestInv /\ [Next]_vars => RequestInv'
  <2> SUFFICES ASSUME RequestInv, [Next]_vars PROVE RequestInv'
    OBVIOUS
  <2>1. CASE Next
    BY <2>1, TypeStep, SetupStep, SlotStep, RequestStep DEF RequestInv
  <2>2. CASE UNCHANGED vars
    BY <2>2 DEF vars, RequestInv, TypeOK, SetupShape, SlotShape,
                NoRequestLost, InSlot
  <2> QED
    BY <2>1, <2>2
<1> QED
  BY <1>1, InitRequest, PTL DEF Spec

(***************************************************************************)
(* The blocking queue with one slot loses, doubles and overwrites no       *)
(* request, however many clients push at a time and whenever the manager   *)
(* is started and stopped.                                                 *)
(***************************************************************************)
THEOREM RequestsAreKept == Spec => []NoRequestLost
<1>1. RequestInv => NoRequestLost
  BY DEF RequestInv
<1> QED
  BY <1>1, RequestInvariant, PTL

-----------------------------------------------------------------------------
(* Applications that keep to what MayAsk, MayStop and TimesOut say.        *)

(* Every step keeps ListShape, careful or not. *)
LEMMA ListStep ==
  ASSUME TypeOK, SetupShape, ListShape, Next
  PROVE  ListShape'
<1>1. ASSUME NEW c \in Clients, NEW k \in Configs, workqueue_find_or_create(c, k) PROVE ListShape'
  BY <1>1 DEF workqueue_find_or_create, MayAsk, ClientAt, ListShape,
     SetupShape, TypeOK
<1>2. ASSUME NEW c \in Clients, Find(c) PROVE ListShape'
  BY <1>2 DEF Find, ClientAt, Matches, ListShape, SetupShape, TypeOK
<1>3. ASSUME NEW c \in Clients, Push(c) PROVE ListShape'
  BY <1>3 DEF Push, ClientAt, PushWait, ListShape, SetupShape, TypeOK
<1>4. ASSUME NEW c \in Clients, PushConfig(c) PROVE ListShape'
  BY <1>4 DEF PushConfig, ClientAt, PushWrite, ListShape, SetupShape, TypeOK
<1>5. ASSUME NEW c \in Clients, Poll(c) PROVE ListShape'
  BY <1>5 DEF Poll, ClientAt, Matches, TimesOut, ListShape, SetupShape,
     TypeOK
<1>6. ASSUME NEW c \in Clients, Attach(c) PROVE ListShape'
  BY <1>6 DEF Attach, ClientAt, ListShape, SetupShape, TypeOK
<1>7. ASSUME MgrAlloc PROVE ListShape'
  BY <1>7 DEF MgrAlloc, ListShape, SetupShape, TypeOK
<1>8. ASSUME MgrInit PROVE ListShape'
  BY <1>8 DEF MgrInit, ListShape, SetupShape, TypeOK
<1>9. ASSUME MgrCheck PROVE ListShape'
  BY <1>9 DEF MgrCheck, ListShape, SetupShape, TypeOK
<1>10. ASSUME MgrPop PROVE ListShape'
  BY <1>10 DEF MgrPop, PopWait, ListShape, SetupShape, TypeOK
<1>11. ASSUME MgrRead PROVE ListShape'
  BY <1>11 DEF MgrRead, PopRead, ListShape, SetupShape, TypeOK
<1>12. ASSUME MgrCreate PROVE ListShape'
  BY <1>12 DEF MgrCreate, ListShape, SetupShape, TypeOK
<1>13. ASSUME NEW r \in Runners, RunnerAdd(r) PROVE ListShape'
  BY <1>13 DEF RunnerAdd, ListShape, SetupShape, TypeOK
<1>14. ASSUME NEW r \in Runners, LastDetach(r) PROVE ListShape'
  BY <1>14 DEF LastDetach, ListShape, SetupShape, TypeOK
<1>15. ASSUME NEW r \in Runners, RunnerRemove(r) PROVE ListShape'
  BY <1>15 DEF RunnerRemove, ListShape, SetupShape, TypeOK
<1>16. ASSUME workqueue_manager_start PROVE ListShape'
  BY <1>16 DEF workqueue_manager_start, ListShape, SetupShape, TypeOK
<1>17. ASSUME workqueue_manager_stop PROVE ListShape'
  BY <1>17 DEF workqueue_manager_stop, MayStop, ListShape, SetupShape,
     TypeOK
<1>18. ASSUME StopAsk PROVE ListShape'
  BY <1>18 DEF StopAsk, ListShape, SetupShape, TypeOK
<1>19. ASSUME StopFreeList PROVE ListShape'
  BY <1>19 DEF StopFreeList, ListShape, SetupShape, TypeOK
<1>20. ASSUME StopExit PROVE ListShape'
  BY <1>20 DEF StopExit, ListShape, SetupShape, TypeOK
<1>21. ASSUME StopPush PROVE ListShape'
  BY <1>21 DEF StopPush, PushWait, ListShape, SetupShape, TypeOK
<1>22. ASSUME StopPushNull PROVE ListShape'
  BY <1>22 DEF StopPushNull, PushWrite, ListShape, SetupShape, TypeOK
<1>23. ASSUME StopFreeQueue PROVE ListShape'
  BY <1>23 DEF StopFreeQueue, MgrRests, ListShape, SetupShape, TypeOK
<1> QED
  BY <1>1, <1>2, <1>3, <1>4, <1>5, <1>6, <1>7, <1>8, <1>9, <1>10, <1>11,
     <1>12, <1>13, <1>14, <1>15, <1>16, <1>17, <1>18, <1>19, <1>20, <1>21,
     <1>22, <1>23 DEF Next, ClientCall, Manager, Runner, Stop

(* With careful applications every step keeps AskShape. *)
LEMMA AskStep ==
  ASSUME Careful, RequestInv, CarefulInv, Next
  PROVE  AskShape'
<1>1. ASSUME NEW c \in Clients, NEW k \in Configs, workqueue_find_or_create(c, k) PROVE AskShape'
  BY <1>1 DEF workqueue_find_or_create, MayAsk, ClientAt, AskShape, Matches,
     RequestInv, CarefulInv, TypeOK
<1>2. ASSUME NEW c \in Clients, Find(c) PROVE AskShape'
  BY <1>2 DEF Find, ClientAt, Matches, AskShape, RequestInv, CarefulInv,
     TypeOK
<1>3. ASSUME NEW c \in Clients, Push(c) PROVE AskShape'
  BY <1>3 DEF Push, ClientAt, PushWait, AskShape, Matches, RequestInv,
     CarefulInv, TypeOK
<1>4. ASSUME NEW c \in Clients, PushConfig(c) PROVE AskShape'
  BY <1>4 DEF PushConfig, ClientAt, PushWrite, AskShape, Matches,
     RequestInv, CarefulInv, TypeOK
<1>5. ASSUME NEW c \in Clients, Poll(c) PROVE AskShape'
  BY <1>5 DEF Poll, ClientAt, Matches, TimesOut, AskShape, RequestInv,
     CarefulInv, TypeOK
<1>6. ASSUME NEW c \in Clients, Attach(c) PROVE AskShape'
  BY <1>6 DEF Attach, ClientAt, AskShape, Matches, RequestInv, CarefulInv,
     TypeOK
<1>7. ASSUME MgrAlloc PROVE AskShape'
  BY <1>7 DEF MgrAlloc, AskShape, Matches, RequestInv, CarefulInv, TypeOK
<1>8. ASSUME MgrInit PROVE AskShape'
  BY <1>8 DEF MgrInit, AskShape, Matches, RequestInv, CarefulInv, TypeOK
<1>9. ASSUME MgrCheck PROVE AskShape'
  BY <1>9 DEF MgrCheck, AskShape, Matches, RequestInv, CarefulInv, TypeOK
<1>10. ASSUME MgrPop PROVE AskShape'
  BY <1>10 DEF MgrPop, PopWait, AskShape, Matches, RequestInv, CarefulInv,
     TypeOK
<1>11. ASSUME MgrRead PROVE AskShape'
  BY <1>11 DEF MgrRead, PopRead, AskShape, Matches, RequestInv, CarefulInv,
     TypeOK
<1>12. ASSUME MgrCreate PROVE AskShape'
  <2>1. \A r \in listed : config'[r] = config[r]
    BY <1>12 DEF MgrCreate, CarefulInv, ListShape, RequestInv, TypeOK
  <2>2. \A k : Matches(k)' = Matches(k)
    BY <1>12, <2>1 DEF MgrCreate, Matches
  <2> QED
    BY <1>12, <2>2 DEF MgrCreate, AskShape, CarefulInv
<1>13. ASSUME NEW r \in Runners, RunnerAdd(r) PROVE AskShape'
  <2>1. PICK d \in Clients : pc[d] = "poll" /\ want[d] = config[r]
    BY <1>13 DEF RunnerAdd, CarefulInv, TokenShape, Awaited
  <2>2. \A c \in Clients : pc[c] \in {"push", "write"} => want[c] # config[r]
    BY <2>1 DEF AskShape, CarefulInv
  <2> QED
    BY <1>13, <2>2 DEF RunnerAdd, AskShape, CarefulInv, Matches
<1>14. ASSUME NEW r \in Runners, LastDetach(r) PROVE AskShape'
  BY <1>14 DEF LastDetach, AskShape, Matches, RequestInv, CarefulInv, TypeOK
<1>15. ASSUME NEW r \in Runners, RunnerRemove(r) PROVE AskShape'
  BY <1>15 DEF RunnerRemove, AskShape, Matches, RequestInv, CarefulInv,
     TypeOK
<1>16. ASSUME workqueue_manager_start PROVE AskShape'
  BY <1>16 DEF workqueue_manager_start, AskShape, Matches, RequestInv,
     CarefulInv, TypeOK
<1>17. ASSUME workqueue_manager_stop PROVE AskShape'
  BY <1>17 DEF workqueue_manager_stop, MayStop, AskShape, Matches,
     RequestInv, CarefulInv, TypeOK
<1>18. ASSUME StopAsk PROVE AskShape'
  BY <1>18 DEF StopAsk, AskShape, Matches, RequestInv, CarefulInv, TypeOK
<1>19. ASSUME StopFreeList PROVE AskShape'
  BY <1>19 DEF StopFreeList, AskShape, Matches, RequestInv, CarefulInv,
     TypeOK
<1>20. ASSUME StopExit PROVE AskShape'
  BY <1>20 DEF StopExit, AskShape, Matches, RequestInv, CarefulInv, TypeOK
<1>21. ASSUME StopPush PROVE AskShape'
  BY <1>21 DEF StopPush, PushWait, AskShape, Matches, RequestInv,
     CarefulInv, TypeOK
<1>22. ASSUME StopPushNull PROVE AskShape'
  BY <1>22 DEF StopPushNull, PushWrite, AskShape, Matches, RequestInv,
     CarefulInv, TypeOK
<1>23. ASSUME StopFreeQueue PROVE AskShape'
  BY <1>23 DEF StopFreeQueue, MgrRests, AskShape, Matches, RequestInv,
     CarefulInv, TypeOK
<1> QED
  BY <1>1, <1>2, <1>3, <1>4, <1>5, <1>6, <1>7, <1>8, <1>9, <1>10, <1>11,
     <1>12, <1>13, <1>14, <1>15, <1>16, <1>17, <1>18, <1>19, <1>20, <1>21,
     <1>22, <1>23 DEF Next, ClientCall, Manager, Runner, Stop

(* With careful applications every step keeps TokenShape. *)
LEMMA TokenStep ==
  ASSUME Careful, RequestInv, CarefulInv, Next
  PROVE  TokenShape'
<1>1. ASSUME NEW c \in Clients, NEW k \in Configs, workqueue_find_or_create(c, k) PROVE TokenShape'
  BY <1>1 DEF workqueue_find_or_create, MayAsk, ClientAt, TokenShape,
     Awaited, Serving, InSlot, RequestInv, CarefulInv, TypeOK
<1>2. ASSUME NEW c \in Clients, Find(c) PROVE TokenShape'
  BY <1>2 DEF Find, ClientAt, Matches, TokenShape, Awaited, Serving, InSlot,
     RequestInv, CarefulInv, TypeOK
<1>3. ASSUME NEW c \in Clients, Push(c) PROVE TokenShape'
  BY <1>3 DEF Push, ClientAt, PushWait, TokenShape, Awaited, Serving,
     InSlot, RequestInv, CarefulInv, TypeOK
<1>4. ASSUME NEW c \in Clients, PushConfig(c) PROVE TokenShape'
  <2> DEFINE k == want[c]
  <2>1. /\ pc[c] = "write" /\ k \in Configs /\ Matches(k) = {}
        /\ \A d \in Clients : pc[d] = "poll" => want[d] # k
    BY <1>4 DEF PushConfig, CarefulInv, AskShape
  <2>2. /\ data' = k
        /\ UNCHANGED <<request, runnerAt, config, listed, want, mgr>>
        /\ pc' = [pc EXCEPT ![c] = "poll"]
    BY <1>4 DEF PushConfig, PushWrite, ClientAt
  <2>3. pc'[c] = "poll" /\ \A d \in Clients : pc[d] = "poll" => pc'[d] = "poll"
    BY <2>2 DEF RequestInv, TypeOK
  <2> HIDE DEF k
  <2>4. /\ \E d \in Clients : pc'[d] = "poll" /\ want'[d] = k
        /\ \A j : Awaited(j) =>
             \E d \in Clients : pc'[d] = "poll" /\ want'[d] = j
    BY <2>2, <2>3 DEF Awaited, k
  <2>5. ~Awaited(k)
    BY <2>1 DEF Awaited
  <2>6. request # k /\ \A r \in Runners : Serving(r) => config[r] # k
    BY <2>1, <2>5 DEF CarefulInv, TokenShape, Serving, Matches
  <2>7. \A r \in Runners : Serving(r)' = Serving(r)
    BY <2>2 DEF Serving
  <2> QED
    <3>1. Awaited(data)'
      BY <2>2, <2>4 DEF Awaited
    <3>2. request' # NULL => Awaited(request)'
      BY <2>2, <2>4 DEF CarefulInv, TokenShape, Awaited
    <3>3. \A r \in Runners : runnerAt'[r] = "init" => Awaited(config[r])'
      BY <2>2, <2>4 DEF CarefulInv, TokenShape, Awaited
    <3> QED
      BY <2>2, <2>6, <2>7, <3>1, <3>2, <3>3 DEF CarefulInv, TokenShape
<1>5. ASSUME NEW c \in Clients, Poll(c) PROVE TokenShape'
  <2>1. UNCHANGED <<slotVars, mgrVars, runnerVars, listed>>
    BY <1>5 DEF Poll
  <2>2. ~UnderWay(want[c]) \/ (pc'[c] = "poll" /\ want'[c] = want[c])
    <3>1. CASE Matches(want[c]) = {}
      BY <1>5, <3>1 DEF Poll, TimesOut, ClientAt, Matches, RequestInv, TypeOK
    <3>2. CASE Matches(want[c]) # {}
      <4>1. PICK r \in listed : config[r] = want[c]
        BY <3>2 DEF Matches
      <4>2. want[c] # NULL /\ r \in Runners /\ runnerAt[r] # "init"
        BY <1>5 DEF Poll, CarefulInv, AskShape, ListShape, RequestInv, TypeOK
      <4> QED
        BY <4>1, <4>2 DEF UnderWay, CarefulInv, TokenShape, Serving
    <3> QED
      BY <3>1, <3>2
  <2>3. \A d \in Clients \ {c} : pc'[d] = pc[d] /\ want'[d] = want[d]
    BY <1>5 DEF Poll, ClientAt, RequestInv, TypeOK
  <2>4. \A k : Awaited(k) /\ UnderWay(k) =>
          \E d \in Clients : pc'[d] = "poll" /\ want'[d] = k
    BY <2>2, <2>3 DEF Awaited
  <2>5. InSlot' = InSlot /\ \A r \in Runners : Serving(r)' = Serving(r)
    BY <2>1 DEF InSlot, Serving
  <2>6. InSlot /\ data # NULL => Awaited(data)'
    <3>1. InSlot /\ data # NULL => Awaited(data) /\ UnderWay(data)
      BY DEF UnderWay, CarefulInv, TokenShape
    <3> QED
      BY <2>1, <2>4, <3>1 DEF Awaited
  <2>7. request # NULL => Awaited(request)'
    <3>1. request # NULL => Awaited(request) /\ UnderWay(request)
      BY DEF UnderWay, CarefulInv, TokenShape
    <3> QED
      BY <2>1, <2>4, <3>1 DEF Awaited
  <2>8. \A r \in Runners : runnerAt[r] = "init" => Awaited(config[r])'
    <3>1. \A r \in Runners : runnerAt[r] = "init" =>
            Awaited(config[r]) /\ UnderWay(config[r])
      BY DEF UnderWay, CarefulInv, TokenShape
    <3> QED
      BY <2>1, <2>4, <3>1 DEF Awaited
  <2> QED
    BY <2>1, <2>5, <2>6, <2>7, <2>8 DEF CarefulInv, TokenShape
<1>6. ASSUME NEW c \in Clients, Attach(c) PROVE TokenShape'
  BY <1>6 DEF Attach, ClientAt, TokenShape, Awaited, Serving, InSlot,
     RequestInv, CarefulInv, TypeOK
<1>7. ASSUME MgrAlloc PROVE TokenShape'
  BY <1>7 DEF MgrAlloc, TokenShape, Awaited, Serving, InSlot, RequestInv,
     CarefulInv, TypeOK
<1>8. ASSUME MgrInit PROVE TokenShape'
  BY <1>8 DEF MgrInit, TokenShape, Awaited, Serving, InSlot, RequestInv,
     CarefulInv, TypeOK
<1>9. ASSUME MgrCheck PROVE TokenShape'
  BY <1>9 DEF MgrCheck, TokenShape, Awaited, Serving, InSlot, RequestInv,
     CarefulInv, TypeOK
<1>10. ASSUME MgrPop PROVE TokenShape'
  BY <1>10 DEF MgrPop, PopWait, TokenShape, Awaited, Serving, InSlot,
     RequestInv, CarefulInv, TypeOK
<1>11. ASSUME MgrRead PROVE TokenShape'
  <2>1. /\ InSlot /\ ~InSlot' /\ request' = data
        /\ UNCHANGED <<runnerVars, listed, pc, want>>
    BY <1>11 DEF MgrRead, PopRead, InSlot, RequestInv, SlotShape, TypeOK
  <2>2. \A r \in Runners : Serving(r)' = Serving(r)
    BY <2>1 DEF Serving
  <2>3. \A k : Awaited(k)' = Awaited(k)
    BY <2>1 DEF Awaited
  <2> QED
    BY <2>1, <2>2, <2>3 DEF CarefulInv, TokenShape
<1>12. ASSUME MgrCreate PROVE TokenShape'
  <2>1. /\ InSlot' = InSlot /\ request' = NULL /\ request # NULL
        /\ UNCHANGED <<data, listed, pc, want>>
    BY <1>12 DEF MgrCreate, InSlot, CarefulInv, EndShape
  <2>2. \A k : Awaited(k)' = Awaited(k)
    BY <2>1 DEF Awaited
  <2>3. CASE UNCHANGED runnerVars
    <3>1. \A r \in Runners : Serving(r)' = Serving(r)
      BY <2>1, <2>3 DEF Serving
    <3> QED
      BY <2>1, <2>2, <2>3, <3>1 DEF CarefulInv, TokenShape
  <2>4. ASSUME NEW r \in Runners,
               runnerAt' = [runnerAt EXCEPT ![r] = "init"],
               config' = [config EXCEPT ![r] = request]
        PROVE  TokenShape'
    <3>1. /\ runnerAt'[r] = "init" /\ config'[r] = request
          /\ \A s \in Runners \ {r} :
               runnerAt'[s] = runnerAt[s] /\ config'[s] = config[s]
      BY <2>4 DEF RequestInv, TypeOK
    <3>2. Serving(r)' /\ \A s \in Runners \ {r} : Serving(s)' = Serving(s)
      BY <2>1, <3>1 DEF Serving
    <3>3. InSlot' /\ data' # NULL =>
            /\ Awaited(data)'
            /\ request' # data'
            /\ \A s \in Runners : Serving(s)' => config'[s] # data'
      BY <2>1, <2>2, <3>1, <3>2 DEF CarefulInv, TokenShape
    <3>4. \A s \in Runners : runnerAt'[s] = "init" => Awaited(config[s])'
      <4> SUFFICES ASSUME NEW s \in Runners, runnerAt'[s] = "init"
                   PROVE  Awaited(config[s])'
        OBVIOUS
      <4>1. CASE s = r
        BY <2>1, <2>2, <3>1, <4>1 DEF CarefulInv, TokenShape, Awaited
      <4>2. CASE s # r
        BY <2>1, <2>2, <3>1, <4>2 DEF CarefulInv, TokenShape, Awaited
      <4> QED
        BY <4>1, <4>2
    <3>5. \A s, u \in Runners :
            Serving(s)' /\ Serving(u)' /\ config'[s] = config'[u] => s = u
      BY <2>1, <3>1, <3>2 DEF CarefulInv, TokenShape
    <3> QED
      BY <2>1, <3>3, <3>4, <3>5 DEF TokenShape
  <2> QED
    BY <1>12, <2>3, <2>4 DEF MgrCreate
<1>13. ASSUME NEW r \in Runners, RunnerAdd(r) PROVE TokenShape'
  BY <1>13 DEF RunnerAdd, TokenShape, Awaited, Serving, InSlot, RequestInv,
     CarefulInv, TypeOK
<1>14. ASSUME NEW r \in Runners, LastDetach(r) PROVE TokenShape'
  BY <1>14 DEF LastDetach, TokenShape, Awaited, Serving, InSlot, RequestInv,
     CarefulInv, TypeOK
<1>15. ASSUME NEW r \in Runners, RunnerRemove(r) PROVE TokenShape'
  BY <1>15 DEF RunnerRemove, TokenShape, Awaited, Serving, InSlot,
     RequestInv, CarefulInv, TypeOK
<1>16. ASSUME workqueue_manager_start PROVE TokenShape'
  BY <1>16 DEF workqueue_manager_start, TokenShape, Awaited, Serving,
     InSlot, RequestInv, CarefulInv, TypeOK
<1>17. ASSUME workqueue_manager_stop PROVE TokenShape'
  BY <1>17 DEF workqueue_manager_stop, MayStop, TokenShape, Awaited,
     Serving, InSlot, RequestInv, CarefulInv, TypeOK
<1>18. ASSUME StopAsk PROVE TokenShape'
  BY <1>18 DEF StopAsk, TokenShape, Awaited, Serving, InSlot, RequestInv,
     CarefulInv, TypeOK
<1>19. ASSUME StopFreeList PROVE TokenShape'
  BY <1>19 DEF StopFreeList, TokenShape, Awaited, Serving, InSlot,
     RequestInv, CarefulInv, TypeOK
<1>20. ASSUME StopExit PROVE TokenShape'
  BY <1>20 DEF StopExit, TokenShape, Awaited, Serving, InSlot, RequestInv,
     CarefulInv, TypeOK
<1>21. ASSUME StopPush PROVE TokenShape'
  BY <1>21 DEF StopPush, PushWait, TokenShape, Awaited, Serving, InSlot,
     RequestInv, CarefulInv, TypeOK
<1>22. ASSUME StopPushNull PROVE TokenShape'
  BY <1>22 DEF StopPushNull, PushWrite, TokenShape, Awaited, Serving,
     InSlot, RequestInv, CarefulInv, TypeOK
<1>23. ASSUME StopFreeQueue PROVE TokenShape'
  BY <1>23 DEF StopFreeQueue, MgrRests, TokenShape, Awaited, Serving,
     InSlot, RequestInv, CarefulInv, TypeOK
<1> QED
  BY <1>1, <1>2, <1>3, <1>4, <1>5, <1>6, <1>7, <1>8, <1>9, <1>10, <1>11,
     <1>12, <1>13, <1>14, <1>15, <1>16, <1>17, <1>18, <1>19, <1>20, <1>21,
     <1>22, <1>23 DEF Next, ClientCall, Manager, Runner, Stop

(* With careful applications every step keeps StopShape. *)
LEMMA StopStep ==
  ASSUME Careful, RequestInv, CarefulInv, Next
  PROVE  StopShape'
<1>1. ASSUME NEW c \in Clients, NEW k \in Configs, workqueue_find_or_create(c, k) PROVE StopShape'
  BY <1>1 DEF workqueue_find_or_create, MayAsk, ClientAt, StopShape,
     RequestInv, CarefulInv, TypeOK
<1>2. ASSUME NEW c \in Clients, Find(c) PROVE StopShape'
  BY <1>2 DEF Find, ClientAt, Matches, StopShape, RequestInv, CarefulInv,
     TypeOK
<1>3. ASSUME NEW c \in Clients, Push(c) PROVE StopShape'
  BY <1>3 DEF Push, ClientAt, PushWait, StopShape, RequestInv, CarefulInv,
     TypeOK
<1>4. ASSUME NEW c \in Clients, PushConfig(c) PROVE StopShape'
  BY <1>4 DEF PushConfig, ClientAt, PushWrite, StopShape, RequestInv,
     CarefulInv, TypeOK
<1>5. ASSUME NEW c \in Clients, Poll(c) PROVE StopShape'
  BY <1>5 DEF Poll, ClientAt, Matches, TimesOut, StopShape, RequestInv,
     CarefulInv, TypeOK
<1>6. ASSUME NEW c \in Clients, Attach(c) PROVE StopShape'
  BY <1>6 DEF Attach, ClientAt, StopShape, RequestInv, CarefulInv, TypeOK
<1>7. ASSUME MgrAlloc PROVE StopShape'
  BY <1>7 DEF MgrAlloc, StopShape, RequestInv, SetupShape, CarefulInv,
              ListShape
<1>8. ASSUME MgrInit PROVE StopShape'
  <2>1. createQueue = "raw" /\ ctl = "idle" /\ ~shouldExit
    BY <1>8 DEF MgrInit, RequestInv, SetupShape, CarefulInv, StopShape
  <2> QED
    BY <1>8, <2>1 DEF MgrInit, StopShape, CarefulInv, ListShape
<1>9. ASSUME MgrCheck PROVE StopShape'
  BY <1>9 DEF MgrCheck, StopShape, RequestInv, CarefulInv, TypeOK
<1>10. ASSUME MgrPop PROVE StopShape'
  BY <1>10 DEF MgrPop, PopWait, StopShape, RequestInv, CarefulInv, TypeOK
<1>11. ASSUME MgrRead PROVE StopShape'
  BY <1>11 DEF MgrRead, PopRead, StopShape, RequestInv, CarefulInv, TypeOK
<1>12. ASSUME MgrCreate PROVE StopShape'
  <2>1. PICK c \in Clients : pc[c] = "poll"
    BY <1>12 DEF MgrCreate, CarefulInv, EndShape, TokenShape, Awaited
  <2>2. wqsList = "ready"
    BY <2>1 DEF CarefulInv, StopShape
  <2> QED
    BY <1>12, <2>2 DEF MgrCreate, StopShape, CarefulInv
<1>13. ASSUME NEW r \in Runners, RunnerAdd(r) PROVE StopShape'
  BY <1>13 DEF RunnerAdd, StopShape, RequestInv, CarefulInv, TypeOK
<1>14. ASSUME NEW r \in Runners, LastDetach(r) PROVE StopShape'
  BY <1>14 DEF LastDetach, StopShape, RequestInv, CarefulInv, TypeOK
<1>15. ASSUME NEW r \in Runners, RunnerRemove(r) PROVE StopShape'
  BY <1>15 DEF RunnerRemove, StopShape, RequestInv, CarefulInv, TypeOK
<1>16. ASSUME workqueue_manager_start PROVE StopShape'
  BY <1>16 DEF workqueue_manager_start, StopShape, RequestInv, CarefulInv,
     TypeOK
<1>17. ASSUME workqueue_manager_stop PROVE StopShape'
  <2>1. ~shouldExit => createQueue = "ready"
    BY <1>17 DEF workqueue_manager_stop, MayStop, RequestInv, TypeOK, Blocks,
                 CarefulInv, StopShape
  <2> QED
    BY <1>17, <2>1 DEF workqueue_manager_stop, MayStop, StopShape, CarefulInv
<1>18. ASSUME StopAsk PROVE StopShape'
  BY <1>18 DEF StopAsk, StopShape, RequestInv, CarefulInv, TypeOK
<1>19. ASSUME StopFreeList PROVE StopShape'
  <2>1. \A r \in Runners : runnerAt[r] \in {"absent", "gone"}
    BY <1>19 DEF StopFreeList, CarefulInv, StopShape, ListShape, TokenShape,
                 Awaited
  <2> QED
    BY <1>19, <2>1 DEF StopFreeList, StopShape, CarefulInv
<1>20. ASSUME StopExit PROVE StopShape'
  BY <1>20 DEF StopExit, StopShape, RequestInv, SetupShape, CarefulInv
<1>21. ASSUME StopPush PROVE StopShape'
  BY <1>21 DEF StopPush, PushWait, StopShape, RequestInv, CarefulInv, TypeOK
<1>22. ASSUME StopPushNull PROVE StopShape'
  BY <1>22 DEF StopPushNull, PushWrite, StopShape, RequestInv, CarefulInv,
     TypeOK
<1>23. ASSUME StopFreeQueue PROVE StopShape'
  BY <1>23 DEF StopFreeQueue, MgrRests, StopShape, RequestInv, CarefulInv,
     TypeOK
<1> QED
  BY <1>1, <1>2, <1>3, <1>4, <1>5, <1>6, <1>7, <1>8, <1>9, <1>10, <1>11,
     <1>12, <1>13, <1>14, <1>15, <1>16, <1>17, <1>18, <1>19, <1>20, <1>21,
     <1>22, <1>23 DEF Next, ClientCall, Manager, Runner, Stop

(* With careful applications every step keeps EndShape. *)
LEMMA EndStep ==
  ASSUME Careful, RequestInv, CarefulInv, Next
  PROVE  EndShape'
<1>1. ASSUME NEW c \in Clients, NEW k \in Configs, workqueue_find_or_create(c, k) PROVE EndShape'
  BY <1>1 DEF workqueue_find_or_create, MayAsk, ClientAt, EndShape, InSlot,
     RequestInv, CarefulInv, TypeOK
<1>2. ASSUME NEW c \in Clients, Find(c) PROVE EndShape'
  BY <1>2 DEF Find, ClientAt, Matches, EndShape, InSlot, RequestInv,
     CarefulInv, TypeOK
<1>3. ASSUME NEW c \in Clients, Push(c) PROVE EndShape'
  BY <1>3 DEF Push, ClientAt, PushWait, EndShape, InSlot, RequestInv,
     CarefulInv, TypeOK
<1>4. ASSUME NEW c \in Clients, PushConfig(c) PROVE EndShape'
  <2>1. want[c] # NULL
    BY <1>4 DEF PushConfig, CarefulInv, AskShape
  <2>2. ctl = "idle"
    BY <1>4 DEF PushConfig, CarefulInv, StopShape
  <2> QED
    BY <1>4, <2>1, <2>2 DEF PushConfig, PushWrite, EndShape, CarefulInv
<1>5. ASSUME NEW c \in Clients, Poll(c) PROVE EndShape'
  BY <1>5 DEF Poll, ClientAt, Matches, TimesOut, EndShape, InSlot,
     RequestInv, CarefulInv, TypeOK
<1>6. ASSUME NEW c \in Clients, Attach(c) PROVE EndShape'
  BY <1>6 DEF Attach, ClientAt, EndShape, InSlot, RequestInv, CarefulInv,
     TypeOK
<1>7. ASSUME MgrAlloc PROVE EndShape'
  BY <1>7 DEF MgrAlloc, EndShape, InSlot, RequestInv, CarefulInv, TypeOK
<1>8. ASSUME MgrInit PROVE EndShape'
  BY <1>8 DEF MgrInit, EndShape, InSlot, RequestInv, CarefulInv, TypeOK
<1>9. ASSUME MgrCheck PROVE EndShape'
  BY <1>9 DEF MgrCheck, EndShape, InSlot, CarefulInv, StopShape
<1>10. ASSUME MgrPop PROVE EndShape'
  BY <1>10 DEF MgrPop, PopWait, EndShape, InSlot, RequestInv, CarefulInv,
     TypeOK
<1>11. ASSUME MgrRead PROVE EndShape'
  BY <1>11 DEF MgrRead, PopRead, EndShape, InSlot, RequestInv, CarefulInv,
     TypeOK
<1>12. ASSUME MgrCreate PROVE EndShape'
  BY <1>12 DEF MgrCreate, EndShape, InSlot, RequestInv, CarefulInv, TypeOK
<1>13. ASSUME NEW r \in Runners, RunnerAdd(r) PROVE EndShape'
  BY <1>13 DEF RunnerAdd, EndShape, InSlot, RequestInv, CarefulInv, TypeOK
<1>14. ASSUME NEW r \in Runners, LastDetach(r) PROVE EndShape'
  BY <1>14 DEF LastDetach, EndShape, InSlot, RequestInv, CarefulInv, TypeOK
<1>15. ASSUME NEW r \in Runners, RunnerRemove(r) PROVE EndShape'
  BY <1>15 DEF RunnerRemove, EndShape, InSlot, RequestInv, CarefulInv,
     TypeOK
<1>16. ASSUME workqueue_manager_start PROVE EndShape'
  BY <1>16 DEF workqueue_manager_start, EndShape, InSlot, CarefulInv,
               RequestInv, SetupShape
<1>17. ASSUME workqueue_manager_stop PROVE EndShape'
  BY <1>17 DEF workqueue_manager_stop, MayStop, EndShape, InSlot,
     RequestInv, CarefulInv, TypeOK
<1>18. ASSUME StopAsk PROVE EndShape'
  BY <1>18 DEF StopAsk, EndShape, InSlot, RequestInv, CarefulInv, TypeOK
<1>19. ASSUME StopFreeList PROVE EndShape'
  BY <1>19 DEF StopFreeList, EndShape, InSlot, RequestInv, CarefulInv,
     TypeOK
<1>20. ASSUME StopExit PROVE EndShape'
  BY <1>20 DEF StopExit, EndShape, InSlot, RequestInv, CarefulInv, TypeOK
<1>21. ASSUME StopPush PROVE EndShape'
  BY <1>21 DEF StopPush, PushWait, EndShape, InSlot, RequestInv, CarefulInv,
     TypeOK
<1>22. ASSUME StopPushNull PROVE EndShape'
  BY <1>22 DEF StopPushNull, PushWrite, EndShape, InSlot, RequestInv,
     CarefulInv, TypeOK
<1>23. ASSUME StopFreeQueue PROVE EndShape'
  <2>1. mgr = "done"
    BY <1>23 DEF StopFreeQueue, MgrRests, CarefulInv, StopShape, EndShape,
                 RequestInv, SetupShape
  <2> QED
    BY <1>23, <2>1 DEF StopFreeQueue, EndShape, InSlot, CarefulInv
<1> QED
  BY <1>1, <1>2, <1>3, <1>4, <1>5, <1>6, <1>7, <1>8, <1>9, <1>10, <1>11,
     <1>12, <1>13, <1>14, <1>15, <1>16, <1>17, <1>18, <1>19, <1>20, <1>21,
     <1>22, <1>23 DEF Next, ClientCall, Manager, Runner, Stop

(***************************************************************************)
(* For careful applications CarefulInv holds in every reachable state.     *)
(***************************************************************************)
THEOREM CarefulInvariant ==
  ASSUME Careful
  PROVE  Spec => [](RequestInv /\ CarefulInv)
<1>1. Init => CarefulInv
  BY DEF Init, CarefulInv, AskShape, TokenShape, ListShape, StopShape,
         EndShape, Matches, Awaited, Serving, InSlot
<1>2. RequestInv /\ CarefulInv /\ [Next]_vars => CarefulInv'
  <2> SUFFICES ASSUME RequestInv, CarefulInv, [Next]_vars PROVE CarefulInv'
    OBVIOUS
  <2>1. CASE Next
    BY <2>1, ListStep, AskStep, TokenStep, StopStep, EndStep DEF RequestInv,
       CarefulInv
  <2>2. CASE UNCHANGED vars
    BY <2>2 DEF vars, CarefulInv, AskShape, TokenShape, ListShape, StopShape,
                EndShape, Matches, Awaited, Serving, InSlot
  <2> QED
    BY <2>1, <2>2
<1> QED
  BY <1>1, <1>2, RequestInvariant, PTL DEF Spec

(***************************************************************************)
(* workqueue_find_or_create never leads to two listed queues of one name,  *)
(* for any numbers of clients, names and runners, if no two clients ask    *)
(* for one name at a time and none gives up on a request under way.        *)
(***************************************************************************)
THEOREM NamesAreUnique ==
  ASSUME Careful
  PROVE  Spec => []OneQueuePerName
<1>1. RequestInv /\ CarefulInv => OneQueuePerName
  BY DEF RequestInv, TypeOK, CarefulInv, TokenShape, Serving, OneQueuePerName
<1> QED
  BY <1>1, CarefulInvariant, PTL

(***************************************************************************)
(* No careful client, no runner and neither the manager nor its stop uses  *)
(* the list or the create queue before they are set up or after they are   *)
(* freed.                                                                  *)
(***************************************************************************)
THEOREM BlocksAreUsedAlive ==
  ASSUME Careful
  PROVE  Spec => []NoStrayUse
<1>1. RequestInv /\ CarefulInv => NoStrayUse
  BY DEF RequestInv, TypeOK, SetupShape, CarefulInv, StopShape, EndShape,
         NoStrayUse, Blocks
<1> QED
  BY <1>1, CarefulInvariant, PTL
===============================================================================
