--------------------------- MODULE IntrusiveQueue ---------------------------
(***************************************************************************)
(* The intrusive FIFO of gpm/modules/container/intrusive_queue.c: a queue  *)
(* is a pair of pointers (head, tail) and every node carries its own next  *)
(* pointer, so "is this node queued?" is not stored anywhere and has to be *)
(* guessed from the pointers.  Work queues keep their pending work items   *)
(* in this structure.                                                      *)
(*                                                                         *)
(* Callers hold the work-queue lock around each call, so push and pop are  *)
(* one step.  The loop of remove is one step per iteration, which makes    *)
(* its cursor part of the state.                                           *)
(*                                                                         *)
(* fifo is a history variable: the nodes pushed and not yet taken, oldest  *)
(* first.  No guard reads it.                                              *)
(***************************************************************************)
EXTENDS FifoOps

CONSTANTS
  Nodes,   \* the queue_node members of the work items
  NULL     \* the null pointer

ASSUME NullIsNoNode == NULL \notin Nodes

VARIABLES
  head, tail,   \* struct intrusive_queue_head
  next,         \* the next field of every node
  victim,       \* removeNode while the loop of remove runs, else NULL
  cursor,       \* the loop variable "node" of remove, else NULL
  fifo          \* history: what the queue should contain

vars == <<head, tail, next, victim, cursor, fifo>>

-----------------------------------------------------------------------------
Init ==
  /\ head = NULL
  /\ tail = NULL
  /\ next = [n \in Nodes |-> NULL]
  /\ victim = NULL
  /\ cursor = NULL
  /\ fifo = <<>>

NotInLoop == victim = NULL

(* A push that forgets the test for the tail, whose next is NULL too. *)
Refused_NoTailTest(n) == next[n] # NULL

\* The "already queued" test at the top of intrusive_queue_push.
Refused(n) == next[n] # NULL \/ n = tail

intrusive_queue_push(n) ==
  /\ NotInLoop
  /\ IF Refused(n)
     THEN UNCHANGED <<head, tail, next>>
     ELSE /\ head' = IF head = NULL THEN n ELSE head
          /\ next' = IF tail # NULL THEN [next EXCEPT ![tail] = n] ELSE next
          /\ tail' = n
  /\ fifo' = IF Has(fifo, n) THEN fifo ELSE Append(fifo, n)
  /\ UNCHANGED <<victim, cursor>>

intrusive_queue_pop ==
  /\ NotInLoop
  /\ head # NULL
  /\ head' = IF head # tail THEN next[head] ELSE NULL
  /\ tail' = IF head # tail THEN tail ELSE NULL
  /\ next' = [next EXCEPT ![head] = NULL]
  /\ fifo' = Tail(fifo)
  /\ UNCHANGED <<victim, cursor>>

\* remove, first branch: the node is the head.
RemoveHead(n) ==
  /\ NotInLoop
  /\ n = head
  /\ IF next[head] # NULL
     THEN /\ head' = next[head]
          /\ next' = [next EXCEPT ![n] = NULL]
          /\ UNCHANGED tail
     ELSE /\ head' = NULL
          /\ tail' = NULL
          /\ UNCHANGED next
  /\ fifo' = Drop(fifo, n)
  /\ UNCHANGED <<victim, cursor>>

\* remove, otherwise: enter the loop at the head.
RemoveEnterLoop(n) ==
  /\ NotInLoop
  /\ n # head
  /\ head # NULL
  /\ victim' = n
  /\ cursor' = head
  /\ UNCHANGED <<head, tail, next, fifo>>

(* An unlink that leaves tail pointing at the removed node. *)
RemoveUnlink_StaleTail ==
  /\ victim # NULL
  /\ next[cursor] = victim
  /\ next' = [next EXCEPT ![cursor] = next[victim], ![victim] = NULL]
  /\ victim' = NULL
  /\ cursor' = NULL
  /\ fifo' = Drop(fifo, victim)
  /\ UNCHANGED <<head, tail>>

\* The predecessor is found: unlink the victim and leave the loop.
RemoveUnlink ==
  /\ victim # NULL
  /\ next[cursor] = victim
  /\ tail' = IF victim = tail THEN cursor ELSE tail
  /\ next' = [next EXCEPT ![cursor] = next[victim], ![victim] = NULL]
  /\ victim' = NULL
  /\ cursor' = NULL
  /\ fifo' = Drop(fifo, victim)
  /\ UNCHANGED head

(* A loop that restarts from the second node each time. *)
RemoveAdvance_FromHead ==
  /\ victim # NULL
  /\ next[cursor] # victim
  /\ cursor' = next[head]
  /\ victim' = IF next[head] = NULL THEN NULL ELSE victim
  /\ UNCHANGED <<head, tail, next, fifo>>

\* Not the predecessor: follow next, or fall out of the loop at the end.
RemoveAdvance ==
  /\ victim # NULL
  /\ next[cursor] # victim
  /\ cursor' = next[cursor]
  /\ victim' = IF next[cursor] = NULL THEN NULL ELSE victim
  /\ UNCHANGED <<head, tail, next, fifo>>

intrusive_queue_remove(n) == RemoveHead(n) \/ RemoveEnterLoop(n)

Next ==
  \/ \E n \in Nodes : intrusive_queue_push(n) \/ intrusive_queue_remove(n)
  \/ intrusive_queue_pop
  \/ RemoveUnlink
  \/ RemoveAdvance

\* The loop of remove is ordinary sequential code: once entered it runs on.
Spec == Init /\ [][Next]_vars /\ WF_vars(RemoveUnlink \/ RemoveAdvance)

-----------------------------------------------------------------------------
(* Every pointer is a node or NULL and the history is a sequence of nodes. *)
TypeOK ==
  /\ head \in Nodes \cup {NULL}
  /\ tail \in Nodes \cup {NULL}
  /\ next \in [Nodes -> Nodes \cup {NULL}]
  /\ victim \in Nodes \cup {NULL}
  /\ cursor \in Nodes \cup {NULL}
  /\ fifo \in Seq(Nodes)

\* Only a node that has a successor in the queue has a non-null next.
Linked ==
  /\ \A k \in 1..(Len(fifo) - 1) : next[fifo[k]] = fifo[k + 1]
  /\ \A n \in Nodes :
       (\A k \in 1..(Len(fifo) - 1) : fifo[k] # n) => next[n] = NULL

(***************************************************************************)
(* The pointers spell exactly the nodes pushed and not yet taken, oldest   *)
(* first, each once: so pop returns the oldest one, the two-part test of   *)
(* push refuses exactly the nodes that are already queued (a node that is  *)
(* last in the queue has a null next, like one that is not queued), and    *)
(* remove takes out its argument and nothing else, whatever its position.  *)
(***************************************************************************)
Spells ==
  /\ head = IF fifo = <<>> THEN NULL ELSE fifo[1]
  /\ tail = IF fifo = <<>> THEN NULL ELSE fifo[Len(fifo)]
  /\ Distinct(fifo)
  /\ Linked

\* The cursor of remove is on the queue, and the victim is not at or before it.
CursorOnQueue ==
  /\ (victim = NULL) <=> (cursor = NULL)
  /\ victim # NULL =>
       \E k \in 1..Len(fifo) :
          cursor = fifo[k] /\ \A j \in 1..k : fifo[j] # victim

\* The inductive strengthening of Spells.
QueueInv == TypeOK /\ Spells /\ CursorOnQueue

(***************************************************************************)
(* The search loop of intrusive_queue_remove ends: the chain it follows    *)
(* has no cycle, whatever calls came before.                               *)
(***************************************************************************)
RemoveEnds == (victim # NULL) ~> (victim = NULL)
=============================================================================
