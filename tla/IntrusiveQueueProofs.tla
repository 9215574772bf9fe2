------------------------ MODULE IntrusiveQueueProofs ------------------------
(***************************************************************************)
(* QueueInv is an inductive invariant of IntrusiveQueue, for any set of    *)
(* nodes, so the pointers always spell the history (Spells).               *)
(***************************************************************************)
EXTENDS IntrusiveQueue, SequenceTheorems, TLAPS

USE NullIsNoNode

-----------------------------------------------------------------------------
(* Facts about sequences, for the operators of FifoOps.                     *)

(* Leaving out the k-th element gives a sequence, one shorter. *)
LEMMA WithoutIsSeq ==
  ASSUME NEW S, NEW s \in Seq(S), NEW k \in 1..Len(s)
  PROVE  /\ Without(s, k) \in Seq(S)
         /\ Len(Without(s, k)) = Len(s) - 1
         /\ \A j \in 1..(Len(s) - 1) :
              Without(s, k)[j] = IF j < k THEN s[j] ELSE s[j + 1]
<1> DEFINE t == Without(s, k)
<1>1. Len(s) \in Nat /\ Len(s) >= 1
  OBVIOUS
<1>2. \A j \in 1..(Len(s) - 1) : t[j] = IF j < k THEN s[j] ELSE s[j + 1]
  BY DEF Without
<1>3. \A j \in 1..(Len(s) - 1) : t[j] \in S
  BY <1>1, <1>2
<1>4. t \in [1..(Len(s) - 1) -> S]
  BY <1>3 DEF Without
<1>5. t \in Seq(S) /\ Len(t) = Len(s) - 1
  BY <1>1, <1>4
<1> QED
  BY <1>2, <1>5

(* Leaving out the first element is taking the tail. *)
LEMMA WithoutFirst ==
  ASSUME NEW S, NEW s \in Seq(S), 1 \in 1..Len(s)
  PROVE  Without(s, 1) = Tail(s)
<1> DEFINE t == Without(s, 1)
<1>1. /\ t \in Seq(S)
      /\ Len(t) = Len(s) - 1
      /\ \A j \in 1..(Len(s) - 1) : t[j] = IF j < 1 THEN s[j] ELSE s[j + 1]
  BY WithoutIsSeq
<1>2. /\ Tail(s) \in Seq(S)
      /\ Len(Tail(s)) = Len(s) - 1
      /\ \A j \in 1..(Len(s) - 1) : Tail(s)[j] = s[j + 1]
  OBVIOUS
<1> HIDE DEF t
<1>3. \A j \in 1..Len(t) : t[j] = Tail(s)[j]
  BY <1>1, <1>2
<1>4. t = Tail(s)
  BY <1>1, <1>2, <1>3, SeqEqual
<1> QED
  BY <1>4 DEF t

(* When no element occurs twice, dropping an element leaves out its place. *)
LEMMA DropAt ==
  ASSUME NEW S, NEW s \in Seq(S), NEW k \in 1..Len(s), Distinct(s)
  PROVE  Drop(s, s[k]) = Without(s, k)
<1>1. Has(s, s[k])
  BY DEF Has
<1>2. \A j \in 1..Len(s) : s[j] = s[k] => j = k
  BY DEF Distinct
<1>3. (CHOOSE j \in 1..Len(s) : s[j] = s[k]) = k
  BY <1>2
<1> QED
  BY <1>1, <1>3 DEF Drop

(* Dropping keeps the elements distinct and takes out the dropped one. *)
LEMMA DropDistinct ==
  ASSUME NEW S, NEW s \in Seq(S), NEW e, Distinct(s)
  PROVE  Distinct(Drop(s, e)) /\ ~Has(Drop(s, e), e)
<1>1. CASE ~Has(s, e)
  BY <1>1 DEF Drop
<1>2. CASE Has(s, e)
  <2>1. PICK k \in 1..Len(s) : s[k] = e
    BY <1>2 DEF Has
  <2>2. Drop(s, e) = Without(s, k)
    BY <2>1, DropAt
  <2> DEFINE t == Without(s, k)
  <2>3. /\ Len(t) = Len(s) - 1
        /\ \A j \in 1..(Len(s) - 1) : t[j] = IF j < k THEN s[j] ELSE s[j + 1]
    BY WithoutIsSeq
  <2> HIDE DEF t
  <2>4. ASSUME NEW j \in 1..Len(t)
        PROVE  /\ t[j] = s[IF j < k THEN j ELSE j + 1]
               /\ (IF j < k THEN j ELSE j + 1) \in 1..Len(s)
    BY <2>3
  <2>5. Distinct(t)
    BY <2>4 DEF Distinct
  <2>6. ~Has(t, e)
    BY <2>1, <2>4 DEF Distinct, Has
  <2> QED
    BY <2>2, <2>5, <2>6 DEF t
<1> QED
  BY <1>1, <1>2

(* Taking the first element leaves the others, distinct if they were. *)
LEMMA TailFacts ==
  ASSUME NEW S, NEW s \in Seq(S), s # <<>>
  PROVE  /\ Tail(s) \in Seq(S)
         /\ Head(s) \in S
         /\ \A x : Has(Tail(s), x) => Has(s, x)
         /\ Distinct(s) => Distinct(Tail(s)) /\ ~Has(Tail(s), Head(s))
<1>1. /\ Tail(s) \in Seq(S)
      /\ Len(s) \in Nat
      /\ Len(s) >= 1
      /\ Len(Tail(s)) = Len(s) - 1
      /\ \A j \in 1..Len(Tail(s)) : Tail(s)[j] = s[j + 1]
      /\ Head(s) = s[1]
  OBVIOUS
<1>2. ASSUME NEW x, Has(Tail(s), x) PROVE Has(s, x)
  <2>1. PICK j \in 1..Len(Tail(s)) : Tail(s)[j] = x
    BY <1>2 DEF Has
  <2>2. j + 1 \in 1..Len(s) /\ s[j + 1] = x
    BY <1>1, <2>1
  <2> QED
    BY <2>2 DEF Has
<1>3. ASSUME Distinct(s) PROVE Distinct(Tail(s)) /\ ~Has(Tail(s), Head(s))
  BY <1>1, <1>3 DEF Distinct, Has
<1> QED
  BY <1>1, <1>2, <1>3

(* Appending an element that does not occur keeps the elements distinct. *)
LEMMA AppendFacts ==
  ASSUME NEW S, NEW s \in Seq(S), NEW e \in S
  PROVE  /\ Append(s, e) \in Seq(S)
         /\ \A x : Has(Append(s, e), x) <=> Has(s, x) \/ x = e
         /\ Distinct(s) /\ ~Has(s, e) => Distinct(Append(s, e))
<1> DEFINE t == Append(s, e)
<1>1. /\ t \in Seq(S)
      /\ Len(s) \in Nat
      /\ Len(t) = Len(s) + 1
      /\ \A j \in 1..Len(s) : t[j] = s[j]
      /\ t[Len(s) + 1] = e
  OBVIOUS
<1> HIDE DEF t
<1>2. ASSUME NEW x PROVE Has(t, x) <=> Has(s, x) \/ x = e
  <2>1. ASSUME Has(t, x) PROVE Has(s, x) \/ x = e
    BY <1>1, <2>1 DEF Has
  <2>2. ASSUME Has(s, x) PROVE Has(t, x)
    BY <1>1, <2>2 DEF Has
  <2>3. ASSUME x = e PROVE Has(t, x)
    BY <1>1, <2>3 DEF Has
  <2> QED
    BY <2>1, <2>2, <2>3
<1>3. ASSUME Distinct(s), ~Has(s, e) PROVE Distinct(t)
  BY <1>1, <1>3 DEF Distinct, Has
<1> QED
  BY <1>1, <1>2, <1>3 DEF t

-----------------------------------------------------------------------------
(* The queue.                                                               *)

(* The empty queue satisfies QueueInv. *)
LEMMA InitQueueInv == Init => QueueInv
BY DEF Init, QueueInv, TypeOK, Spells, Linked, Distinct, CursorOnQueue

(* The test of push tells the queued nodes from the others. *)
LEMMA RefusedIsQueued ==
  ASSUME QueueInv, NEW n \in Nodes
  PROVE  Refused(n) <=> Has(fifo, n)
<1>1. Len(fifo) \in Nat /\ \A k \in 1..Len(fifo) : fifo[k] \in Nodes
  BY DEF QueueInv, TypeOK
<1>2. ASSUME Refused(n) PROVE Has(fifo, n)
  BY <1>1, <1>2 DEF Refused, Has, QueueInv, TypeOK, Spells, Linked
<1>3. ASSUME Has(fifo, n) PROVE Refused(n)
  <2>1. PICK k \in 1..Len(fifo) : fifo[k] = n
    BY <1>3 DEF Has
  <2>2. CASE k = Len(fifo)
    BY <1>1, <2>1, <2>2 DEF Refused, QueueInv, Spells
  <2>3. CASE k # Len(fifo)
    <3>1. k \in 1..(Len(fifo) - 1) /\ k + 1 \in 1..Len(fifo)
      BY <1>1, <2>3
    <3>2. next[n] = fifo[k + 1]
      BY <2>1, <3>1 DEF QueueInv, Spells, Linked
    <3> QED
      BY <1>1, <3>1, <3>2 DEF Refused
  <2> QED
    BY <2>2, <2>3
<1> QED
  BY <1>2, <1>3

(* intrusive_queue_push keeps QueueInv, whether it refuses its node or links it. *)
LEMMA PushKeepsInv ==
  ASSUME QueueInv, NEW n \in Nodes, intrusive_queue_push(n)
  PROVE  QueueInv'
<1> DEFINE L == Len(fifo)
<1>1. /\ L \in Nat
      /\ \A k \in 1..L : fifo[k] \in Nodes
      /\ fifo = <<>> <=> L = 0
  BY DEF QueueInv, TypeOK
<1>2. CASE Has(fifo, n)
  <2>1. UNCHANGED vars
    BY <1>2, RefusedIsQueued DEF intrusive_queue_push, vars
  <2> QED
    BY <2>1 DEF vars, QueueInv, TypeOK, Spells, Linked, CursorOnQueue
<1>3. CASE ~Has(fifo, n)
  <2>1. ~Refused(n)
    BY <1>3, RefusedIsQueued
  <2>2. /\ head' = IF head = NULL THEN n ELSE head
        /\ next' = IF tail # NULL THEN [next EXCEPT ![tail] = n] ELSE next
        /\ tail' = n
        /\ fifo' = Append(fifo, n)
        /\ victim = NULL /\ victim' = NULL
        /\ cursor' = cursor
    BY <1>3, <2>1 DEF intrusive_queue_push, NotInLoop
  <2>3. /\ fifo' \in Seq(Nodes)
        /\ Len(fifo') = L + 1
        /\ \A k \in 1..L : fifo'[k] = fifo[k]
        /\ fifo'[L + 1] = n
    BY <2>2 DEF QueueInv, TypeOK
  <2>4. TypeOK'
    BY <2>2, <2>3 DEF QueueInv, TypeOK
  <2>5. Distinct(fifo')
    BY <1>3, <2>2, AppendFacts DEF QueueInv, TypeOK, Spells
  <2>6. tail' = fifo'[Len(fifo')] /\ fifo' # <<>>
    BY <1>1, <2>2, <2>3
  <2>7. head' = fifo'[1]
    BY <1>1, <2>2, <2>3 DEF QueueInv, Spells
  <2>8. \A k \in 1..(Len(fifo') - 1) : next'[fifo'[k]] = fifo'[k + 1]
    <3> SUFFICES ASSUME NEW k \in 1..L PROVE next'[fifo[k]] = fifo'[k + 1]
      BY <1>1, <2>3
    <3>1. tail = fifo[L] /\ tail # NULL /\ next' = [next EXCEPT ![tail] = n]
      BY <1>1, <2>2 DEF QueueInv, Spells
    <3>2. CASE k = L
      BY <1>1, <2>3, <3>1, <3>2 DEF QueueInv, TypeOK
    <3>3. CASE k # L
      <4>1. k \in 1..(L - 1) /\ k + 1 \in 1..L /\ fifo[k] # fifo[L]
        BY <1>1, <3>3 DEF QueueInv, Spells, Distinct
      <4>2. next[fifo[k]] = fifo[k + 1]
        BY <4>1 DEF QueueInv, Spells, Linked
      <4> QED
        BY <1>1, <2>3, <3>1, <4>1, <4>2 DEF QueueInv, TypeOK
    <3> QED
      BY <3>2, <3>3
  <2>9. ASSUME NEW m \in Nodes, \A k \in 1..(Len(fifo') - 1) : fifo'[k] # m
        PROVE  next'[m] = NULL
    <3>1. \A k \in 1..L : fifo[k] # m
      BY <1>1, <2>3, <2>9
    <3>2. next[m] = NULL
      BY <1>1, <3>1 DEF QueueInv, Spells, Linked
    <3>3. m # tail
      BY <1>1, <3>1 DEF QueueInv, Spells
    <3> QED
      BY <2>2, <3>2, <3>3 DEF QueueInv, TypeOK
  <2>10. CursorOnQueue'
    BY <2>2 DEF QueueInv, CursorOnQueue
  <2> QED
    BY <2>4, <2>5, <2>6, <2>7, <2>8, <2>9, <2>10
       DEF QueueInv, Spells, Linked
<1> QED
  BY <1>2, <1>3

\* What pop and the first branch of remove have in common: the head goes.
TakeHead ==
  /\ victim = NULL
  /\ head # NULL
  /\ head' = IF Len(fifo) = 1 THEN NULL ELSE fifo[2]
  /\ tail' = IF Len(fifo) = 1 THEN NULL ELSE tail
  /\ next' = [next EXCEPT ![head] = NULL]
  /\ fifo' = Tail(fifo)
  /\ UNCHANGED <<victim, cursor>>

(* Taking the head, as pop and the first branch of remove do, keeps QueueInv. *)
LEMMA TakeHeadKeepsInv ==
  ASSUME QueueInv, TakeHead
  PROVE  QueueInv'
<1> DEFINE L == Len(fifo)
<1>1. /\ L \in Nat
      /\ \A k \in 1..L : fifo[k] \in Nodes
      /\ fifo # <<>>
      /\ L >= 1
      /\ head = fifo[1]
      /\ tail = fifo[L]
  BY DEF TakeHead, QueueInv, TypeOK, Spells
<1>2. /\ fifo' \in Seq(Nodes)
      /\ Len(fifo') = L - 1
      /\ \A k \in 1..(L - 1) : fifo'[k] = fifo[k + 1]
      /\ Distinct(fifo')
  BY <1>1, TailFacts DEF TakeHead, QueueInv, TypeOK, Spells
<1>3. TypeOK'
  BY <1>1, <1>2 DEF TakeHead, QueueInv, TypeOK
<1>4. /\ head' = IF fifo' = <<>> THEN NULL ELSE fifo'[1]
      /\ tail' = IF fifo' = <<>> THEN NULL ELSE fifo'[Len(fifo')]
  <2>1. CASE L = 1
    BY <1>1, <1>2, <2>1 DEF TakeHead
  <2>2. CASE L # 1
    <3>1. L \in Nat /\ L >= 2
      BY <1>1, <2>2
    <3>2. Len(fifo') # 0
      BY <1>1, <1>2, <2>2
    <3>3. fifo' # <<>>
      BY <3>2
    <3>4. fifo'[1] = fifo[2] /\ fifo'[Len(fifo')] = fifo[L]
      BY <1>2, <3>1
    <3> QED
      BY <1>1, <2>2, <3>3, <3>4 DEF TakeHead
  <2> QED
    BY <2>1, <2>2
<1>5. ASSUME NEW k \in 1..(Len(fifo') - 1)
      PROVE  next'[fifo'[k]] = fifo'[k + 1]
  <2>1. /\ k + 1 \in 1..(L - 1)
        /\ fifo'[k] = fifo[k + 1]
        /\ fifo'[k + 1] = fifo[k + 2]
        /\ k + 1 \in 1..L
        /\ 1 \in 1..L
    BY <1>1, <1>2
  <2>2. fifo[k + 1] # fifo[1]
    BY <2>1 DEF QueueInv, Spells, Distinct
  <2>3. next[fifo[k + 1]] = fifo[k + 2]
    BY <2>1 DEF QueueInv, Spells, Linked
  <2> QED
    BY <1>1, <2>1, <2>2, <2>3 DEF TakeHead, QueueInv, TypeOK
<1>6. ASSUME NEW m \in Nodes, \A k \in 1..(Len(fifo') - 1) : fifo'[k] # m
      PROVE  next'[m] = NULL
  <2>1. CASE m = fifo[1]
    BY <1>1, <2>1 DEF TakeHead, QueueInv, TypeOK
  <2>2. CASE m # fifo[1]
    <3>1. ASSUME NEW k \in 1..(L - 1) PROVE fifo[k] # m
      <4>1. CASE k = 1
        BY <2>2, <4>1
      <4>2. CASE k # 1
        <5>1. k - 1 \in 1..(Len(fifo') - 1) /\ k - 1 \in 1..(L - 1)
          BY <1>1, <1>2, <4>2
        <5>2. fifo'[k - 1] = fifo[k]
          BY <1>1, <1>2, <5>1
        <5> QED
          BY <1>6, <5>1, <5>2
      <4> QED
        BY <4>1, <4>2
    <3>2. next[m] = NULL
      BY <3>1 DEF QueueInv, Spells, Linked
    <3> QED
      BY <1>1, <2>2, <3>2 DEF TakeHead, QueueInv, TypeOK
  <2> QED
    BY <2>1, <2>2
<1>7. CursorOnQueue'
  BY DEF TakeHead, QueueInv, CursorOnQueue
<1> QED
  BY <1>2, <1>3, <1>4, <1>5, <1>6, <1>7 DEF QueueInv, Spells, Linked

(* The successor of the head, read through the pointers. *)
LEMMA HeadSuccessor ==
  ASSUME QueueInv, head # NULL
  PROVE  /\ head = fifo[1]
         /\ Len(fifo) \in Nat \ {0}
         /\ next[head] = IF Len(fifo) = 1 THEN NULL ELSE fifo[2]
         /\ next[head] = NULL <=> Len(fifo) = 1
         /\ head = tail <=> Len(fifo) = 1
<1> DEFINE L == Len(fifo)
<1>1. /\ L \in Nat
      /\ \A k \in 1..L : fifo[k] \in Nodes
      /\ L >= 1
      /\ head = fifo[1]
      /\ tail = fifo[L]
  BY DEF QueueInv, TypeOK, Spells
<1>2. head = tail <=> L = 1
  BY <1>1 DEF QueueInv, Spells, Distinct
<1>3. CASE L = 1
  <2>1. next[head] = NULL
    BY <1>1, <1>3 DEF QueueInv, Spells, Linked
  <2> QED
    BY <1>1, <1>2, <1>3, <2>1
<1>4. CASE L # 1
  <2>1. 1 \in 1..(L - 1) /\ 2 \in 1..L
    BY <1>1, <1>4
  <2>2. next[head] = fifo[2]
    BY <1>1, <2>1 DEF QueueInv, Spells, Linked
  <2> QED
    BY <1>1, <1>2, <1>4, <2>1, <2>2
<1> QED
  BY <1>3, <1>4

(* intrusive_queue_pop keeps QueueInv, for the last node too. *)
LEMMA PopKeepsInv ==
  ASSUME QueueInv, intrusive_queue_pop
  PROVE  QueueInv'
<1>1. head # NULL /\ victim = NULL
  BY DEF intrusive_queue_pop, NotInLoop
<1>2. /\ head' = IF Len(fifo) = 1 THEN NULL ELSE fifo[2]
      /\ tail' = IF Len(fifo) = 1 THEN NULL ELSE tail
  BY <1>1, HeadSuccessor DEF intrusive_queue_pop
<1> QED
  BY <1>1, <1>2, TakeHeadKeepsInv DEF TakeHead, intrusive_queue_pop

(* intrusive_queue_remove of the head keeps QueueInv. *)
LEMMA RemoveHeadKeepsInv ==
  ASSUME QueueInv, NEW n \in Nodes, RemoveHead(n)
  PROVE  QueueInv'
<1>1. head # NULL /\ victim = NULL /\ n = head
  BY DEF RemoveHead, NotInLoop
<1>2. /\ head' = IF Len(fifo) = 1 THEN NULL ELSE fifo[2]
      /\ tail' = IF Len(fifo) = 1 THEN NULL ELSE tail
  BY <1>1, HeadSuccessor DEF RemoveHead
<1>3. next' = [next EXCEPT ![head] = NULL]
  BY <1>1, HeadSuccessor DEF RemoveHead, QueueInv, TypeOK
<1>4. fifo' = Tail(fifo)
  <2>1. fifo \in Seq(Nodes) /\ 1 \in 1..Len(fifo) /\ fifo[1] = n
    BY <1>1, HeadSuccessor DEF QueueInv, TypeOK
  <2>2. fifo' = Without(fifo, 1)
    BY <2>1, DropAt DEF RemoveHead, QueueInv, Spells
  <2> QED
    BY <2>1, <2>2, WithoutFirst
<1> QED
  BY <1>1, <1>2, <1>3, <1>4, TakeHeadKeepsInv DEF TakeHead, RemoveHead

(* Entering the loop of intrusive_queue_remove keeps QueueInv. *)
LEMMA EnterLoopKeepsInv ==
  ASSUME QueueInv, NEW n \in Nodes, RemoveEnterLoop(n)
  PROVE  QueueInv'
<1>1. /\ UNCHANGED <<head, tail, next, fifo>>
      /\ victim' = n
      /\ cursor' = head
      /\ n # head
      /\ head # NULL
  BY DEF RemoveEnterLoop
<1>2. 1 \in 1..Len(fifo) /\ head = fifo[1]
  BY <1>1, HeadSuccessor
<1>3. CursorOnQueue'
  BY <1>1, <1>2 DEF QueueInv, CursorOnQueue
<1>4. TypeOK'
  BY <1>1 DEF QueueInv, TypeOK
<1>5. Spells'
  BY <1>1 DEF QueueInv, Spells, Linked
<1> QED
  BY <1>3, <1>4, <1>5 DEF QueueInv

(* In the loop, the node after the cursor is its successor in the queue. *)
LEMMA CursorPosition ==
  ASSUME QueueInv, victim # NULL
  PROVE  \E c \in 1..Len(fifo) :
           /\ cursor = fifo[c]
           /\ \A j \in 1..c : fifo[j] # victim
           /\ next[cursor] = IF c = Len(fifo) THEN NULL ELSE fifo[c + 1]
           /\ next[cursor] = NULL <=> c = Len(fifo)
<1>1. Len(fifo) \in Nat /\ \A k \in 1..Len(fifo) : fifo[k] \in Nodes
  BY DEF QueueInv, TypeOK
<1>2. PICK c \in 1..Len(fifo) :
        cursor = fifo[c] /\ \A j \in 1..c : fifo[j] # victim
  BY DEF QueueInv, CursorOnQueue
<1>3. CASE c = Len(fifo)
  <2>1. \A k \in 1..(Len(fifo) - 1) : fifo[k] # fifo[c]
    BY <1>1, <1>3 DEF QueueInv, Spells, Distinct
  <2>2. next[cursor] = NULL
    BY <1>1, <1>2, <2>1 DEF QueueInv, Spells, Linked
  <2> QED
    BY <1>2, <1>3, <2>2
<1>4. CASE c # Len(fifo)
  <2>1. c \in 1..(Len(fifo) - 1) /\ c + 1 \in 1..Len(fifo)
    BY <1>1, <1>4
  <2>2. next[cursor] = fifo[c + 1]
    BY <1>2, <2>1 DEF QueueInv, Spells, Linked
  <2> QED
    BY <1>1, <1>2, <1>4, <2>1, <2>2
<1> QED
  BY <1>3, <1>4

(* An iteration of the loop that finds nothing keeps QueueInv. *)
LEMMA AdvanceKeepsInv ==
  ASSUME QueueInv, RemoveAdvance
  PROVE  QueueInv'
<1>1. victim # NULL /\ next[cursor] # victim
  BY DEF RemoveAdvance
<1>2. PICK c \in 1..Len(fifo) :
           /\ cursor = fifo[c]
           /\ \A j \in 1..c : fifo[j] # victim
           /\ next[cursor] = IF c = Len(fifo) THEN NULL ELSE fifo[c + 1]
           /\ next[cursor] = NULL <=> c = Len(fifo)
  BY <1>1, CursorPosition
<1>3. Len(fifo) \in Nat /\ cursor \in Nodes
  BY <1>2 DEF QueueInv, TypeOK
<1>4. TypeOK'
  BY <1>3 DEF RemoveAdvance, QueueInv, TypeOK
<1>5. Spells'
  BY DEF RemoveAdvance, QueueInv, Spells, Linked
<1>6. CursorOnQueue'
  <2>1. CASE c = Len(fifo)
    BY <1>2, <2>1 DEF RemoveAdvance, CursorOnQueue
  <2>2. CASE c # Len(fifo)
    <3>1. c + 1 \in 1..Len(fifo) /\ cursor' = fifo[c + 1] /\ victim' = victim
      BY <1>2, <1>3, <2>2 DEF RemoveAdvance
    <3>2. \A j \in 1..(c + 1) : fifo[j] # victim
      BY <1>1, <1>2, <1>3, <2>2
    <3>3. cursor' # NULL
      BY <1>2, <2>2 DEF RemoveAdvance
    <3>4. fifo' = fifo
      BY DEF RemoveAdvance
    <3> QED
      BY <1>1, <3>1, <3>2, <3>3, <3>4 DEF CursorOnQueue
  <2> QED
    BY <2>1, <2>2
<1> QED
  BY <1>4, <1>5, <1>6 DEF QueueInv

(* The iteration that unlinks its node, inner or last, keeps QueueInv. *)
LEMMA UnlinkKeepsInv ==
  ASSUME QueueInv, RemoveUnlink
  PROVE  QueueInv'
<1> DEFINE L == Len(fifo)
<1>1. victim # NULL /\ next[cursor] = victim
  BY DEF RemoveUnlink
<1>2. PICK c \in 1..L :
           /\ cursor = fifo[c]
           /\ \A j \in 1..c : fifo[j] # victim
           /\ next[cursor] = IF c = Len(fifo) THEN NULL ELSE fifo[c + 1]
           /\ next[cursor] = NULL <=> c = Len(fifo)
  BY <1>1, CursorPosition
<1>3. /\ L \in Nat
      /\ c \in 1..(L - 1)
      /\ c + 1 \in 1..L
      /\ victim = fifo[c + 1]
      /\ cursor # victim
      /\ cursor \in Nodes
      /\ victim \in Nodes
  BY <1>1, <1>2 DEF QueueInv, TypeOK
<1>4. /\ head' = head
      /\ tail' = IF victim = tail THEN cursor ELSE tail
      /\ victim' = NULL
      /\ cursor' = NULL
  BY DEF RemoveUnlink
<1>5. ASSUME NEW m \in Nodes
      PROVE  next'[m] = IF m = victim THEN NULL
                        ELSE IF m = cursor THEN next[victim] ELSE next[m]
  BY <1>3 DEF RemoveUnlink, QueueInv, TypeOK
<1>6. fifo' = Without(fifo, c + 1) /\ Distinct(fifo')
  BY <1>3, DropAt, DropDistinct DEF RemoveUnlink, QueueInv, Spells, TypeOK
<1>7. /\ fifo' \in Seq(Nodes)
      /\ Len(fifo') = L - 1
      /\ \A j \in 1..(L - 1) :
           fifo'[j] = IF j < c + 1 THEN fifo[j] ELSE fifo[j + 1]
  BY <1>3, <1>6, WithoutIsSeq DEF QueueInv, TypeOK
<1>8. TypeOK'
  BY <1>3, <1>4, <1>7 DEF RemoveUnlink, QueueInv, TypeOK
<1>9. /\ \A k \in 1..(L - 1) : next[fifo[k]] = fifo[k + 1]
      /\ \A j, k \in 1..L : fifo[j] = fifo[k] => j = k
      /\ \A k \in 1..L : fifo[k] \in Nodes
      /\ head = fifo[1]
      /\ tail = fifo[L]
  BY <1>3 DEF QueueInv, TypeOK, Spells, Linked, Distinct
<1>10. /\ fifo' # <<>>
       /\ head' = fifo'[1]
  BY <1>3, <1>4, <1>7, <1>9
<1>11. tail' = fifo'[Len(fifo')]
  <2>1. CASE c + 1 = L
    <3>1. tail' = cursor
      BY <1>3, <1>4, <1>9, <2>1
    <3>2. fifo'[L - 1] = fifo[c]
      BY <1>3, <1>7, <2>1
    <3> QED
      BY <1>2, <1>7, <3>1, <3>2
  <2>2. CASE c + 1 # L
    <3>1. victim # tail
      BY <1>3, <1>9, <2>2
    <3>2. fifo'[L - 1] = fifo[L]
      BY <1>3, <1>7, <2>2
    <3> QED
      BY <1>4, <1>7, <1>9, <3>1, <3>2
  <2> QED
    BY <2>1, <2>2
<1>12. ASSUME NEW k \in 1..(Len(fifo') - 1)
       PROVE  next'[fifo'[k]] = fifo'[k + 1]
  <2>1. k \in 1..(L - 2) /\ k \in 1..(L - 1) /\ k + 1 \in 1..(L - 1)
    BY <1>3, <1>7
  <2>2. CASE k < c
    <3>1. fifo'[k] = fifo[k] /\ fifo'[k + 1] = fifo[k + 1]
      BY <1>3, <1>7, <2>1, <2>2
    <3>2. fifo[k] # cursor /\ fifo[k] # victim /\ fifo[k] \in Nodes
      BY <1>2, <1>3, <1>9, <2>1, <2>2
    <3> QED
      BY <1>5, <1>9, <2>1, <3>1, <3>2
  <2>3. CASE k = c
    <3>1. fifo'[k] = cursor /\ fifo'[k + 1] = fifo[c + 2]
      BY <1>2, <1>3, <1>7, <2>1, <2>3
    <3>2. next[victim] = fifo[c + 2]
      BY <1>3, <1>9, <2>1, <2>3
    <3> QED
      BY <1>3, <1>5, <3>1, <3>2
  <2>4. CASE k > c
    <3>1. fifo'[k] = fifo[k + 1] /\ fifo'[k + 1] = fifo[k + 2]
      BY <1>3, <1>7, <2>1, <2>4
    <3>2. /\ fifo[k + 1] # cursor
          /\ fifo[k + 1] # victim
          /\ fifo[k + 1] \in Nodes
          /\ next[fifo[k + 1]] = fifo[k + 2]
      BY <1>2, <1>3, <1>9, <2>1, <2>4
    <3> QED
      BY <1>5, <3>1, <3>2
  <2> QED
    BY <1>3, <2>1, <2>2, <2>3, <2>4
<1>13. ASSUME NEW m \in Nodes, \A k \in 1..(Len(fifo') - 1) : fifo'[k] # m
       PROVE  next'[m] = NULL
  <2>1. CASE m = victim
    BY <1>5, <2>1
  <2>2. CASE m = cursor
    <3>1. fifo'[c] = cursor
      BY <1>2, <1>3, <1>7
    <3>2. c + 1 = L
      BY <1>3, <1>7, <1>13, <2>2, <3>1
    <3>3. \A k \in 1..(L - 1) : fifo[k] # victim
      BY <1>2, <1>3, <3>2
    <3>4. next[victim] = NULL
      BY <1>3, <3>3 DEF QueueInv, Spells, Linked
    <3> QED
      BY <1>3, <1>5, <2>2, <3>4
  <2>3. CASE m # victim /\ m # cursor
    <3>1. ASSUME NEW k \in 1..(L - 1) PROVE fifo[k] # m
      <4>1. CASE k < c
        <5>1. k \in 1..(Len(fifo') - 1) /\ fifo'[k] = fifo[k]
          BY <1>3, <1>7, <4>1
        <5> QED
          BY <1>13, <5>1
      <4>2. CASE k = c \/ k = c + 1
        BY <1>2, <1>3, <2>3, <4>2
      <4>3. CASE k > c + 1
        <5>1. k - 1 \in 1..(Len(fifo') - 1) /\ fifo'[k - 1] = fifo[k]
          BY <1>3, <1>7, <4>3
        <5> QED
          BY <1>13, <5>1
      <4> QED
        BY <1>3, <4>1, <4>2, <4>3
    <3>2. next[m] = NULL
      BY <3>1 DEF QueueInv, Spells, Linked
    <3> QED
      BY <1>5, <2>3, <3>2
  <2> QED
    BY <2>1, <2>2, <2>3
<1>14. CursorOnQueue'
  BY <1>4 DEF CursorOnQueue
<1> QED
  BY <1>6, <1>8, <1>10, <1>11, <1>12, <1>13, <1>14
     DEF QueueInv, Spells, Linked

(***************************************************************************)
(* Whatever calls of push, pop and remove are made, in whatever order, the *)
(* pointers of intrusive_queue.c spell the queued nodes in FIFO order, and *)
(* the loop of remove runs along them.                                     *)
(***************************************************************************)
THEOREM QueueInvariant == Spec => []QueueInv
<1>1. Init => QueueInv
  BY InitQueueInv
<1>2. QueueInv /\ [Next]_vars => QueueInv'
  <2> SUFFICES ASSUME QueueInv, [Next]_vars PROVE QueueInv'
    OBVIOUS
  <2>1. CASE UNCHANGED vars
    BY <2>1 DEF vars, QueueInv, TypeOK, Spells, Linked, CursorOnQueue
  <2>2. ASSUME NEW n \in Nodes, intrusive_queue_push(n) PROVE QueueInv'
    BY <2>2, PushKeepsInv
  <2>3. ASSUME NEW n \in Nodes, intrusive_queue_remove(n) PROVE QueueInv'
    BY <2>3, RemoveHeadKeepsInv, EnterLoopKeepsInv
       DEF intrusive_queue_remove
  <2>4. CASE intrusive_queue_pop
    BY <2>4, PopKeepsInv
  <2>5. CASE RemoveUnlink
    BY <2>5, UnlinkKeepsInv
  <2>6. CASE RemoveAdvance
    BY <2>6, AdvanceKeepsInv
  <2> QED
    BY <2>1, <2>2, <2>3, <2>4, <2>5, <2>6 DEF Next
<1> QED
  BY <1>1, <1>2, PTL DEF Spec

(***************************************************************************)
(* The pointers of intrusive_queue.c spell the pushed, not yet taken nodes *)
(* in the order of the pushes, each once.                                  *)
(***************************************************************************)
THEOREM PointersSpellFifo == Spec => []Spells
<1>1. QueueInv => Spells
  BY DEF QueueInv
<1> QED
  BY <1>1, QueueInvariant, PTL
=============================================================================
