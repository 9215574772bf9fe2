--------------------------- MODULE UorbNodeProofs ---------------------------
(***************************************************************************)
(* The topic of UorbNode, for any publishers and subscribers, queue sizes  *)
(* and numbers of required updates.  The types, the size of the buffer and *)
(* the count of the subscribers are kept whatever the generation counter   *)
(* does; what the buffer keeps, what a reader is given and when its work   *)
(* item is scheduled is proved for as long as the counter has not wrapped  *)
(* around (NoWrap): the slot of a message is its generation modulo the     *)
(* size of the queue, which need not divide 2^32.                          *)
(***************************************************************************)
EXTENDS UorbNode, Integers, FiniteSetTheorems, TLAPS

USE DEF nodeVars, pubVars, subVars, callVars

\* Fewer messages than the range of _generation less the largest queue.
NoWrap == MaxPublished + 255 < Modulus

-----------------------------------------------------------------------------
(* The inductive invariants.                                               *)

\* Before the first message there may be a buffer, with nothing in it, and
\* no publisher goes on to write without one.
AllocInv ==
  /\ data = NULL => published = 0 /\ \A p \in Publishers : ppc[p] # "write"
  /\ data # NULL /\ published = 0 => \A k \in 0..(queue_size - 1) : data[k] = 0

\* A subscription has its node before its callback, and callbacks know of
\* nothing that happened before the topic was last not advertised.
CallbackInv ==
  /\ \A s \in callbacks :
       /\ node[s] /\ pc[s] \notin {"attached", "sizing"}
       /\ ~advertised => since[s] >= published

\* A reader is where the last message left it that it was given, and one
\* that has found something new still has it to read.
ReaderInv ==
  \A s \in Subs :
    /\ last_generation[s] = seen[s]
    /\ seen[s] <= published /\ curr_gen[s] <= published
    /\ pc[s] \in {"updating", "draining"} => seen[s] < published
-----------------------------------------------------------------------------
(* Arithmetic.                                                             *)

(* Division with remainder. *)
LEMMA Division ==
  ASSUME NEW a \in Int, NEW b \in Int, b > 0
  PROVE  a = b * (a \div b) + (a % b)
  BY SMTT(30)

(* A remainder is an index. *)
LEMMA ModRange ==
  ASSUME NEW a \in Int, NEW b \in Nat \ {0}
  PROVE  a % b \in 0..(b - 1)
  OBVIOUS

(* What is less than the modulus is its own remainder. *)
LEMMA ModSmall ==
  ASSUME NEW a \in Nat, NEW b \in Nat \ {0}, a < b
  PROVE  a % b = a
  OBVIOUS

(* Multiples of one another's distance. *)
LEMMA Multiples ==
  ASSUME NEW q \in Nat \ {0}, NEW j \in Int, NEW k \in Int, j < k
  PROVE  q * j + q <= q * k
  OBVIOUS

(* No two messages of a window as long as the queue have the same slot. *)
LEMMA SlotsDiffer ==
  ASSUME NEW a \in Nat, NEW b \in Nat, NEW q \in Nat \ {0}, a < b, b < a + q
  PROVE  a % q # b % q
<1> DEFINE j == a \div q
           k == b \div q
<1>1. a = q * j + (a % q) /\ b = q * k + (b % q)
  BY Division
<1>2. j \in Int /\ k \in Int /\ q * j \in Int /\ q * k \in Int
  OBVIOUS
<1>3. a % q \in Int /\ b % q \in Int
  OBVIOUS
<1> HIDE DEF j, k
<1> SUFFICES ASSUME a % q = b % q PROVE FALSE
  OBVIOUS
<1>4. q * k - q * j = b - a
  BY <1>1, <1>2, <1>3
<1>5. CASE j < k
  BY <1>2, <1>4, <1>5, Multiples
<1>6. CASE k < j
  BY <1>2, <1>4, <1>6, Multiples
<1>7. CASE j = k
  BY <1>2, <1>4, <1>7
<1> QED
  BY <1>2, <1>5, <1>6, <1>7

(* Subtraction by way of the modulus. *)
LEMMA ModOnce ==
  ASSUME NEW x \in Nat, NEW m \in Nat \ {0}, x < m
  PROVE  (x + m) % m = x
<1> DEFINE d == (x + m) \div m
           r == (x + m) % m
<1>1. x + m = m * d + r
  BY Division
<1>2. d \in Int /\ r \in 0..(m - 1) /\ m * d \in Int
  OBVIOUS
<1> HIDE DEF d, r
<1>3. CASE d < 1
  BY <1>1, <1>2, <1>3, Multiples
<1>4. CASE d > 1
  BY <1>1, <1>2, <1>4, Multiples
<1>5. CASE d = 1
  BY <1>1, <1>2, <1>5
<1> QED
  BY <1>2, <1>3, <1>4, <1>5 DEF r

-----------------------------------------------------------------------------
(* Types, the buffer and the count of subscribers.                         *)

\* TypeOK without the count of subscribers.
Types ==
  /\ published \in 0..MaxPublished
  /\ queue_size \in QueueSizes \cup {1}
  /\ data = NULL \/ data \in [0..(queue_size - 1) -> 0..published]
  /\ advertised \in BOOLEAN
  /\ callbacks \subseteq WorkSubs \cup BlockingSubs
  /\ ppc \in [Publishers -> {"off", "opened", "ready", "alloc", "write"}]
  /\ psize \in [Publishers -> QueueSizes \cup {1}]
  /\ pc \in [Subs -> {"idle", "attached", "sizing", "updating", "copying",
                      "entry", "draining", "unlocked", "waiting", "woken"}]
  /\ node \in [Subs -> BOOLEAN]
  /\ last_generation \in [Subs -> 0..(Modulus - 1)]
  /\ curr_gen \in [Subs -> 0..MaxPublished]
  /\ seen \in [Subs -> 0..MaxPublished]
  /\ since \in [Subs -> 0..MaxPublished]
  /\ work \in [Subs -> BOOLEAN]

Subscribers == {s \in Subs : node[s]}
Counted == subscriber_count = Cardinality(Subscribers)

(* What the types say of the numbers. *)
LEMMA NumberFacts ==
  ASSUME Types
  PROVE  /\ published \in Nat /\ published <= MaxPublished
         /\ queue_size \in Nat \ {0} /\ queue_size <= 255
         /\ Generation \in 0..(Modulus - 1)
         /\ MaxPublished \in Nat /\ Modulus \in Nat \ {0}
<1>1. published \in Nat /\ published <= MaxPublished
  BY DEF Types
<1>2. queue_size \in Nat \ {0} /\ queue_size <= 255
  BY NodeConstants DEF Types
<1>3. MaxPublished \in Nat /\ Modulus \in Nat \ {0}
  BY NodeConstants
<1> QED
  BY <1>1, <1>2, <1>3, ModRange DEF Generation

(* The buffer after a message has been written to its slot. *)
LEMMA DataWritten ==
  ASSUME Types, Write, data # NULL, published < MaxPublished
  PROVE  /\ data \in [0..(queue_size - 1) -> 0..published]
         /\ Generation % queue_size \in 0..(queue_size - 1)
         /\ data' \in [0..(queue_size - 1) -> 0..(published + 1)]
         /\ data' # NULL
<1>1. data \in [0..(queue_size - 1) -> 0..published]
  BY DEF Types
<1>2. Generation % queue_size \in 0..(queue_size - 1)
  <2>1. Generation \in Int /\ queue_size \in Nat \ {0}
    BY NumberFacts
  <2> QED
    BY <2>1, ModRange
<1>3. data' = [data EXCEPT ![Generation % queue_size] = published + 1]
  BY DEF Write
<1>4. 0..published \subseteq 0..(published + 1) /\ published + 1 \in 0..(published + 1)
  BY NumberFacts
<1>5. data' \in [0..(queue_size - 1) -> 0..(published + 1)]
  BY <1>1, <1>3, <1>4
<1>6. 0..(published + 1) \subseteq 0..MaxPublished
  BY NumberFacts
<1>7. data' # NULL
  <2>1. data' \in [0..(queue_size - 1) -> 0..MaxPublished]
    BY <1>5, <1>6
  <2>2. NULL \notin [0..(queue_size - 1) -> 0..MaxPublished]
    BY NodeConstants DEF Types
  <2> QED
    BY <2>1, <2>2
<1> QED
  BY <1>1, <1>2, <1>5, <1>7

(* Writing a message keeps the types. *)
LEMMA WriteTypes ==
  ASSUME Types, Write, data # NULL, published < MaxPublished,
         ppc' \in [Publishers -> {"off", "opened", "ready", "alloc", "write"}]
  PROVE  Types'
<1>1. published' \in 0..MaxPublished /\ published' = published + 1
  BY NumberFacts DEF Write
<1>2. queue_size' = queue_size
  BY DEF Write
<1>3. data' \in [0..(queue_size' - 1) -> 0..published']
  BY <1>1, <1>2, DataWritten
<1>4. work' \in [Subs -> BOOLEAN]
  <2>1. \A s \in Subs : (work[s] \/ Called(s, (published + 1) % Modulus)) \in BOOLEAN
    OBVIOUS
  <2> QED
    BY <2>1 DEF Write
<1>5. since' \in [Subs -> 0..MaxPublished]
  <2>1. published + 1 \in 0..MaxPublished /\ 0 \in 0..MaxPublished
    BY NumberFacts
  <2>2. Restart(published + 1) \in [Subs -> 0..MaxPublished]
    BY <2>1 DEF Restart
  <2> QED
    BY <2>2 DEF Write, Types
<1>6. pc' \in [Subs -> {"idle", "attached", "sizing", "updating", "copying",
                        "entry", "draining", "unlocked", "waiting", "woken"}]
  BY DEF Write, Types
<1> QED
  BY <1>1, <1>2, <1>3, <1>4, <1>5, <1>6 DEF Write, Types

(* A reader is left at a generation. *)
LEMMA NextRange ==
  ASSUME Types, NEW g \in 0..(Modulus - 1)
  PROVE  /\ ReadGeneration(g) \in 0..(Modulus - 1)
         /\ NextGeneration(g) \in 0..(Modulus - 1)
<1> DEFINE kept == IF Generation > (g + queue_size) % Modulus
                   THEN (Generation + Modulus - queue_size) % Modulus
                   ELSE g
           read == IF Generation = kept /\ kept > 0 THEN kept - 1 ELSE kept
<1>1. Generation + Modulus - queue_size \in Int /\ Modulus \in Nat \ {0}
  BY NumberFacts
<1>2. (Generation + Modulus - queue_size) % Modulus \in 0..(Modulus - 1)
  BY <1>1, ModRange
<1>3. kept \in 0..(Modulus - 1)
  BY <1>2
<1> HIDE DEF kept
<1>4. read \in 0..(Modulus - 1)
  BY <1>1, <1>3
<1> HIDE DEF read
<1>5. (IF read < Generation THEN read + 1 ELSE read) \in 0..(Modulus - 1)
  BY <1>1, <1>4, NumberFacts
<1> QED
  BY <1>4, <1>5 DEF ReadGeneration, NextGeneration, read, kept

(* Where a copy returns to. *)
LEMMA AfterFacts ==
  /\ DOMAIN After = {"copying", "updating", "draining"}
  /\ After["copying"] = "idle" /\ After["updating"] = "idle"
  /\ After["draining"] = "entry"
  BY DEF After

(* Every step keeps the types; the size changes only without a buffer. *)
LEMMA TypeStep ==
  ASSUME Types, AllocInv, Next
  PROVE  Types'
<1>1. ASSUME NEW p \in Publishers, NEW q \in QueueSizes, advertise(p, q)
   PROVE Types'
  BY <1>1 DEF advertise, Types
<1>2. ASSUME NEW p \in Publishers, update_queue_size(p) PROVE Types'
  <2>1. queue_size' \in QueueSizes \cup {1}
    BY <1>2 DEF update_queue_size, Types
  <2>2. data' = NULL \/ data' \in [0..(queue_size' - 1) -> 0..published']
    BY <1>2 DEF update_queue_size, Types
  <2> QED
    BY <1>2, <2>1, <2>2 DEF update_queue_size, Types
<1>3. ASSUME NEW p \in Publishers, publish(p) PROVE Types'
  BY <1>3 DEF publish, Types
<1>4. ASSUME NEW p \in Publishers, WriteAlloc(p) PROVE Types'
  <2>1. data' = NULL \/ data' \in [0..(queue_size - 1) -> 0..published]
    <3>1. Buffer \in [0..(queue_size - 1) -> 0..published]
      BY NumberFacts DEF Buffer
    <3> QED
      BY <1>4, <3>1 DEF WriteAlloc, Types
  <2> QED
    BY <1>4, <2>1 DEF WriteAlloc, Types
<1>5. ASSUME NEW p \in Publishers, WriteData(p) PROVE Types'
  <2>1. data # NULL
    BY <1>5 DEF WriteData, AllocInv
  <2> QED
    BY <1>5, <2>1, WriteTypes DEF WriteData, Types
<1>6. ASSUME NEW p \in Publishers, InterruptPublishes(p) PROVE Types'
  BY <1>6, WriteTypes DEF InterruptPublishes, Types
<1>7. ASSUME NEW p \in Publishers, unadvertise(p) PROVE Types'
  <2>1. since' \in [Subs -> 0..MaxPublished]
    BY <1>7, NumberFacts DEF unadvertise, Restart, Types
  <2> QED
    BY <1>7, <2>1 DEF unadvertise, Types
<1>8. ASSUME NEW p \in Publishers, DestroyPublication(p) PROVE Types'
  <2>1. since' \in [Subs -> 0..MaxPublished]
    BY <1>8, NumberFacts DEF DestroyPublication, Restart, Types
  <2>2. advertised' \in BOOLEAN
    BY <1>8 DEF DestroyPublication
  <2>3. ppc' \in [Publishers -> {"off", "opened", "ready", "alloc", "write"}]
    BY <1>8 DEF DestroyPublication, Types
  <2> QED
    BY <1>8, <2>1, <2>2, <2>3 DEF DestroyPublication, Types
<1>9. ASSUME NEW s \in Subs, subscribe(s) PROVE Types'
  <2>1. node' \in [Subs -> BOOLEAN]
    BY <1>9 DEF subscribe, Types
  <2> QED
    BY <1>9, <2>1 DEF subscribe, GoTo, Types
<1>10. ASSUME NEW s \in Subs, SubscribeRead(s) PROVE Types'
  BY <1>10, NumberFacts DEF SubscribeRead, GoTo, Types
<1>11. ASSUME NEW s \in Subs, SubscribeStart(s) PROVE Types'
  <2>1. curr_gen[s] \in 0..MaxPublished
    BY DEF Types
  <2>2. FirstGeneration(curr_gen[s] % Modulus) \in 0..(Modulus - 1)
    <3>1. curr_gen[s] % Modulus \in 0..(Modulus - 1)
      <4>1. curr_gen[s] \in Int /\ Modulus \in Nat \ {0}
        BY <2>1, NumberFacts
      <4> QED
        BY <4>1, ModRange
    <3> QED
      BY <3>1, NumberFacts DEF FirstGeneration
  <2>3. FirstGeneration(curr_gen[s]) \in 0..MaxPublished
    BY <2>1, NumberFacts DEF FirstGeneration
  <2>4. 0 \in 0..MaxPublished
    BY NumberFacts
  <2> QED
    BY <1>11, <2>2, <2>3, <2>4 DEF SubscribeStart, GoTo, Types
<1>12. ASSUME NEW s \in Subs, unsubscribe(s) PROVE Types'
  <2>1. node' \in [Subs -> BOOLEAN]
    BY <1>12 DEF unsubscribe, Types
  <2>2. /\ last_generation' \in [Subs -> 0..(Modulus - 1)]
        /\ seen' \in [Subs -> 0..MaxPublished]
    BY <1>12, NumberFacts DEF unsubscribe, Types
  <2> QED
    BY <1>12, <2>1, <2>2 DEF unsubscribe, Types
<1>13. ASSUME NEW s \in Subs, update(s) PROVE Types'
  BY <1>13 DEF update, GoTo, Types
<1>14. ASSUME NEW s \in Subs, copy(s) PROVE Types'
  BY <1>14 DEF copy, GoTo, Types
<1>15. ASSUME NEW s \in Subs, CopyLocked(s) PROVE Types'
  <2>1. last_generation[s] \in 0..(Modulus - 1)
    BY DEF Types
  <2>2. last_generation' \in [Subs -> 0..(Modulus - 1)]
    BY <1>15, <2>1, NextRange DEF CopyLocked, Types
  <2>3. data # NULL => data[Slot(s)] \in 0..MaxPublished
    <3>1. ReadGeneration(last_generation[s]) \in Int
      BY <2>1, NextRange
    <3>2. Slot(s) \in 0..(queue_size - 1)
      BY <3>1, NumberFacts, ModRange DEF Slot
    <3> QED
      BY <3>2, NumberFacts DEF Types
  <2>4. seen' \in [Subs -> 0..MaxPublished]
    BY <1>15, <2>3 DEF CopyLocked, Types
  <2>5. pc' = [pc EXCEPT ![s] = "idle"] \/ pc' = [pc EXCEPT ![s] = "entry"]
    BY <1>15, AfterFacts DEF CopyLocked, GoTo
  <2> QED
    BY <1>15, <2>2, <2>4, <2>5 DEF CopyLocked, Types
<1>16. ASSUME NEW s \in Subs, registerCallback(s) PROVE Types'
  BY <1>16, NumberFacts DEF registerCallback, Types
<1>17. ASSUME NEW s \in Subs, unregisterCallback(s) PROVE Types'
  BY <1>17, NumberFacts DEF unregisterCallback, Types
<1>18. ASSUME NEW s \in Subs, EntryStarts(s) PROVE Types'
  <2>1. work' \in [Subs -> BOOLEAN]
    BY <1>18 DEF EntryStarts, Types
  <2> QED
    BY <1>18, <2>1 DEF EntryStarts, GoTo, Types
<1>19. ASSUME NEW s \in Subs, EntryUpdates(s) PROVE Types'
  BY <1>19 DEF EntryUpdates, GoTo, Types
<1>20. ASSUME NEW s \in Subs, updatedBlocking(s) PROVE Types'
  BY <1>20 DEF updatedBlocking, GoTo, Types
<1>21. ASSUME NEW s \in Subs, BlockingWait(s) PROVE Types'
  BY <1>21 DEF BlockingWait, GoTo, Types
<1>22. ASSUME NEW s \in Subs, BlockingWakes(s) PROVE Types'
  BY <1>22 DEF BlockingWakes, GoTo, Types
<1> QED
  BY <1>1, <1>2, <1>3, <1>4, <1>5, <1>6, <1>7, <1>8, <1>9, <1>10, <1>11,
     <1>12, <1>13, <1>14, <1>15, <1>16, <1>17, <1>18, <1>19, <1>20, <1>21,
     <1>22 DEF Next, Publisher, Subscriber

(* Counting subscribers. *)
LEMMA CountStep ==
  ASSUME Types, Counted, Next
  PROVE  Counted'
<1>0. IsFiniteSet(Subscribers)
  <2>1. Subscribers \in SUBSET Subs
    BY DEF Subscribers
  <2> QED
    BY <2>1, NodeConstants, FS_Subset
<1>1. ASSUME NEW s \in Subs, subscribe(s) PROVE Counted'
  <2>1. s \notin Subscribers /\ Subscribers' = Subscribers \cup {s}
    BY <1>1 DEF subscribe, Subscribers, Types
  <2>2. Cardinality(Subscribers') = Cardinality(Subscribers) + 1
    BY <1>0, <2>1, FS_AddElement
  <2> QED
    BY <1>1, <2>2 DEF subscribe, Counted
<1>2. ASSUME NEW s \in Subs, unsubscribe(s) PROVE Counted'
  <2>1. s \in Subscribers /\ Subscribers' = Subscribers \ {s}
    BY <1>2 DEF unsubscribe, Subscribers, Types
  <2>2. Cardinality(Subscribers') = Cardinality(Subscribers) - 1
    BY <1>0, <2>1, FS_RemoveElement
  <2> QED
    BY <1>2, <2>2 DEF unsubscribe, Counted
<1>3. ASSUME UNCHANGED <<node, subscriber_count>> PROVE Counted'
  BY <1>3 DEF Counted, Subscribers
<1>4. ASSUME NEW p \in Publishers, Publisher(p)
      PROVE  UNCHANGED <<node, subscriber_count>>
  BY <1>4 DEF Publisher, advertise, update_queue_size, publish, WriteAlloc, WriteData,
     InterruptPublishes, Write, unadvertise, DestroyPublication
<1>5. ASSUME NEW s \in Subs, Subscriber(s)
      PROVE  subscribe(s) \/ unsubscribe(s) \/ UNCHANGED <<node, subscriber_count>>
  BY <1>5 DEF Subscriber, SubscribeRead, SubscribeStart, update, copy, CopyLocked,
     registerCallback, unregisterCallback, EntryStarts, EntryUpdates,
     updatedBlocking, BlockingWait, BlockingWakes
<1> QED
  BY <1>1, <1>2, <1>3, <1>4, <1>5 DEF Next

(* A buffer appears before the first message, and never goes. *)
LEMMA AllocStep ==
  ASSUME Types, AllocInv, Next
  PROVE  AllocInv'
<1>1. ASSUME NEW p \in Publishers, NEW q \in QueueSizes, advertise(p, q) PROVE AllocInv'
  BY <1>1 DEF advertise, AllocInv, Types
<1>2. ASSUME NEW p \in Publishers, update_queue_size(p) PROVE AllocInv'
  BY <1>2 DEF update_queue_size, AllocInv, Types
<1>3. ASSUME NEW p \in Publishers, publish(p) PROVE AllocInv'
  BY <1>3 DEF publish, AllocInv, Types
<1>4. ASSUME NEW p \in Publishers, WriteAlloc(p) PROVE AllocInv'
  <2>1. CASE data = NULL
    <3>1. CASE data' = NULL
      BY <1>4, <2>1, <3>1 DEF WriteAlloc, AllocInv, Types
    <3>2. CASE data' # NULL
      <4>1. \A k \in 0..(queue_size' - 1) : data'[k] = 0
        BY <1>4, <2>1, <3>2 DEF WriteAlloc, Buffer
      <4> QED
        BY <3>2, <4>1 DEF AllocInv
    <3> QED
      BY <3>1, <3>2
  <2>2. CASE data # NULL
    BY <1>4, <2>2 DEF WriteAlloc, AllocInv, Types
  <2> QED
    BY <2>1, <2>2
<1>5. ASSUME NEW p \in Publishers, WriteData(p) \/ InterruptPublishes(p) PROVE AllocInv'
  <2>1. data # NULL /\ Write /\ published < MaxPublished
    BY <1>5 DEF WriteData, InterruptPublishes, AllocInv
  <2>2. data' # NULL
    BY <2>1, DataWritten
  <2>3. published' # 0
    BY <2>1, NumberFacts DEF Write
  <2> QED
    BY <2>2, <2>3 DEF AllocInv
<1>6. ASSUME NEW p \in Publishers, unadvertise(p) \/ DestroyPublication(p) PROVE AllocInv'
  BY <1>6 DEF unadvertise, DestroyPublication, AllocInv, Types
<1>7. ASSUME NEW s \in Subs, Subscriber(s) PROVE AllocInv'
  <2>1. UNCHANGED <<published, data, queue_size, ppc>>
    BY <1>7 DEF Subscriber, subscribe, SubscribeRead, SubscribeStart, unsubscribe,
       update, copy, CopyLocked, registerCallback, unregisterCallback, EntryStarts,
       EntryUpdates, updatedBlocking, BlockingWait, BlockingWakes
  <2> QED
    BY <2>1 DEF AllocInv
<1> QED
  BY <1>1, <1>2, <1>3, <1>4, <1>5, <1>6, <1>7 DEF Next, Publisher

-----------------------------------------------------------------------------
(* What the buffer keeps.                                                  *)

(* Until it wraps around, the counter counts the messages. *)
LEMMA GenerationIsCount ==
  ASSUME NoWrap, Types
  PROVE  Generation = published
<1>1. published \in Nat /\ Modulus \in Nat \ {0} /\ published < Modulus
  BY NumberFacts DEF NoWrap
<1> QED
  BY <1>1, ModSmall DEF Generation

(* A message overwrites the one that is queue_size older. *)
LEMMA NewestStep ==
  ASSUME NoWrap, Types, AllocInv, NewestAreKept, Next
  PROVE  NewestAreKept'
<1>1. ASSUME NEW p \in Publishers, WriteData(p) \/ InterruptPublishes(p)
      PROVE  NewestAreKept'
  <2>1. data # NULL /\ Write /\ published < MaxPublished
    BY <1>1 DEF WriteData, InterruptPublishes, AllocInv
  <2> DEFINE q == queue_size
  <2>2. /\ data \in [0..(q - 1) -> 0..published]
        /\ published % q \in 0..(q - 1)
        /\ data' = [data EXCEPT ![published % q] = published + 1]
        /\ published' = published + 1 /\ queue_size' = q
    BY <2>1, DataWritten, GenerationIsCount DEF Write
  <2>3. published \in Nat /\ q \in Nat \ {0}
    BY NumberFacts
  <2> SUFFICES ASSUME NEW m \in 1..(published + 1), m + q > published + 1
               PROVE  data'[(m - 1) % q] = m
    BY <2>2 DEF NewestAreKept
  <2>4. m - 1 \in Int /\ (m - 1) % q \in 0..(q - 1)
    BY <2>3, ModRange
  <2>5. CASE m = published + 1
    <3>1. m - 1 = published
      BY <2>3, <2>5
    <3> QED
      BY <2>2, <2>5, <3>1
  <2>6. CASE m # published + 1
    <3>1. m \in 1..published /\ m + q > published
      BY <2>3, <2>6
    <3>2. data[(m - 1) % q] = m
      BY <2>1, <3>1 DEF NewestAreKept
    <3>3. m - 1 \in Nat /\ m - 1 < published /\ published < (m - 1) + q
      BY <2>3, <3>1
    <3>4. (m - 1) % q # published % q
      BY <2>3, <3>3, SlotsDiffer
    <3> QED
      BY <2>2, <2>4, <3>2, <3>4
  <2> QED
    BY <2>5, <2>6
<1>2. ASSUME NEW p \in Publishers, WriteAlloc(p) PROVE NewestAreKept'
  <2>1. CASE data = NULL
    <3>1. published' = 0
      BY <1>2, <2>1 DEF WriteAlloc, AllocInv
    <3> QED
      BY <3>1 DEF NewestAreKept
  <2>2. CASE data # NULL
    BY <1>2, <2>2 DEF WriteAlloc, NewestAreKept
  <2> QED
    BY <2>1, <2>2
<1>3. ASSUME NEW p \in Publishers, update_queue_size(p) PROVE NewestAreKept'
  BY <1>3 DEF update_queue_size, NewestAreKept
<1>4. ASSUME UNCHANGED <<published, data, queue_size>> PROVE NewestAreKept'
  BY <1>4 DEF NewestAreKept
<1>5. ASSUME NEW p \in Publishers,
             \/ \E q \in QueueSizes : advertise(p, q)
             \/ publish(p) \/ unadvertise(p) \/ DestroyPublication(p)
      PROVE  UNCHANGED <<published, data, queue_size>>
  BY <1>5 DEF advertise, publish, unadvertise, DestroyPublication
<1>6. ASSUME NEW s \in Subs, Subscriber(s)
      PROVE  UNCHANGED <<published, data, queue_size>>
  BY <1>6 DEF Subscriber, subscribe, SubscribeRead, SubscribeStart, unsubscribe,
     update, copy, CopyLocked, registerCallback, unregisterCallback, EntryStarts,
     EntryUpdates, updatedBlocking, BlockingWait, BlockingWakes
<1> QED
  BY <1>1, <1>2, <1>3, <1>4, <1>5, <1>6 DEF Next, Publisher

-----------------------------------------------------------------------------
(* What a reader is given.                                                 *)

(* Without a wrap the arithmetic of uint32_t is that of the integers. *)
LEMMA ReadFacts ==
  ASSUME NoWrap, Types, NEW g \in 0..published
  PROVE  LET kept == IF published > g + queue_size THEN published - queue_size ELSE g
         IN  ReadGeneration(g) = IF published = kept /\ kept > 0 THEN kept - 1 ELSE kept
<1>1. /\ published \in Nat /\ published <= MaxPublished
      /\ queue_size \in Nat \ {0} /\ queue_size <= 255
      /\ MaxPublished \in Nat /\ Modulus \in Nat \ {0}
  BY NumberFacts
<1>2. g + queue_size \in Nat /\ g + queue_size < Modulus
  BY <1>1 DEF NoWrap
<1>3. (g + queue_size) % Modulus = g + queue_size
  BY <1>1, <1>2, ModSmall
<1>4. ASSUME published > g + queue_size
      PROVE  (published + Modulus - queue_size) % Modulus = published - queue_size
  <2> DEFINE x == published - queue_size
  <2>1. x \in Nat /\ x < Modulus /\ published + Modulus - queue_size = x + Modulus
    BY <1>1, <1>4 DEF NoWrap
  <2> QED
    BY <1>1, <2>1, ModOnce
<1> QED
  BY <1>3, <1>4, GenerationIsCount DEF ReadGeneration

(* A copy gives the oldest message that is both new and kept, or the last  *)
(* one again, and leaves the reader there.                                 *)
LEMMA CopyGives ==
  ASSUME NoWrap, Types, AllocInv, NewestAreKept, data # NULL, NEW s \in Subs,
         last_generation[s] <= published
  PROVE  LET g == last_generation[s]
             m == data[Slot(s)]
         IN  /\ NextGeneration(g) = m
             /\ m \in Nat /\ g <= m /\ m <= published
             /\ g < published => g < m
             /\ m > g + 1 => m + queue_size = published + 1
<1> DEFINE g == last_generation[s]
           r == ReadGeneration(g)
<1>1. /\ published \in Nat /\ queue_size \in Nat \ {0} /\ g \in 0..published
  BY NumberFacts DEF Types
<1>2. r = LET kept == IF published > g + queue_size THEN published - queue_size ELSE g
          IN  IF published = kept /\ kept > 0 THEN kept - 1 ELSE kept
  BY <1>1, ReadFacts
<1>3. NextGeneration(g) = IF r < published THEN r + 1 ELSE r
  BY GenerationIsCount DEF NextGeneration
<1>4. Slot(s) = r % queue_size
  BY DEF Slot
<1> HIDE DEF r
<1>5. CASE published = 0
  <2>1. r = 0
    BY <1>1, <1>2, <1>5
  <2>2. Slot(s) \in 0..(queue_size - 1)
    BY <1>1, <1>4, <2>1, ModRange
  <2>3. data[Slot(s)] = 0
    BY <1>5, <2>2 DEF AllocInv
  <2> QED
    BY <1>1, <1>3, <1>5, <2>1, <2>3
<1>6. CASE published > 0
  <2>1. /\ r \in Nat /\ r < published /\ r + 1 + queue_size > published
        /\ g <= r + 1 /\ (g < published => g <= r)
        /\ r > g => r + queue_size = published
    BY <1>1, <1>2, <1>6
  <2>2. r + 1 \in 1..published /\ (r + 1) - 1 = r
    BY <1>1, <2>1
  <2>3. data[Slot(s)] = r + 1
    BY <1>4, <2>1, <2>2 DEF NewestAreKept
  <2> QED
    BY <1>1, <1>3, <2>1, <2>3
<1> QED
  BY <1>1, <1>5, <1>6

(* A reader stays where the last message left it. *)
LEMMA ReaderStep ==
  ASSUME NoWrap, Types, AllocInv, NewestAreKept, ReaderInv, Next
  PROVE  ReaderInv'
<1>1. ASSUME NEW p \in Publishers, NEW q \in QueueSizes, advertise(p, q)
   PROVE ReaderInv'
  BY <1>1 DEF advertise, ReaderInv, Types
<1>2. ASSUME NEW p \in Publishers, update_queue_size(p) PROVE ReaderInv'
  BY <1>2 DEF update_queue_size, ReaderInv, Types
<1>3. ASSUME NEW p \in Publishers, publish(p) PROVE ReaderInv'
  BY <1>3 DEF publish, ReaderInv, Types
<1>4. ASSUME NEW p \in Publishers, WriteAlloc(p) PROVE ReaderInv'
  BY <1>4 DEF WriteAlloc, Buffer, ReaderInv, Types
<1>5. ASSUME NEW p \in Publishers, WriteData(p) PROVE ReaderInv'
  <2>1. Write /\ UNCHANGED <<last_generation, curr_gen, seen>>
    BY <1>5 DEF WriteData, Write
  <2>2. published' = published + 1 /\ published \in Nat
    BY <2>1, NumberFacts DEF Write
  <2>3. \A s \in Subs : pc'[s] \in {"updating", "draining"} => pc'[s] = pc[s]
    BY <2>1 DEF Write
  <2> QED
    BY <2>1, <2>2, <2>3 DEF ReaderInv, Types
<1>6. ASSUME NEW p \in Publishers, InterruptPublishes(p) PROVE ReaderInv'
  <2>1. Write /\ UNCHANGED <<last_generation, curr_gen, seen>>
    BY <1>6 DEF InterruptPublishes, Write
  <2>2. published' = published + 1 /\ published \in Nat
    BY <2>1, NumberFacts DEF Write
  <2>3. \A s \in Subs : pc'[s] \in {"updating", "draining"} => pc'[s] = pc[s]
    BY <2>1 DEF Write
  <2> QED
    BY <2>1, <2>2, <2>3 DEF ReaderInv, Types
<1>7. ASSUME NEW p \in Publishers, unadvertise(p) PROVE ReaderInv'
  BY <1>7 DEF unadvertise, Restart, ReaderInv, Types
<1>8. ASSUME NEW p \in Publishers, DestroyPublication(p) PROVE ReaderInv'
  BY <1>8 DEF DestroyPublication, Restart, ReaderInv, Types
<1>9. ASSUME NEW s \in Subs, subscribe(s) PROVE ReaderInv'
  BY <1>9 DEF subscribe, GoTo, ReaderInv, Types
<1>10. ASSUME NEW s \in Subs, SubscribeRead(s) PROVE ReaderInv'
  BY <1>10, NumberFacts DEF SubscribeRead, GoTo, ReaderInv, Types
<1>11. ASSUME NEW s \in Subs, SubscribeStart(s) PROVE ReaderInv'
  <2>1. /\ curr_gen[s] \in Nat /\ curr_gen[s] <= published
        /\ curr_gen[s] < Modulus
    BY NumberFacts DEF ReaderInv, Types, NoWrap
  <2>2. curr_gen[s] % Modulus = curr_gen[s]
    BY <2>1, NumberFacts, ModSmall
  <2>3. FirstGeneration(curr_gen[s]) <= published
    BY <2>1, NumberFacts DEF FirstGeneration
  <2> QED
    BY <1>11, <2>2, <2>3, NumberFacts DEF SubscribeStart, GoTo, ReaderInv, Types
<1>12. ASSUME NEW s \in Subs, unsubscribe(s) PROVE ReaderInv'
  BY <1>12, NumberFacts DEF unsubscribe, ReaderInv, Types
<1>13. ASSUME NEW s \in Subs, update(s) PROVE ReaderInv'
  <2>1. Updated(s) => seen[s] < published
    BY GenerationIsCount, NumberFacts DEF Updated, ReaderInv, Types
  <2> QED
    BY <1>13, <2>1 DEF update, GoTo, ReaderInv, Types
<1>14. ASSUME NEW s \in Subs, copy(s) PROVE ReaderInv'
  BY <1>14 DEF copy, GoTo, ReaderInv, Types
<1>15. ASSUME NEW s \in Subs, CopyLocked(s) PROVE ReaderInv'
  <2>1. pc' = [pc EXCEPT ![s] = "idle"] \/ pc' = [pc EXCEPT ![s] = "entry"]
    BY <1>15, AfterFacts DEF CopyLocked, GoTo
  <2>2. CASE Advertised(s) /\ data # NULL
    <3> DEFINE m == data[Slot(s)]
    <3>1. /\ seen' = [seen EXCEPT ![s] = m]
          /\ last_generation' =
               [last_generation EXCEPT ![s] = NextGeneration(last_generation[s])]
          /\ UNCHANGED <<published, curr_gen>>
      BY <1>15, <2>2 DEF CopyLocked
    <3>2. NextGeneration(last_generation[s]) = m /\ m <= published
      BY <2>2, CopyGives DEF ReaderInv
    <3> HIDE DEF m
    <3> QED
      BY <2>1, <3>1, <3>2 DEF ReaderInv, Types
  <2>3. CASE ~(Advertised(s) /\ data # NULL)
    BY <1>15, <2>1, <2>3 DEF CopyLocked, ReaderInv, Types
  <2> QED
    BY <2>2, <2>3
<1>16. ASSUME NEW s \in Subs, registerCallback(s) PROVE ReaderInv'
  BY <1>16 DEF registerCallback, ReaderInv, Types
<1>17. ASSUME NEW s \in Subs, unregisterCallback(s) PROVE ReaderInv'
  BY <1>17 DEF unregisterCallback, ReaderInv, Types
<1>18. ASSUME NEW s \in Subs, EntryStarts(s) PROVE ReaderInv'
  BY <1>18 DEF EntryStarts, GoTo, ReaderInv, Types
<1>19. ASSUME NEW s \in Subs, EntryUpdates(s) PROVE ReaderInv'
  <2>1. Updated(s) => seen[s] < published
    BY GenerationIsCount, NumberFacts DEF Updated, ReaderInv, Types
  <2> QED
    BY <1>19, <2>1 DEF EntryUpdates, GoTo, ReaderInv, Types
<1>20. ASSUME NEW s \in Subs, updatedBlocking(s) PROVE ReaderInv'
  <2>1. Updated(s) => seen[s] < published
    BY GenerationIsCount, NumberFacts DEF Updated, ReaderInv, Types
  <2> QED
    BY <1>20, <2>1 DEF updatedBlocking, GoTo, ReaderInv, Types
<1>21. ASSUME NEW s \in Subs, BlockingWait(s) PROVE ReaderInv'
  BY <1>21 DEF BlockingWait, GoTo, ReaderInv, Types
<1>22. ASSUME NEW s \in Subs, BlockingWakes(s) PROVE ReaderInv'
  <2>1. Updated(s) => seen[s] < published
    BY GenerationIsCount, NumberFacts DEF Updated, ReaderInv, Types
  <2> QED
    BY <1>22, <2>1 DEF BlockingWakes, GoTo, ReaderInv, Types
<1> QED
  BY <1>1, <1>2, <1>3, <1>4, <1>5, <1>6, <1>7, <1>8, <1>9, <1>10, <1>11,
     <1>12, <1>13, <1>14, <1>15, <1>16, <1>17, <1>18, <1>19, <1>20, <1>21,
     <1>22 DEF Next, Publisher, Subscriber

-----------------------------------------------------------------------------
(* Whose work item is scheduled.                                           *)

(* Callbacks belong to subscriptions that have their node. *)
LEMMA CallbackStep ==
  ASSUME Types, CallbackInv, Next
  PROVE  CallbackInv'
<1>1. ASSUME NEW p \in Publishers, NEW q \in QueueSizes, advertise(p, q)
   PROVE CallbackInv'
  BY <1>1 DEF advertise, CallbackInv, Types
<1>2. ASSUME NEW p \in Publishers, update_queue_size(p) PROVE CallbackInv'
  BY <1>2 DEF update_queue_size, CallbackInv, Types
<1>3. ASSUME NEW p \in Publishers, publish(p) PROVE CallbackInv'
  BY <1>3 DEF publish, CallbackInv, Types
<1>4. ASSUME NEW p \in Publishers, WriteAlloc(p) PROVE CallbackInv'
  BY <1>4 DEF WriteAlloc, Buffer, CallbackInv, Types
<1>5. ASSUME NEW p \in Publishers, WriteData(p) PROVE CallbackInv'
  <2>1. Write
    BY <1>5 DEF WriteData
  <2>2. /\ \A s \in Subs : pc'[s] \in {"attached", "sizing"} => pc'[s] = pc[s]
        /\ UNCHANGED <<node, callbacks, advertised>>
    BY <2>1 DEF Write
  <2>3. ~advertised => \A s \in callbacks : since'[s] = published'
    BY <2>1, NodeConstants DEF Write, Restart, Types
  <2>4. callbacks \subseteq Subs
    BY NodeConstants DEF Types
  <2>5. published' \in Nat
    BY <2>1, NumberFacts DEF Write
  <2> QED
    BY <2>2, <2>3, <2>4, <2>5 DEF CallbackInv
<1>6. ASSUME NEW p \in Publishers, InterruptPublishes(p) PROVE CallbackInv'
  <2>1. Write
    BY <1>6 DEF InterruptPublishes
  <2>2. /\ \A s \in Subs : pc'[s] \in {"attached", "sizing"} => pc'[s] = pc[s]
        /\ UNCHANGED <<node, callbacks, advertised>>
    BY <2>1 DEF Write
  <2>3. ~advertised => \A s \in callbacks : since'[s] = published'
    BY <2>1, NodeConstants DEF Write, Restart, Types
  <2>4. callbacks \subseteq Subs
    BY NodeConstants DEF Types
  <2>5. published' \in Nat
    BY <2>1, NumberFacts DEF Write
  <2> QED
    BY <2>2, <2>3, <2>4, <2>5 DEF CallbackInv
<1>7. ASSUME NEW p \in Publishers, unadvertise(p) PROVE CallbackInv'
  <2>1. ~advertised' => \A s \in callbacks : since'[s] = published
    BY <1>7, NodeConstants DEF unadvertise, Restart, Types
  <2> QED
    BY <1>7, <2>1, NumberFacts DEF unadvertise, CallbackInv, Types
<1>8. ASSUME NEW p \in Publishers, DestroyPublication(p) PROVE CallbackInv'
  <2>1. ~advertised' => \A s \in callbacks : since'[s] = published
    BY <1>8, NodeConstants DEF DestroyPublication, Restart, Types
  <2> QED
    BY <1>8, <2>1, NumberFacts DEF DestroyPublication, CallbackInv, Types
<1>9. ASSUME NEW s \in Subs, subscribe(s) PROVE CallbackInv'
  BY <1>9, NodeConstants DEF subscribe, GoTo, CallbackInv, Types
<1>10. ASSUME NEW s \in Subs, SubscribeRead(s) PROVE CallbackInv'
  BY <1>10, NodeConstants DEF SubscribeRead, GoTo, CallbackInv, Types
<1>11. ASSUME NEW s \in Subs, SubscribeStart(s) PROVE CallbackInv'
  BY <1>11, NodeConstants DEF SubscribeStart, FirstGeneration, GoTo,
     CallbackInv, Types
<1>12. ASSUME NEW s \in Subs, unsubscribe(s) PROVE CallbackInv'
  BY <1>12, NodeConstants DEF unsubscribe, CallbackInv, Types
<1>13. ASSUME NEW s \in Subs, update(s) PROVE CallbackInv'
  BY <1>13, NodeConstants DEF update, GoTo, CallbackInv, Types
<1>14. ASSUME NEW s \in Subs, copy(s) PROVE CallbackInv'
  BY <1>14, NodeConstants DEF copy, GoTo, CallbackInv, Types
<1>15. ASSUME NEW s \in Subs, CopyLocked(s) PROVE CallbackInv'
  <2>1. pc' = [pc EXCEPT ![s] = "idle"] \/ pc' = [pc EXCEPT ![s] = "entry"]
    BY <1>15, AfterFacts DEF CopyLocked, GoTo
  <2> QED
    BY <1>15, <2>1, NodeConstants DEF CopyLocked, CallbackInv, Types
<1>16. ASSUME NEW s \in Subs, registerCallback(s) PROVE CallbackInv'
  BY <1>16, NumberFacts, NodeConstants DEF registerCallback, CallbackInv, Types
<1>17. ASSUME NEW s \in Subs, unregisterCallback(s) PROVE CallbackInv'
  BY <1>17, NodeConstants DEF unregisterCallback, CallbackInv, Types
<1>18. ASSUME NEW s \in Subs, EntryStarts(s) PROVE CallbackInv'
  BY <1>18, NodeConstants DEF EntryStarts, GoTo, CallbackInv, Types
<1>19. ASSUME NEW s \in Subs, EntryUpdates(s) PROVE CallbackInv'
  BY <1>19, NodeConstants DEF EntryUpdates, GoTo, CallbackInv, Types
<1>20. ASSUME NEW s \in Subs, updatedBlocking(s) PROVE CallbackInv'
  BY <1>20, NodeConstants DEF updatedBlocking, GoTo, CallbackInv, Types
<1>21. ASSUME NEW s \in Subs, BlockingWait(s) PROVE CallbackInv'
  BY <1>21, NodeConstants DEF BlockingWait, GoTo, CallbackInv, Types
<1>22. ASSUME NEW s \in Subs, BlockingWakes(s) PROVE CallbackInv'
  BY <1>22, NodeConstants DEF BlockingWakes, GoTo, CallbackInv, Types
<1> QED
  BY <1>1, <1>2, <1>3, <1>4, <1>5, <1>6, <1>7, <1>8, <1>9, <1>10, <1>11,
     <1>12, <1>13, <1>14, <1>15, <1>16, <1>17, <1>18, <1>19, <1>20, <1>21,
     <1>22 DEF Next, Publisher, Subscriber

(* A callback is not missed: the count has reached what was asked for. *)
LEMMA CalledInTime ==
  ASSUME NoWrap, Types, published < MaxPublished, advertised,
         NEW s \in callbacks \cap WorkSubs, last_generation[s] = seen[s],
         seen[s] <= published, published + 1 >= seen[s] + RequiredUpdates
  PROVE  Called(s, (published + 1) % Modulus)
<1>1. /\ published \in Nat /\ Modulus \in Nat \ {0} /\ published + 1 < Modulus
      /\ RequiredUpdates \in Nat
  BY NumberFacts, NodeConstants DEF NoWrap
<1>2. (published + 1) % Modulus = published + 1
  BY <1>1, ModSmall
<1>3. seen[s] \in Nat
  BY NodeConstants DEF Types
<1>4. (seen[s] + RequiredUpdates) % Modulus <= seen[s] + RequiredUpdates
  <2> DEFINE x == seen[s] + RequiredUpdates
  <2>1. x \in Nat
    BY <1>1, <1>3
  <2> HIDE DEF x
  <2>2. CASE x < Modulus
    <3>1. x % Modulus = x
      BY <1>1, <2>1, <2>2, ModSmall
    <3> QED
      BY <2>1, <3>1 DEF x
  <2>3. CASE ~(x < Modulus)
    <3>1. x % Modulus \in 0..(Modulus - 1)
      BY <1>1, <2>1, ModRange
    <3>2. x % Modulus <= x
      BY <1>1, <2>1, <2>3, <3>1
    <3> QED
      BY <3>2 DEF x
  <2> QED
    BY <2>2, <2>3
<1>5. (seen[s] + RequiredUpdates) % Modulus \in Int
  BY <1>1, <1>3
<1>6. published + 1 >= (seen[s] + RequiredUpdates) % Modulus
  BY <1>1, <1>3, <1>4, <1>5
<1>7. published + 1 # last_generation[s]
  BY <1>1, <1>3
<1> QED
  BY <1>2, <1>6, <1>7 DEF Called

(* A message that is not read yet has been announced. *)
LEMMA ScheduleStep ==
  ASSUME NoWrap, Types, AllocInv, NewestAreKept, CallbackInv, ReaderInv,
     UnreadIsScheduled, Next
  PROVE  UnreadIsScheduled'
<1>1. ASSUME NEW p \in Publishers, NEW q \in QueueSizes, advertise(p, q)
   PROVE UnreadIsScheduled'
  BY <1>1 DEF advertise, UnreadIsScheduled, Unread, Types
<1>2. ASSUME NEW p \in Publishers, update_queue_size(p) PROVE
   UnreadIsScheduled'
  BY <1>2 DEF update_queue_size, UnreadIsScheduled, Unread, Types
<1>3. ASSUME NEW p \in Publishers, publish(p) PROVE UnreadIsScheduled'
  BY <1>3 DEF publish, UnreadIsScheduled, Unread, Types
<1>4. ASSUME NEW p \in Publishers, WriteAlloc(p) PROVE UnreadIsScheduled'
  BY <1>4 DEF WriteAlloc, UnreadIsScheduled, Unread, Types
<1>5. ASSUME NEW p \in Publishers, WriteData(p) PROVE UnreadIsScheduled'
  <2>1. Write /\ published < MaxPublished
    BY <1>5 DEF WriteData
  <2>2. published' = published + 1 /\ published \in Nat
    BY <2>1, NumberFacts DEF Write
  <2>3. ASSUME NEW s \in Subs, Unread(s)' PROVE work'[s]
    <3>1. s \in callbacks \cap WorkSubs /\ published + 1 >= seen[s] + RequiredUpdates
      BY <2>1, <2>2, <2>3 DEF Write, Unread
    <3>2. advertised
      <4>1. CASE ~advertised
        <5>1. since'[s] = published'
          BY <2>1, <2>2, <3>1, <4>1 DEF Write, Restart
        <5> QED
          BY <2>2, <2>3, <5>1 DEF Unread
      <4> QED
        BY <4>1
    <3>3. Called(s, (published + 1) % Modulus)
      BY <2>1, <2>2, <3>1, <3>2, CalledInTime DEF ReaderInv
    <3> QED
      BY <2>1, <3>3 DEF Write
  <2> QED
    BY <2>3 DEF UnreadIsScheduled
<1>6. ASSUME NEW p \in Publishers, InterruptPublishes(p) PROVE
   UnreadIsScheduled'
  <2>1. Write /\ published < MaxPublished
    BY <1>6 DEF InterruptPublishes
  <2>2. published' = published + 1 /\ published \in Nat
    BY <2>1, NumberFacts DEF Write
  <2>3. ASSUME NEW s \in Subs, Unread(s)' PROVE work'[s]
    <3>1. s \in callbacks \cap WorkSubs /\ published + 1 >= seen[s] + RequiredUpdates
      BY <2>1, <2>2, <2>3 DEF Write, Unread
    <3>2. advertised
      <4>1. CASE ~advertised
        <5>1. since'[s] = published'
          BY <2>1, <2>2, <3>1, <4>1 DEF Write, Restart
        <5> QED
          BY <2>2, <2>3, <5>1 DEF Unread
      <4> QED
        BY <4>1
    <3>3. Called(s, (published + 1) % Modulus)
      BY <2>1, <2>2, <3>1, <3>2, CalledInTime DEF ReaderInv
    <3> QED
      BY <2>1, <3>3 DEF Write
  <2> QED
    BY <2>3 DEF UnreadIsScheduled
<1>7. ASSUME NEW p \in Publishers, unadvertise(p) PROVE UnreadIsScheduled'
  <2>1. ASSUME NEW s \in Subs, Unread(s)' PROVE Unread(s)
    BY <1>7, <2>1, NumberFacts DEF unadvertise, Restart, Unread
  <2> QED
    BY <1>7, <2>1 DEF unadvertise, UnreadIsScheduled
<1>8. ASSUME NEW p \in Publishers, DestroyPublication(p) PROVE
   UnreadIsScheduled'
  <2>1. ASSUME NEW s \in Subs, Unread(s)' PROVE Unread(s)
    BY <1>8, <2>1, NumberFacts DEF DestroyPublication, Restart, Unread
  <2> QED
    BY <1>8, <2>1 DEF DestroyPublication, UnreadIsScheduled
<1>9. ASSUME NEW s \in Subs, subscribe(s) PROVE UnreadIsScheduled'
  BY <1>9 DEF subscribe, GoTo, UnreadIsScheduled, Unread, Types
<1>10. ASSUME NEW s \in Subs, SubscribeRead(s) PROVE UnreadIsScheduled'
  BY <1>10 DEF SubscribeRead, GoTo, UnreadIsScheduled, Unread, Types
<1>11. ASSUME NEW s \in Subs, SubscribeStart(s) PROVE UnreadIsScheduled'
  <2>1. ASSUME NEW u \in Subs, Unread(u)' PROVE Unread(u)
    BY <1>11, <2>1 DEF SubscribeStart, CallbackInv, Unread, Types
  <2> QED
    BY <1>11, <2>1 DEF SubscribeStart, GoTo, UnreadIsScheduled, Types
<1>12. ASSUME NEW s \in Subs, unsubscribe(s) PROVE UnreadIsScheduled'
  <2>1. ASSUME NEW u \in Subs, Unread(u)' PROVE Unread(u)
    BY <1>12, <2>1 DEF unsubscribe, Unread, Types
  <2> QED
    BY <1>12, <2>1 DEF unsubscribe, UnreadIsScheduled, Types
<1>13. ASSUME NEW s \in Subs, update(s) PROVE UnreadIsScheduled'
  BY <1>13 DEF update, GoTo, UnreadIsScheduled, Unread, Types
<1>14. ASSUME NEW s \in Subs, copy(s) PROVE UnreadIsScheduled'
  BY <1>14 DEF copy, GoTo, UnreadIsScheduled, Unread, Types
<1>15. ASSUME NEW s \in Subs, CopyLocked(s) PROVE UnreadIsScheduled'
  <2>1. /\ pc' = [pc EXCEPT ![s] = After[pc[s]]]
        /\ pc[s] = "draining" => After[pc[s]] = "entry"
        /\ pc[s] # "entry"
    BY <1>15, AfterFacts DEF CopyLocked, GoTo
  <2>2. seen[s] \in Nat /\ seen'[s] \in Nat /\ seen[s] <= seen'[s]
    <3>1. CASE Advertised(s) /\ data # NULL
      BY <1>15, <3>1, CopyGives DEF CopyLocked, ReaderInv, Types
    <3>2. CASE ~(Advertised(s) /\ data # NULL)
      BY <1>15, <3>2 DEF CopyLocked, Types
    <3> QED
      BY <3>1, <3>2
  <2>3. \A u \in Subs \ {s} : seen'[u] = seen[u]
    BY <1>15 DEF CopyLocked, Types
  <2>4. ASSUME NEW u \in Subs, Unread(u)' PROVE Unread(u)
    <3>1. /\ u \in callbacks \cap WorkSubs /\ published > since[u]
          /\ published > seen'[u] /\ published >= seen'[u] + RequiredUpdates
      BY <1>15, <2>4 DEF CopyLocked, Unread
    <3>2. seen[u] \in Nat /\ seen'[u] \in Nat /\ seen[u] <= seen'[u]
      <4>1. CASE u = s
        BY <2>2, <4>1
      <4>2. CASE u # s
        <5>1. seen[u] \in 0..MaxPublished /\ seen'[u] = seen[u]
          BY <2>3, <4>2 DEF Types
        <5> QED
          BY <5>1, NumberFacts
      <4> QED
        BY <4>1, <4>2
    <3>3. RequiredUpdates \in Nat /\ published \in Nat
      BY NumberFacts, NodeConstants
    <3> QED
      BY <3>1, <3>2, <3>3 DEF Unread
  <2> QED
    BY <1>15, <2>1, <2>4 DEF CopyLocked, UnreadIsScheduled, Types
<1>16. ASSUME NEW s \in Subs, registerCallback(s) PROVE UnreadIsScheduled'
  <2>1. ASSUME NEW u \in Subs, Unread(u)' PROVE Unread(u)
    BY <1>16, <2>1, NumberFacts DEF registerCallback, Unread, Types
  <2> QED
    BY <1>16, <2>1 DEF registerCallback, UnreadIsScheduled, Types
<1>17. ASSUME NEW s \in Subs, unregisterCallback(s) PROVE UnreadIsScheduled'
  <2>1. ASSUME NEW u \in Subs, Unread(u)' PROVE Unread(u)
    BY <1>17, <2>1, NumberFacts DEF unregisterCallback, Unread, Types
  <2> QED
    BY <1>17, <2>1 DEF unregisterCallback, UnreadIsScheduled, Types
<1>18. ASSUME NEW s \in Subs, EntryStarts(s) PROVE UnreadIsScheduled'
  BY <1>18 DEF EntryStarts, GoTo, UnreadIsScheduled, Unread, Types
<1>19. ASSUME NEW s \in Subs, EntryUpdates(s) PROVE UnreadIsScheduled'
  <2>1. ASSUME Unread(s) PROVE Updated(s)
    <3>1. node[s] /\ advertised
      BY <2>1, NumberFacts DEF Unread, CallbackInv, Types
    <3>2. Generation # last_generation[s]
      BY <2>1, GenerationIsCount, NumberFacts DEF Unread, ReaderInv, Types
    <3> QED
      BY <3>1, <3>2 DEF Updated, Advertised
  <2>2. \A u \in Subs : Unread(u)' => Unread(u)
    BY <1>19 DEF EntryUpdates, Unread
  <2> QED
    BY <1>19, <2>1, <2>2 DEF EntryUpdates, GoTo, UnreadIsScheduled, Types
<1>20. ASSUME NEW s \in Subs, updatedBlocking(s) PROVE UnreadIsScheduled'
  BY <1>20 DEF updatedBlocking, GoTo, UnreadIsScheduled, Unread, Types
<1>21. ASSUME NEW s \in Subs, BlockingWait(s) PROVE UnreadIsScheduled'
  BY <1>21 DEF BlockingWait, GoTo, UnreadIsScheduled, Unread, Types
<1>22. ASSUME NEW s \in Subs, BlockingWakes(s) PROVE UnreadIsScheduled'
  BY <1>22 DEF BlockingWakes, GoTo, UnreadIsScheduled, Unread, Types
<1> QED
  BY <1>1, <1>2, <1>3, <1>4, <1>5, <1>6, <1>7, <1>8, <1>9, <1>10, <1>11,
     <1>12, <1>13, <1>14, <1>15, <1>16, <1>17, <1>18, <1>19, <1>20, <1>21,
     <1>22 DEF Next, Publisher, Subscriber

(* The step that ends a copy is the copy. *)
LEMMA CopyEnds ==
  ASSUME Types, Next, NEW s \in Subs, pc[s] \in DOMAIN After, pc'[s] # pc[s]
  PROVE  CopyLocked(s)
<1>1. pc[s] \in {"copying", "updating", "draining"}
  BY AfterFacts
<1>2. ASSUME NEW p \in Publishers, Publisher(p) PROVE pc'[s] = pc[s]
  BY <1>1, <1>2 DEF Publisher, advertise, update_queue_size, publish, WriteAlloc,
     WriteData, InterruptPublishes, Write, Signalled, unadvertise,
     DestroyPublication
<1>3. ASSUME NEW u \in Subs, Subscriber(u), u # s PROVE pc'[s] = pc[s]
  BY <1>3 DEF Subscriber, subscribe, SubscribeRead, SubscribeStart, unsubscribe,
     update, copy, CopyLocked, registerCallback, unregisterCallback, EntryStarts,
     EntryUpdates, updatedBlocking, BlockingWait, BlockingWakes, GoTo, Types
<1>4. ASSUME Subscriber(s) PROVE CopyLocked(s) \/ pc'[s] = pc[s]
  BY <1>1, <1>4 DEF Subscriber, subscribe, SubscribeRead, SubscribeStart,
     unsubscribe, update, copy, registerCallback, unregisterCallback, EntryStarts,
     EntryUpdates, updatedBlocking, BlockingWait, BlockingWakes
<1> QED
  BY <1>2, <1>3, <1>4 DEF Next

(* What a copy gives is newer, unless copy() gives the last message again. *)
LEMMA CopyInOrder ==
  ASSUME NoWrap, Types, AllocInv, NewestAreKept, ReaderInv, NEW s \in Subs,
         CopyLocked(s), Advertised(s), data # NULL
  PROVE  GivesInOrder(s)
<1> DEFINE m == data[Slot(s)]
<1>1. seen'[s] = m
  BY DEF CopyLocked, Types
<1>2. seen[s] = last_generation[s] /\ seen[s] <= published /\ seen[s] \in Nat
  BY NumberFacts DEF ReaderInv, Types
<1>3. /\ m \in Nat /\ seen[s] <= m
      /\ seen[s] < published => seen[s] < m
      /\ m > seen[s] + 1 => m + queue_size = published + 1
  BY <1>2, CopyGives
<1>4. pc[s] # "copying" => seen[s] < published
  BY AfterFacts DEF CopyLocked, ReaderInv
<1> HIDE DEF m
<1> QED
  BY <1>1, <1>2, <1>3, <1>4 DEF GivesInOrder

-----------------------------------------------------------------------------
(* The theorems.                                                           *)

NodeInv == Types /\ AllocInv /\ Counted

(* The invariant holds of a node that has been initialised. *)
LEMMA InitNode == Init => NodeInv
<1> SUFFICES ASSUME Init PROVE NodeInv
  OBVIOUS
<1>1. MaxPublished \in Nat /\ Modulus \in Nat \ {0}
  BY NodeConstants
<1>2. /\ last_generation \in [Subs -> 0..(Modulus - 1)]
      /\ curr_gen \in [Subs -> 0..MaxPublished]
      /\ seen \in [Subs -> 0..MaxPublished]
      /\ since \in [Subs -> 0..MaxPublished]
  BY <1>1 DEF Init
<1>3. /\ node \in [Subs -> BOOLEAN] /\ work \in [Subs -> BOOLEAN]
      /\ advertised \in BOOLEAN
  BY DEF Init
<1>4. /\ ppc \in [Publishers -> {"off", "opened", "ready", "alloc", "write"}]
      /\ psize \in [Publishers -> QueueSizes \cup {1}]
      /\ pc \in [Subs -> {"idle", "attached", "sizing", "updating", "copying",
                          "entry", "draining", "unlocked", "waiting", "woken"}]
  BY DEF Init
<1>5. Types
  BY <1>1, <1>2, <1>3, <1>4 DEF Init, Types
<1>6. AllocInv
  BY DEF Init, AllocInv
<1>7. Subscribers = {}
  BY DEF Init, Subscribers
<1>8. Counted
  BY <1>7, FS_EmptySet DEF Init, Counted
<1> QED
  BY <1>5, <1>6, <1>8 DEF NodeInv

(* NodeInv is an invariant of the node, wherever its counter is. *)
LEMMA NodeInvariant == Spec => []NodeInv
<1>1. NodeInv /\ [Next]_vars => NodeInv'
  <2> SUFFICES ASSUME NodeInv, [Next]_vars PROVE NodeInv'
    OBVIOUS
  <2>1. CASE Next
    BY <2>1, TypeStep, AllocStep, CountStep DEF NodeInv
  <2>2. CASE UNCHANGED vars
    BY <2>2 DEF NodeInv, Types, AllocInv, Counted, Subscribers, vars
  <2> QED
    BY <2>1, <2>2
<1> QED
  BY InitNode, <1>1, PTL DEF Spec

(* The types: the buffer has as many slots as the queue size says, however *)
(* publishers resize and allocate, and the subscribers are counted.        *)
THEOREM NodeTypes == Spec => []TypeOK
<1>1. NodeInv => TypeOK
  <2> SUFFICES ASSUME NodeInv PROVE TypeOK
    OBVIOUS
  <2>1. Subscribers \in SUBSET Subs
    BY DEF Subscribers
  <2>2. /\ Cardinality(Subscribers) \in Nat /\ Cardinality(Subs) \in Nat
        /\ Cardinality(Subscribers) <= Cardinality(Subs)
    BY <2>1, NodeConstants, FS_Subset, FS_CardinalityType
  <2>3. subscriber_count \in 0..127
    <3>1. \A c, n \in Nat : c <= n /\ n <= 127 => c \in 0..127
      OBVIOUS
    <3>2. subscriber_count = Cardinality(Subscribers) /\ Cardinality(Subs) <= 127
      BY NodeConstants DEF NodeInv, Counted
    <3> QED
      BY <2>2, <3>1, <3>2
  <2> QED
    BY <2>3 DEF NodeInv, Types, Counted, Subscribers, TypeOK
<1> QED
  BY NodeInvariant, <1>1, PTL

TopicInv ==
  NodeInv /\ NewestAreKept /\ CallbackInv /\ ReaderInv /\ UnreadIsScheduled

(* It holds at the start. *)
LEMMA InitTopic == Init => TopicInv
<1> SUFFICES ASSUME Init PROVE TopicInv
  OBVIOUS
<1>1. NewestAreKept /\ CallbackInv /\ UnreadIsScheduled
  BY DEF Init, NewestAreKept, CallbackInv, UnreadIsScheduled, Unread
<1>2. ReaderInv
  BY DEF Init, ReaderInv
<1> QED
  BY <1>1, <1>2, InitNode DEF TopicInv

(* TopicInv is an invariant of the topic until the generation counter      *)
(* wraps around.                                                           *)
THEOREM TopicInvariant ==
  ASSUME NoWrap
  PROVE  Spec => []TopicInv
<1>1. TopicInv /\ [Next]_vars => TopicInv'
  <2> SUFFICES ASSUME TopicInv, [Next]_vars PROVE TopicInv'
    OBVIOUS
  <2>1. CASE Next
    BY <2>1, TypeStep, AllocStep, CountStep, NewestStep, CallbackStep, ReaderStep,
       ScheduleStep DEF TopicInv, NodeInv
  <2>2. CASE UNCHANGED vars
    BY <2>2 DEF TopicInv, NodeInv, Types, AllocInv, Counted, Subscribers,
       NewestAreKept, CallbackInv, ReaderInv, UnreadIsScheduled, Unread, vars
  <2> QED
    BY <2>1, <2>2
<1> QED
  BY InitTopic, <1>1, PTL DEF Spec

(* The ring buffer keeps the newest messages, each at its slot.            *)
THEOREM BufferKeepsNewest ==
  ASSUME NoWrap
  PROVE  Spec => []NewestAreKept
<1>1. TopicInv => NewestAreKept
  BY DEF TopicInv
<1> QED
  BY TopicInvariant, <1>1, PTL

(* No publication slips through between the last update() of an entry and  *)
(* its return.                                                             *)
THEOREM NoMissedCallback ==
  ASSUME NoWrap
  PROVE  Spec => []UnreadIsScheduled
<1>1. TopicInv => UnreadIsScheduled
  BY DEF TopicInv
<1> QED
  BY TopicInvariant, <1>1, PTL

(* Readers are given messages in order, each once by update(), and miss    *)
(* only what has been overwritten.                                         *)
THEOREM MessagesInOrder ==
  ASSUME NoWrap
  PROVE  Spec => ReadsInOrder
<1> DEFINE InOrder ==
      \A s \in Subs :
        (pc[s] \in DOMAIN After /\ pc'[s] # pc[s] /\ Advertised(s) /\ data # NULL)
          => GivesInOrder(s)
<1>1. TopicInv /\ [Next]_vars => [InOrder]_vars
  <2> SUFFICES ASSUME TopicInv, Next PROVE InOrder
    OBVIOUS
  <2> SUFFICES ASSUME NEW s \in Subs, pc[s] \in DOMAIN After, pc'[s] # pc[s],
                      Advertised(s), data # NULL
               PROVE  GivesInOrder(s)
    OBVIOUS
  <2>1. CopyLocked(s)
    BY CopyEnds DEF TopicInv, NodeInv
  <2> QED
    BY <2>1, CopyInOrder DEF TopicInv, NodeInv
<1> QED
  BY TopicInvariant, <1>1, PTL DEF Spec, ReadsInOrder
=============================================================================
