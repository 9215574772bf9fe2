------------------------------ MODULE UorbNode ------------------------------
(***************************************************************************)
(* One topic of gpm/modules/uorb: the ring buffer and the generation       *)
(* counter of uorb_device_node.c, the publishers that write it             *)
(* (Publication.hpp), and the subscriptions that poll it, are called back  *)
(* through a work item, or block on it (Subscription*.hpp).                *)
(*                                                                         *)
(* A message is its number, counted from 1: the number of publications is  *)
(* published, of which the code keeps only the value modulo 2^32.  A       *)
(* region under ATOMIC_ENTER or under the node's lock is one action; what  *)
(* the code reads before such a region and uses in it are two.             *)
(***************************************************************************)
EXTENDS Naturals, FiniteSets

CONSTANTS
  Publishers,      \* Publication objects, each used by one thread
  Subs,            \* Subscription objects, each used by one thread
  WorkSubs,        \* those that are a SubscriptionCallbackWorkItem
  BlockingSubs,    \* those that are a SubscriptionBlocking
  QueueSizes,      \* what publishers advertise
  RequiredUpdates, \* set_required_updates
  Withdrawals,     \* how publishers leave: "unadvertise", "destroy"
  Modulus,         \* 2^32, the range of _generation
  MaxPublished,    \* bound on the number of publications
  NULL

ASSUME NodeConstants ==
  /\ IsFiniteSet(Subs) /\ Cardinality(Subs) <= 127   \* they are counted in 8 bits
  /\ WorkSubs \subseteq Subs
  /\ BlockingSubs \subseteq Subs \ WorkSubs
  /\ QueueSizes \subseteq 1..255
  /\ Withdrawals \subseteq {"unadvertise", "destroy"}
  /\ {RequiredUpdates, MaxPublished} \subseteq Nat
  /\ Modulus \in Nat \ {0}
  /\ \A q \in QueueSizes \cup {1} : NULL \notin [0..(q - 1) -> 0..MaxPublished]

VARIABLES
  published,   \* history: how many messages have been written
  data,        \* _data, NULL or its slots; 0 is memory nobody has written
  queue_size,
  advertised,
  subscriber_count,
  callbacks,   \* the subscriptions in _callbacks
  ppc, psize,  \* where a publisher is, and its ORB_QSIZE
  pc,          \* where a subscriber is
  node,        \* is _node set?
  last_generation,
  curr_gen,    \* the local of Subscription::subscribe, as a number of messages
  work,        \* is the subscription's work item scheduled?
  seen,        \* history: the newest message the subscriber has been given
  since        \* history: how many had been published when its callbacks
               \* began, or when the topic was last not advertised

nodeVars == <<published, data, queue_size, advertised>>
pubVars == <<ppc, psize>>
subVars == <<pc, node, last_generation, curr_gen, seen>>
callVars == <<callbacks, work, since>>
vars == <<nodeVars, subscriber_count, pubVars, subVars, callVars>>

\* uorb_device_node_init, by whoever needed the topic first.
Init ==
  /\ published = 0
  /\ data = NULL
  /\ queue_size = 1
  /\ advertised = FALSE
  /\ subscriber_count = 0
  /\ callbacks = {}
  /\ ppc = [p \in Publishers |-> "off"]
  /\ psize = [p \in Publishers |-> 1]
  /\ pc = [s \in Subs |-> "idle"]
  /\ node = [s \in Subs |-> FALSE]
  /\ last_generation = [s \in Subs |-> 0]
  /\ curr_gen = [s \in Subs |-> 0]
  /\ work = [s \in Subs |-> FALSE]
  /\ seen = [s \in Subs |-> 0]
  /\ since = [s \in Subs |-> 0]

\* uorb_device_node_published_message_count.
Generation == published % Modulus

-----------------------------------------------------------------------------
(* Publishers.                                                             *)

\* Publication::advertise: uorb_device_node_open marks the node,
advertise(p, q) ==
  /\ ppc[p] = "off"
  /\ advertised' = TRUE
  /\ ppc' = [ppc EXCEPT ![p] = "opened"]
  /\ psize' = [psize EXCEPT ![p] = q]
  /\ UNCHANGED <<published, data, queue_size, subscriber_count, subVars, callVars>>

(* A queue that is resized although its buffer has been allocated. *)
update_queue_size_Always(p) ==
  /\ ppc[p] = "opened"
  /\ queue_size' = IF queue_size < psize[p] THEN psize[p] ELSE queue_size
  /\ ppc' = [ppc EXCEPT ![p] = "ready"]
  /\ UNCHANGED <<published, data, advertised, subscriber_count, psize, subVars,
                 callVars>>

\* and ORBIOCSETQUEUESIZE sets its size, if it still can.
update_queue_size(p) ==
  /\ ppc[p] = "opened"
  /\ queue_size' = IF data = NULL /\ queue_size < psize[p] THEN psize[p]
                   ELSE queue_size
  /\ ppc' = [ppc EXCEPT ![p] = "ready"]
  /\ UNCHANGED <<published, data, advertised, subscriber_count, psize, subVars,
                 callVars>>

\* uorb_device_node_write up to its critical section: is there a buffer?
publish(p) ==
  /\ ppc[p] = "ready"
  /\ published < MaxPublished
  /\ ppc' = [ppc EXCEPT ![p] = IF data = NULL THEN "alloc" ELSE "write"]
  /\ UNCHANGED <<nodeVars, subscriber_count, psize, subVars, callVars>>

Buffer == [k \in 0..(queue_size - 1) |-> 0]

(* An allocation that does not look again once it has the lock. *)
WriteAlloc_NoRecheck(p) ==
  /\ ppc[p] = "alloc"
  /\ data' \in {data, Buffer}
  /\ ppc' = [ppc EXCEPT ![p] = IF data' = NULL THEN "ready" ELSE "write"]
  /\ UNCHANGED <<published, queue_size, advertised, subscriber_count, psize,
                 subVars, callVars>>

\* Under the lock the buffer is allocated if there is still none.
WriteAlloc(p) ==
  /\ ppc[p] = "alloc"
  /\ data' \in IF data = NULL THEN {NULL, Buffer} ELSE {data}
  /\ ppc' = [ppc EXCEPT ![p] = IF data' = NULL THEN "ready" ELSE "write"]
  /\ UNCHANGED <<published, queue_size, advertised, subscriber_count, psize,
                 subVars, callVars>>

(* A callback that expects more updates than were asked for. *)
Called_TooLate(s, g) ==
  /\ s \in callbacks \cap WorkSubs
  /\ g > (last_generation[s] + RequiredUpdates) % Modulus
  /\ advertised

\* SubscriptionCallbackWorkItem::call, when the count has become g.
Called(s, g) ==
  /\ s \in callbacks \cap WorkSubs
  /\ RequiredUpdates = 0 \/ g >= (last_generation[s] + RequiredUpdates) % Modulus
  /\ advertised
  /\ g # last_generation[s]

\* SubscriptionBlocking::call wakes whoever waits at that moment.
Signalled(s) == s \in callbacks \cap BlockingSubs /\ pc[s] = "waiting"

Restart(n) == [s \in Subs |-> IF s \in callbacks THEN n ELSE 0]

\* The critical section of uorb_device_node_write, with its callbacks.
Write ==
  LET g == (published + 1) % Modulus
  IN /\ published' = published + 1
     /\ data' = [data EXCEPT ![Generation % queue_size] = published + 1]
     /\ work' = [s \in Subs |-> work[s] \/ Called(s, g)]
     /\ pc' = [s \in Subs |-> IF Signalled(s) THEN "woken" ELSE pc[s]]
     /\ since' = IF advertised THEN since ELSE Restart(published + 1)
     /\ UNCHANGED <<queue_size, advertised, subscriber_count, psize, node,
                    last_generation, curr_gen, seen, callbacks>>

WriteData(p) ==
  /\ ppc[p] = "write"
  /\ published < MaxPublished
  /\ Write
  /\ ppc' = [ppc EXCEPT ![p] = "ready"]

\* An interrupt handler publishes with the handle of p; without a buffer its
\* write fails and changes nothing.
InterruptPublishes(p) ==
  /\ ppc[p] # "off"
  /\ published < MaxPublished
  /\ data # NULL
  /\ Write
  /\ UNCHANGED ppc

unadvertise(p) ==
  /\ "unadvertise" \in Withdrawals
  /\ ppc[p] = "ready"
  /\ advertised' = FALSE
  /\ since' = Restart(published)
  /\ UNCHANGED <<published, data, queue_size, subscriber_count, pubVars, subVars,
                 callbacks, work>>

\* ~PublicationBase, which withdraws topics that are not queued.
DestroyPublication(p) ==
  /\ "destroy" \in Withdrawals
  /\ ppc[p] = "ready"
  /\ advertised' = (advertised /\ queue_size # 1)
  /\ since' = IF advertised' THEN since ELSE Restart(published)
  /\ ppc' = [ppc EXCEPT ![p] = "off"]
  /\ UNCHANGED <<published, data, queue_size, subscriber_count, psize, subVars,
                 callbacks, work>>

-----------------------------------------------------------------------------
(* Subscribers.                                                            *)

GoTo(s, l) == pc' = [pc EXCEPT ![s] = l]

\* Subscription::subscribe: the node is found and counts the subscriber,
subscribe(s) ==
  /\ pc[s] = "idle"
  /\ ~node[s]
  /\ node' = [node EXCEPT ![s] = TRUE]
  /\ subscriber_count' = subscriber_count + 1
  /\ GoTo(s, "attached")
  /\ UNCHANGED <<nodeVars, pubVars, last_generation, curr_gen, seen, callVars>>

\* the generation is read,
SubscribeRead(s) ==
  /\ pc[s] = "attached"
  /\ curr_gen' = [curr_gen EXCEPT ![s] = published]
  /\ GoTo(s, "sizing")
  /\ UNCHANGED <<nodeVars, subscriber_count, pubVars, node, last_generation, seen,
                 callVars>>

\* Where a subscriber starts that has read the generation n.
FirstGeneration(n) == IF queue_size < n THEN n - queue_size ELSE 0

\* and then the size.
SubscribeStart(s) ==
  /\ pc[s] = "sizing"
  /\ last_generation' =
       [last_generation EXCEPT ![s] = FirstGeneration(curr_gen[s] % Modulus)]
  /\ seen' = [seen EXCEPT ![s] = FirstGeneration(curr_gen[s])]
  /\ curr_gen' = [curr_gen EXCEPT ![s] = 0]
  /\ GoTo(s, "idle")
  /\ UNCHANGED <<nodeVars, subscriber_count, pubVars, node, callVars>>

\* The object goes: its callback and its work item have gone before.
unsubscribe(s) ==
  /\ pc[s] = "idle"
  /\ node[s]
  /\ s \notin callbacks
  /\ ~work[s]
  /\ node' = [node EXCEPT ![s] = FALSE]
  /\ subscriber_count' = subscriber_count - 1
  /\ last_generation' = [last_generation EXCEPT ![s] = 0]
  /\ seen' = [seen EXCEPT ![s] = 0]
  /\ UNCHANGED <<nodeVars, pubVars, pc, curr_gen, callVars>>

Advertised(s) == node[s] /\ advertised

\* Subscription::updated.
Updated(s) == Advertised(s) /\ Generation # last_generation[s]

\* Subscription::update tests, then copies; Subscription::copy only copies.
update(s) ==
  /\ pc[s] = "idle"
  /\ Updated(s)
  /\ GoTo(s, "updating")
  /\ UNCHANGED <<nodeVars, subscriber_count, pubVars, node, last_generation,
                 curr_gen, seen, callVars>>

copy(s) ==
  /\ pc[s] = "idle"
  /\ Advertised(s)
  /\ GoTo(s, "copying")
  /\ UNCHANGED <<nodeVars, subscriber_count, pubVars, node, last_generation,
                 curr_gen, seen, callVars>>

(* A reader that is not moved on when it has fallen too far behind. *)
ReadGeneration_Behind(g) ==
  IF Generation = g /\ g > 0 THEN g - 1 ELSE g

\* uorb_device_node_copy_locked: the generation it reads for a reader at g,
\* with the arithmetic of uint32_t,
ReadGeneration(g) ==
  LET c == Generation
      kept == IF c > (g + queue_size) % Modulus
              THEN (c + Modulus - queue_size) % Modulus
              ELSE g
  IN IF c = kept /\ kept > 0 THEN kept - 1 ELSE kept

Slot(s) == ReadGeneration(last_generation[s]) % queue_size

\* and the one it leaves the reader at.
NextGeneration(g) ==
  LET r == ReadGeneration(g) IN IF r < Generation THEN r + 1 ELSE r

After == [copying |-> "idle", updating |-> "idle", draining |-> "entry"]

\* uorb_device_node_copy, after Subscription::copy has asked once more.
CopyLocked(s) ==
  /\ pc[s] \in DOMAIN After
  /\ GoTo(s, After[pc[s]])
  /\ IF Advertised(s) /\ data # NULL
     THEN /\ seen' = [seen EXCEPT ![s] = data[Slot(s)]]
          /\ last_generation' = [last_generation EXCEPT ![s] = NextGeneration(@)]
     ELSE UNCHANGED <<seen, last_generation>>
  /\ UNCHANGED <<nodeVars, subscriber_count, pubVars, node, curr_gen, callVars>>

registerCallback(s) ==
  /\ pc[s] = "idle"
  /\ node[s]
  /\ s \in (WorkSubs \cup BlockingSubs) \ callbacks
  /\ callbacks' = callbacks \cup {s}
  /\ since' = [since EXCEPT ![s] = published]
  /\ UNCHANGED <<nodeVars, subscriber_count, pubVars, subVars, work>>

unregisterCallback(s) ==
  /\ pc[s] = "idle"
  /\ s \in callbacks
  /\ callbacks' = callbacks \ {s}
  /\ since' = [since EXCEPT ![s] = 0]
  /\ UNCHANGED <<nodeVars, subscriber_count, pubVars, subVars, work>>

\* The work queue takes the item and runs its entry,
EntryStarts(s) ==
  /\ pc[s] = "idle"
  /\ work[s]
  /\ work' = [work EXCEPT ![s] = FALSE]
  /\ GoTo(s, "entry")
  /\ UNCHANGED <<nodeVars, subscriber_count, pubVars, node, last_generation,
                 curr_gen, seen, callbacks, since>>

\* which updates until there is nothing new.
EntryUpdates(s) ==
  /\ pc[s] = "entry"
  /\ GoTo(s, IF Updated(s) THEN "draining" ELSE "idle")
  /\ UNCHANGED <<nodeVars, subscriber_count, pubVars, node, last_generation,
                 curr_gen, seen, callVars>>

\* SubscriptionBlocking::updatedBlocking without a timeout: the test,
updatedBlocking(s) ==
  /\ pc[s] = "idle"
  /\ s \in callbacks \cap BlockingSubs
  /\ GoTo(s, IF Updated(s) THEN "updating" ELSE "unlocked")
  /\ UNCHANGED <<nodeVars, subscriber_count, pubVars, node, last_generation,
                 curr_gen, seen, callVars>>

\* the wait,
BlockingWait(s) ==
  /\ pc[s] = "unlocked"
  /\ GoTo(s, "waiting")
  /\ UNCHANGED <<nodeVars, subscriber_count, pubVars, node, last_generation,
                 curr_gen, seen, callVars>>

\* and the test after it.
BlockingWakes(s) ==
  /\ pc[s] = "woken"
  /\ GoTo(s, IF Updated(s) THEN "updating" ELSE "idle")
  /\ UNCHANGED <<nodeVars, subscriber_count, pubVars, node, last_generation,
                 curr_gen, seen, callVars>>

-----------------------------------------------------------------------------
Publisher(p) ==
  \/ \E q \in QueueSizes : advertise(p, q)
  \/ update_queue_size(p)
  \/ publish(p)
  \/ WriteAlloc(p)
  \/ WriteData(p)
  \/ InterruptPublishes(p)
  \/ unadvertise(p)
  \/ DestroyPublication(p)

Subscriber(s) ==
  \/ subscribe(s)
  \/ SubscribeRead(s)
  \/ SubscribeStart(s)
  \/ unsubscribe(s)
  \/ update(s)
  \/ copy(s)
  \/ CopyLocked(s)
  \/ registerCallback(s)
  \/ unregisterCallback(s)
  \/ EntryStarts(s)
  \/ EntryUpdates(s)
  \/ updatedBlocking(s)
  \/ BlockingWait(s)
  \/ BlockingWakes(s)

Next ==
  \/ \E p \in Publishers : Publisher(p)
  \/ \E s \in Subs : Subscriber(s)

Spec == Init /\ [][Next]_vars

-----------------------------------------------------------------------------
\* The variables have their types: the buffer always has as many slots as the
\* node's queue size says, and the subscribers are counted, in an int8_t.
TypeOK ==
  /\ published \in 0..MaxPublished
  /\ queue_size \in QueueSizes \cup {1}
  /\ data = NULL \/ data \in [0..(queue_size - 1) -> 0..published]
  /\ advertised \in BOOLEAN
  /\ subscriber_count = Cardinality({s \in Subs : node[s]})
  /\ subscriber_count \in 0..127
  /\ callbacks \subseteq WorkSubs \cup BlockingSubs
  /\ ppc \in [Publishers -> {"off", "opened", "ready", "alloc", "write"}]
  /\ psize \in [Publishers -> QueueSizes \cup {1}]
  /\ pc \in [Subs -> {"idle", "attached", "sizing", "updating", "copying",
                      "entry", "draining", "unlocked", "waiting", "woken"}]
  /\ node \in [Subs -> BOOLEAN]
  /\ last_generation \in [Subs -> 0..(Modulus - 1)]
  /\ {curr_gen, seen, since} \subseteq [Subs -> 0..MaxPublished]
  /\ work \in [Subs -> BOOLEAN]

(***************************************************************************)
(* The ring buffer keeps the newest queue_size messages, each at the slot  *)
(* of its generation, whatever order the allocation, the resizing and the  *)
(* writes of threads and interrupt handlers come in.                       *)
(***************************************************************************)
NewestAreKept ==
  data # NULL =>
    \A m \in 1..published :
      m + queue_size > published => data[(m - 1) % queue_size] = m

\* What a step of uorb_device_node_copy may give to reader s.
GivesInOrder(s) ==
  /\ pc[s] # "copying" => seen'[s] > seen[s]
  /\ seen'[s] >= seen[s]
  /\ seen'[s] > seen[s] + 1 => seen'[s] + queue_size = published + 1

(***************************************************************************)
(* update() never gives a message twice nor an older one after a newer     *)
(* one, and skips messages only when they have been overwritten: the one   *)
(* after a gap is the oldest that is left.  copy() may give the last       *)
(* message again.                                                          *)
(***************************************************************************)
ReadsInOrder ==
  [][\A s \in Subs :
       (pc[s] \in DOMAIN After /\ pc'[s] # pc[s] /\ Advertised(s) /\ data # NULL)
         => GivesInOrder(s)]_vars

\* Messages that the subscription's callback has been called for, not read.
Unread(s) ==
  /\ s \in callbacks \cap WorkSubs
  /\ published > since[s]
  /\ published > seen[s]
  /\ published >= seen[s] + RequiredUpdates

(***************************************************************************)
(* A registered subscription with enough unread messages has its work item *)
(* scheduled or its entry running: no publication slips through between    *)
(* the last update() of an entry and its return.  Messages published while *)
(* the topic is not advertised, or before it was withdrawn, are excepted:  *)
(* neither the callback nor update() takes notice of them.                 *)
(***************************************************************************)
UnreadIsScheduled ==
  \A s \in Subs : Unread(s) => work[s] \/ pc[s] \in {"entry", "draining"}

(***************************************************************************)
(* A topic whose buffer exists counts as published: "check if this topic   *)
(* has been published yet".  Then copy() would never give memory that      *)
(* nobody has written.                                                     *)
(***************************************************************************)
CopiesWhatWasWritten ==
  \A s \in Subs : pc[s] = "copying" /\ data # NULL => data[Slot(s)] # 0
=============================================================================
