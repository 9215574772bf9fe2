----------------------------- MODULE UorbMaster -----------------------------
(***************************************************************************)
(* How clients of one topic of gpm/modules/uorb come by its nodes: the     *)
(* device master (uorb_device_master.c) that gives out the instances, the  *)
(* manager (uorb_manager.c), and the file-like interface of the nodes      *)
(* (uorb_gnode.c), whose flags and private data belong to the node.        *)
(*                                                                         *)
(* A node is its instance number, which stands for its path and its index  *)
(* in node_map too.  What runs under node_mutex, or with the node's lock,  *)
(* is one action; between the actions of one client the others run.        *)
(***************************************************************************)
EXTENDS Integers, FiniteSets

CONSTANTS
  MultiPubs,       \* callers of orb_advertise_multi: PublicationMulti objects
  SinglePubs,      \* callers of orb_advertise: Publication objects
  FileSubs,        \* callers of orb_subscribe_multi
  ObjectSubs,      \* Subscription objects
  MaxInstances,    \* ORB_MULTI_MAX_INSTANCES
  MapLength,       \* NODEMAP_LENGTH
  StaleErrno,      \* callers whose errno is EEXIST since a file operation
  MaxOpens,        \* bound on the number of calls of manager_node_open
  NULL

Pubs == MultiPubs \cup SinglePubs
Openers == Pubs \cup FileSubs
Instances == 0..(MaxInstances - 1)

ASSUME MasterConstants ==
  /\ MultiPubs \cap SinglePubs = {}
  /\ Pubs \cap FileSubs = {}
  /\ Openers \cap ObjectSubs = {}
  /\ {MaxInstances, MapLength, MaxOpens} \subseteq Nat \ {0}
  /\ StaleErrno \subseteq Openers
  /\ NULL \notin Openers \cup Instances
  /\ IsFiniteSet(FileSubs) /\ IsFiniteSet(ObjectSubs)

VARIABLES
  node_map,         \* the topic's nodes in node_map
  room,             \* entries of node_map that are free
  lock,             \* who holds the master's _lock
  list,             \* the nodes in _node_list, and the bits in _node_exists
  advertised,       \* nodes with _advertised
  oflags, priv,     \* _oflags and _priv of a node; _priv as its allocator
  subscriber_count,
  live,             \* clients whose subscriber data is allocated
  pc, inst,         \* where a client is, and the instance it is about
  asked,            \* the instance a FileSub asked for
  errno,            \* clients whose errno is EEXIST
  opens,            \* how many calls there have been
  objects,          \* _node of the Subscription objects
  crowded,          \* history: nodes opened while a client had them open
  robbed,           \* history: nodes withdrawn or entered over a holder's head
  full              \* history: has node_map been found full?

masterVars == <<node_map, room, lock, list>>
fileVars == <<oflags, priv, subscriber_count, live>>
callVars == <<pc, inst, asked, errno, opens>>
aside == <<asked, opens, objects>>
history == <<crowded, robbed, full>>
vars == <<masterVars, advertised, fileVars, callVars, objects, history>>

Init ==
  /\ node_map = {} /\ room = MapLength
  /\ lock = NULL /\ list = {}
  /\ advertised = {}
  /\ oflags = [i \in Instances |-> "none"]
  /\ priv = [i \in Instances |-> NULL]
  /\ subscriber_count = [i \in Instances |-> 0]
  /\ live = {}
  /\ pc = [c \in Openers |-> "idle"]
  /\ inst = [c \in Openers |-> 0]
  /\ asked = [c \in Openers |-> 0]
  /\ errno = StaleErrno /\ opens = 0
  /\ objects = [o \in ObjectSubs |-> NULL]
  /\ crowded = {} /\ robbed = {} /\ full = FALSE

GoTo(c, l) == pc' = [pc EXCEPT ![c] = l]

\* Clients that have claimed their instance from the master, or opened it.
Holding == {"claimed", "flagged", "opened", "held"}
Holds(c, i) == inst[c] = i /\ pc[c] \in Holding

\* Clients that use the file interface of node i.
Inside(i) == {c \in Openers :
                /\ inst[c] = i
                /\ \/ pc[c] \in {"flagged", "opened"}
                   \/ c \in FileSubs /\ pc[c] = "held"}

-----------------------------------------------------------------------------
(* manager_node_open.                                                      *)

\* A multi-instance advertiser asks the master; the others open the node of
\* the instance they want if there is one.
manager_node_open(c, i) ==
  /\ pc[c] = "idle"
  /\ opens < MaxOpens
  /\ opens' = opens + 1
  /\ c \notin FileSubs => i = 0
  /\ GoTo(c, IF c \notin MultiPubs /\ i \in node_map THEN "claimed"
             ELSE "locking")
  /\ inst' = [inst EXCEPT ![c] = i]
  /\ asked' = [asked EXCEPT ![c] = i]
  /\ UNCHANGED <<masterVars, advertised, fileVars, errno, objects, history>>

AdvertiseLock(c) ==
  /\ pc[c] = "locking"
  /\ lock = NULL
  /\ lock' = c
  /\ GoTo(c, "trying")
  /\ UNCHANGED <<node_map, room, list, advertised, fileVars, inst, errno,
                 aside, history>>

(* A discarded node that takes out whoever has its name. *)
Discarded_ByName(i) == {i}

\* The nodes that deinit of a refused node takes out of node_map, by name:
\* a node that has not been registered takes out none.
Discarded(i) == {}

\* An advertiser marks the node it has got, still with the lock.
Mark(c) ==
  advertised' = IF c \in Pubs THEN advertised \cup {inst[c]} ELSE advertised

(* A subscriber that is kept off a node that is advertised. *)
Claimable_NotBySubs(c, i) ==
  /\ i \in list
  /\ i \notin advertised \/ c \in SinglePubs

\* May an existing node be claimed?
Claimable(c, i) ==
  /\ i \in list
  /\ i \notin advertised \/ c \notin MultiPubs

\* Has the loop no instance left?  Without an instance to set it has one try.
LastTry(c) == inst[c] + 1 = MaxInstances \/ c \in SinglePubs

\* The call fails with the lock released, and errno becomes EIO.  A caller
\* whose errno says EEXIST goes on to open the instance it tried last.
Fail(c) ==
  /\ lock' = NULL
  /\ IF c \in errno /\ inst[c] \in node_map
     THEN /\ GoTo(c, "claimed")
          /\ robbed' = robbed \cup {inst[c]}
          /\ UNCHANGED <<inst, errno>>
     ELSE /\ GoTo(c, "idle")
          /\ errno' = errno \ {c}
          /\ inst' = [inst EXCEPT ![c] = 0]
          /\ UNCHANGED robbed

\* After an instance that was not to be had.
TryNext(c) ==
  IF LastTry(c)
  THEN Fail(c)
  ELSE /\ inst' = [inst EXCEPT ![c] = @ + 1]
       /\ UNCHANGED <<lock, pc, errno, robbed>>

\* The node exists: it is claimed, and marked by an advertiser,
AdvertiseExisting(c) ==
  LET i == inst[c]
  IN /\ pc[c] = "trying"
     /\ i \in node_map
     /\ node_map' = node_map \ Discarded(i)
     /\ IF Claimable(c, i)
        THEN /\ Mark(c)
             /\ GoTo(c, "claimed")
             /\ lock' = NULL
             /\ UNCHANGED <<inst, errno, robbed>>
        ELSE TryNext(c) /\ UNCHANGED advertised
     /\ UNCHANGED <<room, list, fileVars, aside, crowded, full>>

\* or is registered, seen by unode_open from then on,
AdvertiseRegister(c) ==
  /\ pc[c] = "trying"
  /\ inst[c] \notin node_map
  /\ room > 0
  /\ node_map' = node_map \cup {inst[c]}
  /\ room' = room - 1
  /\ GoTo(c, "adding")
  /\ UNCHANGED <<lock, list, advertised, fileVars, inst, errno, aside,
                 history>>

(* A new node whose mark is left to the open that follows. *)
AdvertiseAdd_Unmarked(c) ==
  /\ pc[c] = "adding"
  /\ list' = list \cup {inst[c]}
  /\ lock' = NULL
  /\ GoTo(c, "claimed")
  /\ UNCHANGED <<node_map, room, advertised, fileVars, inst, errno, aside,
                 history>>

\* and then marked and listed,
AdvertiseAdd(c) ==
  /\ pc[c] = "adding"
  /\ Mark(c)
  /\ list' = list \cup {inst[c]}
  /\ lock' = NULL
  /\ GoTo(c, "claimed")
  /\ UNCHANGED <<node_map, room, fileVars, inst, errno, aside, history>>

\* or node_map has no room for it,
AdvertiseFull(c) ==
  /\ pc[c] = "trying"
  /\ inst[c] \notin node_map
  /\ room = 0
  /\ full' = TRUE
  /\ TryNext(c)
  /\ UNCHANGED <<node_map, room, list, advertised, fileVars, aside, crowded>>

(* An early return that keeps the lock. *)
AdvertiseNoMemory_Locked(c) ==
  /\ pc[c] = "trying"
  /\ GoTo(c, "idle")
  /\ UNCHANGED <<masterVars, advertised, fileVars, inst, errno, aside,
                 history>>

\* or there is no memory for its path.
AdvertiseNoMemory(c) ==
  /\ pc[c] = "trying"
  /\ Fail(c)
  /\ UNCHANGED <<node_map, room, list, advertised, fileVars, aside, crowded,
                 full>>

\* Nodes of other topics fill node_map.
OtherTopicRegisters ==
  /\ room > 0
  /\ room' = room - 1
  /\ UNCHANGED <<node_map, lock, list, advertised, fileVars, callVars,
                 objects, history>>

-----------------------------------------------------------------------------
(* unode_open and unode_close: the flags and the data of the node.         *)

(* A flag that depends on the instance being asked for. *)
Flag_ByInstance(c) == IF c \in MultiPubs THEN "WRONLY" ELSE "RDONLY"

Flag(c) == IF c \in Pubs THEN "WRONLY" ELSE "RDONLY"

\* unode_open has found the node, and stores the flags in it,
unode_open(c) ==
  LET i == inst[c]
  IN /\ pc[c] = "claimed"
     /\ oflags' = [oflags EXCEPT ![i] = Flag(c)]
     /\ crowded' = IF Inside(i) = {} THEN crowded ELSE crowded \cup {i}
     /\ GoTo(c, "flagged")
     /\ UNCHANGED <<masterVars, advertised, priv, subscriber_count, live,
                    inst, errno, aside, robbed, full>>

\* and uorb_device_node_open does what the flags say.
OpenNode(c) ==
  LET i == inst[c]
  IN /\ pc[c] = "flagged"
     /\ IF oflags[i] = "WRONLY"
        THEN /\ advertised' = advertised \cup {i}
             /\ UNCHANGED <<priv, live, subscriber_count>>
        ELSE /\ priv' = [priv EXCEPT ![i] = c]
             /\ live' = live \cup {c}
             /\ subscriber_count' = [subscriber_count EXCEPT ![i] = @ + 1]
             /\ UNCHANGED advertised
     /\ GoTo(c, IF c \in Pubs THEN "opened" ELSE "held")
     /\ UNCHANGED <<masterVars, oflags, inst, errno, aside, history>>

(* A close that takes every open node for a subscriber's. *)
CloseNode_AnyFlags(i) ==
  IF priv[i] # NULL
  THEN /\ subscriber_count' = [subscriber_count EXCEPT ![i] = @ - 1]
       /\ live' = live \ {priv[i]}
  ELSE UNCHANGED <<subscriber_count, live>>

\* uorb_device_node_close frees the data the node has if its flags say that
\* a subscriber has it open; _priv stays as it is.
CloseNode(i) ==
  IF oflags[i] = "RDONLY" /\ priv[i] # NULL
  THEN /\ subscriber_count' = [subscriber_count EXCEPT ![i] = @ - 1]
       /\ live' = live \ {priv[i]}
  ELSE UNCHANGED <<subscriber_count, live>>

\* orb_manager_advertise_multi closes the node and keeps a pointer to it.
CloseAdvertised(c) ==
  /\ pc[c] = "opened"
  /\ CloseNode(inst[c])
  /\ GoTo(c, "held")
  /\ UNCHANGED <<masterVars, advertised, oflags, priv, inst, errno, aside,
                 history>>

orb_unsubscribe(c) ==
  /\ c \in FileSubs
  /\ pc[c] = "held"
  /\ CloseNode(inst[c])
  /\ GoTo(c, "idle")
  /\ UNCHANGED <<masterVars, advertised, oflags, priv, inst, errno, aside,
                 history>>

\* uorb_device_node_unadvertise: the publication keeps its handle,
\* l is where its client is then.
Withdraw(c, l) ==
  LET i == inst[c]
  IN /\ advertised' = advertised \ {i}
     /\ robbed' = IF \E d \in Pubs \ {c} : Holds(d, i) THEN robbed \cup {i}
                  ELSE robbed
     /\ GoTo(c, l)
     /\ UNCHANGED <<masterVars, fileVars, inst, errno, aside, crowded, full>>

unadvertise(c) ==
  /\ c \in Pubs
  /\ pc[c] = "held"
  /\ Withdraw(c, "withdrawn")

\* ~PublicationBase withdraws its topic, whether it was withdrawn before or
\* not; a topic with a queue stays advertised.
DestroyPublication(c) ==
  /\ c \in Pubs
  /\ pc[c] \in {"held", "withdrawn"}
  /\ \/ Withdraw(c, "idle")
     \/ /\ GoTo(c, "idle")
        /\ UNCHANGED <<masterVars, advertised, fileVars, inst, errno, aside,
                       history>>

-----------------------------------------------------------------------------
(* Subscription objects.                                                   *)

\* Subscription::subscribe finds the node through the master, with its lock.
subscribe(o, i) ==
  /\ objects[o] = NULL
  /\ i \in list
  /\ lock = NULL
  /\ objects' = [objects EXCEPT ![o] = i]
  /\ subscriber_count' = [subscriber_count EXCEPT ![i] = @ + 1]
  /\ UNCHANGED <<masterVars, advertised, oflags, priv, live, callVars, history>>

unsubscribe(o) ==
  /\ objects[o] # NULL
  /\ subscriber_count' = [subscriber_count EXCEPT ![objects[o]] = @ - 1]
  /\ objects' = [objects EXCEPT ![o] = NULL]
  /\ UNCHANGED <<masterVars, advertised, oflags, priv, live, callVars, history>>

-----------------------------------------------------------------------------
Client(c) ==
  \/ \E i \in Instances : manager_node_open(c, i)
  \/ AdvertiseLock(c)
  \/ AdvertiseExisting(c)
  \/ AdvertiseRegister(c)
  \/ AdvertiseAdd(c)
  \/ AdvertiseFull(c)
  \/ AdvertiseNoMemory(c)
  \/ unode_open(c)
  \/ OpenNode(c)
  \/ CloseAdvertised(c)
  \/ orb_unsubscribe(c)
  \/ unadvertise(c)
  \/ DestroyPublication(c)

Object(o) == (\E i \in Instances : subscribe(o, i)) \/ unsubscribe(o)

Next ==
  \/ \E c \in Openers : Client(c)
  \/ \E o \in ObjectSubs : Object(o)
  \/ OtherTopicRegisters

Spec == Init /\ [][Next]_vars

-----------------------------------------------------------------------------
\* The variables have their types.
TypeOK ==
  /\ node_map \subseteq Instances
  /\ room \in 0..MapLength
  /\ lock \in Openers \cup {NULL}
  /\ list \subseteq Instances
  /\ advertised \subseteq Instances
  /\ oflags \in [Instances -> {"none", "RDONLY", "WRONLY"}]
  /\ priv \in [Instances -> Openers \cup {NULL}]
  /\ subscriber_count \in [Instances -> Int]
  /\ live \subseteq Openers
  /\ pc \in [Openers -> {"idle", "locking", "trying", "adding", "claimed",
                         "flagged", "opened", "held", "withdrawn"}]
  /\ inst \in [Openers -> Instances]
  /\ asked \in [Openers -> Instances]
  /\ errno \subseteq Openers
  /\ opens \in 0..MaxOpens
  /\ objects \in [ObjectSubs -> Instances \cup {NULL}]
  /\ crowded \subseteq Instances
  /\ robbed \subseteq Instances
  /\ full \in BOOLEAN

(***************************************************************************)
(* Whenever the master's lock is free, the nodes it knows are those that   *)
(* unode_open finds: a refused registration leaves the node alone that was *)
(* there before it, and a node that can be opened can be claimed.          *)
(***************************************************************************)
RegisteredIsListed == lock = NULL => list = node_map

(***************************************************************************)
(* No two multi-instance advertisers get the same instance, in whatever    *)
(* order their calls, the opens and the subscriptions of others run:       *)
(* "otherwise 2 multi-instance advertisers could get the same instance".   *)
(* Excepted are instances that a publication withdrew while another held   *)
(* them, or that a failed call entered because of an errno that was stale. *)
(***************************************************************************)
OneInstanceEach ==
  \A c, d \in MultiPubs :
    \A i \in Instances \ robbed : c # d => ~(Holds(c, i) /\ Holds(d, i))

(***************************************************************************)
(* What a client has advertised stays advertised until it withdraws it, or *)
(* another client does: subscribers refuse to read an unadvertised topic.  *)
(* Excepted are nodes whose flags two openers wrote at a time.             *)
(***************************************************************************)
PublisherIsSeen ==
  \A c \in Pubs :
    \A i \in Instances \ (robbed \cup crowded) :
      Holds(c, i) /\ pc[c] = "held" => i \in advertised

\* Subscribers that node i should count.
Subscribed(i) ==
  {c \in FileSubs : inst[c] = i /\ pc[c] = "held"}
    \cup {o \in ObjectSubs : objects[o] = i}

(***************************************************************************)
(* As long as no node has been opened by two clients at a time, nodes      *)
(* count their subscribers, and keep the data of the one that has them     *)
(* open: a publisher that opens and closes the node before or after it     *)
(* frees nothing.  (Afterwards a close may free data that is free already, *)
(* and so the data of any other node.)                                     *)
(***************************************************************************)
HandleIsOwn ==
  crowded = {} =>
    /\ \A i \in Instances : subscriber_count[i] = Cardinality(Subscribed(i))
    /\ \A c \in FileSubs : pc[c] = "held" =>
         priv[inst[c]] = c /\ c \in live /\ oflags[inst[c]] = "RDONLY"

(***************************************************************************)
(* A subscriber gets the instance it asked for, as long as node_map has    *)
(* room: the search for a free instance is the advertisers'.  (With no     *)
(* room left the loop goes on to the next instance and returns that.)      *)
(***************************************************************************)
GetsWhatItAskedFor ==
  \A c \in FileSubs : ~full /\ pc[c] \in Holding => inst[c] = asked[c]

(***************************************************************************)
(* The master's lock is held by the one client that is in its loop: every  *)
(* way out, the early returns too, has released it, so that nobody waits   *)
(* for a client that has gone.                                             *)
(***************************************************************************)
LockIsReleased ==
  \A c \in Openers : lock = c <=> pc[c] \in {"trying", "adding"}
=============================================================================
