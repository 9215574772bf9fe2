-------------------------- MODULE UorbMasterProofs --------------------------
(***************************************************************************)
(* What UorbMaster promises holds for any numbers of clients, instances    *)
(* and entries of node_map.  The argument has three parts, each with an    *)
(* inductive invariant of its own: the master's lock keeps the list and    *)
(* the map together; whoever claims an instance under it is alone with it; *)
(* and as long as no node is opened twice at a time, the flags and the     *)
(* data a node has are those of the client that has it open.               *)
(***************************************************************************)
EXTENDS UorbMaster, FiniteSetTheorems, TLAPS

USE MasterConstants DEF masterVars, fileVars, callVars, aside, history

-----------------------------------------------------------------------------
(* The inductive invariants.                                               *)

Adding == {c \in Openers : pc[c] = "adding"}

\* A node is in node_map but not in the list only while it is being added,
\* and whoever has got an instance can open its node.
MapInv ==
  /\ node_map = list \cup {inst[c] : c \in Adding}
  /\ \A c \in Openers : pc[c] \in Holding \cup {"withdrawn"} => inst[c] \in node_map

\* A subscriber asks for the same instance all along.
AskedInv ==
  \A c \in FileSubs :
    ~full /\ pc[c] \in Holding \cup {"locking", "trying", "adding"}
      => inst[c] = asked[c]

\* A multi-instance advertiser has marked what it holds, and nobody but the
\* one that adds a node will be its first advertiser.
ClaimInv ==
  /\ \A c \in MultiPubs :
       pc[c] \in Holding /\ inst[c] \notin robbed => inst[c] \in advertised
  /\ \A c \in Adding, d \in MultiPubs : ~Holds(d, inst[c])

\* Flags that nobody has overwritten are those of the client inside, and an
\* advertiser that has gone through has left its mark.
FlagInv ==
  /\ \A c \in Openers :
       pc[c] = "flagged" /\ inst[c] \notin crowded => oflags[inst[c]] = Flag(c)
  /\ \A c \in Pubs :
       pc[c] \in {"opened", "held"} /\ inst[c] \notin crowded \cup robbed
         => inst[c] \in advertised

\* At most one client is inside a node that is not crowded; the flags and,
\* for a subscriber that has been let in, the data are its own.
InsideInv ==
  /\ \A i \in Instances \ crowded : \A c, d \in Inside(i) : c = d
  /\ \A c \in Openers : pc[c] = "opened" =>
       c \in Pubs /\ (inst[c] \notin crowded => oflags[inst[c]] = "WRONLY")
  /\ \A c \in FileSubs : pc[c] = "held" /\ inst[c] \notin crowded
                           => oflags[inst[c]] = "RDONLY" /\ priv[inst[c]] = c
  /\ crowded = {} => \A c \in FileSubs : pc[c] = "held" => c \in live

CountInv ==
  crowded = {} =>
    \A i \in Instances : subscriber_count[i] = Cardinality(Subscribed(i))
-----------------------------------------------------------------------------
(* Types.                                                                  *)

(* The loop starts at an instance, and goes from one to the next. *)
LEMMA InstanceFacts ==
  /\ 0 \in Instances
  /\ \A i \in Instances : i + 1 # MaxInstances => i + 1 \in Instances
  BY DEF Instances

(* The variables have their types at the start. *)
LEMMA InitType == Init => TypeOK
<1> SUFFICES ASSUME Init PROVE TypeOK
  OBVIOUS
<1>1. room \in 0..MapLength /\ opens \in 0..MaxOpens
  BY DEF Init
<1>2. /\ inst \in [Openers -> Instances] /\ asked \in [Openers -> Instances]
      /\ errno \subseteq Openers
  BY InstanceFacts DEF Init
<1>3. /\ oflags \in [Instances -> {"none", "RDONLY", "WRONLY"}]
      /\ priv \in [Instances -> Openers \cup {NULL}]
      /\ subscriber_count \in [Instances -> Int]
      /\ objects \in [ObjectSubs -> Instances \cup {NULL}]
  BY DEF Init
<1> QED
  BY <1>1, <1>2, <1>3 DEF Init, TypeOK

(* Every step keeps the types. *)
LEMMA TypeStep ==
  ASSUME TypeOK, Next
  PROVE  TypeOK'
<1>1. ASSUME NEW c \in Openers, NEW i \in Instances, manager_node_open(c, i)
  PROVE TypeOK'
  BY <1>1 DEF manager_node_open, GoTo, TypeOK
<1>2. ASSUME NEW c \in Openers, AdvertiseLock(c) PROVE TypeOK'
  BY <1>2 DEF AdvertiseLock, GoTo, TypeOK
<1>3. ASSUME NEW c \in Openers, AdvertiseExisting(c) PROVE TypeOK'
  <2> inst' \in [Openers -> Instances]
    BY <1>3, InstanceFacts DEF AdvertiseExisting, TryNext, LastTry, Fail, TypeOK
  <2> QED
    BY <1>3 DEF AdvertiseExisting, TryNext, LastTry, Fail, Mark, Discarded,
       GoTo, TypeOK
<1>4. ASSUME NEW c \in Openers, AdvertiseRegister(c) PROVE TypeOK'
  BY <1>4 DEF AdvertiseRegister, GoTo, TypeOK
<1>5. ASSUME NEW c \in Openers, AdvertiseAdd(c) PROVE TypeOK'
  BY <1>5 DEF AdvertiseAdd, Mark, GoTo, TypeOK
<1>6. ASSUME NEW c \in Openers, AdvertiseFull(c) PROVE TypeOK'
  <2> inst' \in [Openers -> Instances]
    BY <1>6, InstanceFacts DEF AdvertiseFull, TryNext, LastTry, Fail, TypeOK
  <2> QED
    BY <1>6 DEF AdvertiseFull, TryNext, LastTry, Fail,
       GoTo, TypeOK
<1>7. ASSUME NEW c \in Openers, AdvertiseNoMemory(c) PROVE TypeOK'
  <2> inst' \in [Openers -> Instances]
    BY <1>7, InstanceFacts DEF AdvertiseNoMemory, Fail, TypeOK
  <2> QED
    BY <1>7 DEF AdvertiseNoMemory, Fail,
       GoTo, TypeOK
<1>8. ASSUME NEW c \in Openers, unode_open(c) PROVE TypeOK'
  BY <1>8 DEF unode_open, GoTo, TypeOK, Flag
<1>9. ASSUME NEW c \in Openers, OpenNode(c) PROVE TypeOK'
  BY <1>9 DEF OpenNode, GoTo, TypeOK
<1>10. ASSUME NEW c \in Openers, CloseAdvertised(c) PROVE TypeOK'
  BY <1>10 DEF CloseAdvertised, CloseNode, GoTo, TypeOK
<1>11. ASSUME NEW c \in Openers, orb_unsubscribe(c) PROVE TypeOK'
  BY <1>11 DEF orb_unsubscribe, CloseNode, GoTo, TypeOK
<1>12. ASSUME NEW c \in Openers, unadvertise(c) PROVE TypeOK'
  BY <1>12 DEF unadvertise, Withdraw, GoTo, TypeOK
<1>13. ASSUME NEW c \in Openers, DestroyPublication(c) PROVE TypeOK'
  BY <1>13 DEF DestroyPublication, Withdraw, GoTo, TypeOK
<1>14. ASSUME NEW o \in ObjectSubs, NEW i \in Instances, subscribe(o, i)
  PROVE TypeOK'
  BY <1>14 DEF subscribe, TypeOK
<1>15. ASSUME NEW o \in ObjectSubs, unsubscribe(o) PROVE TypeOK'
  BY <1>15 DEF unsubscribe, TypeOK
<1>16. ASSUME OtherTopicRegisters PROVE TypeOK'
  BY <1>16 DEF OtherTopicRegisters, TypeOK
<1> QED
  BY <1>1, <1>2, <1>3, <1>4, <1>5, <1>6, <1>7, <1>8, <1>9, <1>10, <1>11,
    <1>12, <1>13, <1>14, <1>15, <1>16 DEF Next, Client, Object

-----------------------------------------------------------------------------
(* The lock, the map and the list.                                         *)

(* Every way into the loop takes the lock, every way out releases it. *)
LEMMA LockStep ==
  ASSUME TypeOK, LockIsReleased, Next
  PROVE  LockIsReleased'
<1>1. ASSUME NEW c \in Openers, NEW i \in Instances, manager_node_open(c, i)
  PROVE LockIsReleased'
  BY <1>1 DEF manager_node_open, GoTo, LockIsReleased, TypeOK
<1>2. ASSUME NEW c \in Openers, AdvertiseLock(c) PROVE LockIsReleased'
  BY <1>2 DEF AdvertiseLock, GoTo, LockIsReleased, TypeOK
<1>3. ASSUME NEW c \in Openers, AdvertiseExisting(c) PROVE LockIsReleased'
  BY <1>3 DEF AdvertiseExisting, TryNext, LastTry, Fail, GoTo,
    LockIsReleased, TypeOK
<1>4. ASSUME NEW c \in Openers, AdvertiseRegister(c) PROVE LockIsReleased'
  BY <1>4 DEF AdvertiseRegister, GoTo, LockIsReleased, TypeOK
<1>5. ASSUME NEW c \in Openers, AdvertiseAdd(c) PROVE LockIsReleased'
  BY <1>5 DEF AdvertiseAdd, GoTo, LockIsReleased, TypeOK
<1>6. ASSUME NEW c \in Openers, AdvertiseFull(c) PROVE LockIsReleased'
  BY <1>6 DEF AdvertiseFull, TryNext, LastTry, Fail, GoTo, LockIsReleased,
    TypeOK
<1>7. ASSUME NEW c \in Openers, AdvertiseNoMemory(c) PROVE LockIsReleased'
  BY <1>7 DEF AdvertiseNoMemory, Fail, GoTo, LockIsReleased, TypeOK
<1>8. ASSUME NEW c \in Openers, unode_open(c) PROVE LockIsReleased'
  BY <1>8 DEF unode_open, GoTo, LockIsReleased, TypeOK
<1>9. ASSUME NEW c \in Openers, OpenNode(c) PROVE LockIsReleased'
  BY <1>9 DEF OpenNode, GoTo, LockIsReleased, TypeOK
<1>10. ASSUME NEW c \in Openers, CloseAdvertised(c) PROVE LockIsReleased'
  BY <1>10 DEF CloseAdvertised, GoTo, LockIsReleased, TypeOK
<1>11. ASSUME NEW c \in Openers, orb_unsubscribe(c) PROVE LockIsReleased'
  BY <1>11 DEF orb_unsubscribe, GoTo, LockIsReleased, TypeOK
<1>12. ASSUME NEW c \in Openers, unadvertise(c) PROVE LockIsReleased'
  BY <1>12 DEF unadvertise, Withdraw, GoTo, LockIsReleased, TypeOK
<1>13. ASSUME NEW c \in Openers, DestroyPublication(c) PROVE LockIsReleased'
  BY <1>13 DEF DestroyPublication, Withdraw, GoTo, LockIsReleased, TypeOK
<1>14. ASSUME NEW o \in ObjectSubs, NEW i \in Instances, subscribe(o, i)
  PROVE LockIsReleased'
  BY <1>14 DEF subscribe, LockIsReleased, TypeOK
<1>15. ASSUME NEW o \in ObjectSubs, unsubscribe(o) PROVE LockIsReleased'
  BY <1>15 DEF unsubscribe, LockIsReleased, TypeOK
<1>16. ASSUME OtherTopicRegisters PROVE LockIsReleased'
  BY <1>16 DEF OtherTopicRegisters, LockIsReleased, TypeOK
<1> QED
  BY <1>1, <1>2, <1>3, <1>4, <1>5, <1>6, <1>7, <1>8, <1>9, <1>10, <1>11,
    <1>12, <1>13, <1>14, <1>15, <1>16 DEF Next, Client, Object

(* The map and the list stay together, and no node leaves the map. *)
LEMMA MapStep ==
  ASSUME TypeOK, LockIsReleased, MapInv, Next
  PROVE  MapInv'
<1>1. ASSUME NEW c \in Openers, NEW i \in Instances, manager_node_open(c, i)
  PROVE MapInv'
  BY <1>1 DEF manager_node_open, GoTo, MapInv, Adding, Holding,
    LockIsReleased, TypeOK
<1>2. ASSUME NEW c \in Openers, AdvertiseLock(c) PROVE MapInv'
  BY <1>2 DEF AdvertiseLock, GoTo, MapInv, Adding, Holding, LockIsReleased,
    TypeOK
<1>3. ASSUME NEW c \in Openers, AdvertiseExisting(c) PROVE MapInv'
  BY <1>3 DEF AdvertiseExisting, TryNext, LastTry, Fail, Mark, Discarded,
    Claimable, GoTo, MapInv, Adding, Holding, LockIsReleased, TypeOK
<1>4. ASSUME NEW c \in Openers, AdvertiseRegister(c) PROVE MapInv'
  BY <1>4 DEF AdvertiseRegister, GoTo, MapInv, Adding, Holding,
    LockIsReleased, TypeOK
<1>5. ASSUME NEW c \in Openers, AdvertiseAdd(c) PROVE MapInv'
  BY <1>5 DEF AdvertiseAdd, Mark, GoTo, MapInv, Adding, Holding,
    LockIsReleased, TypeOK
<1>6. ASSUME NEW c \in Openers, AdvertiseFull(c) PROVE MapInv'
  BY <1>6 DEF AdvertiseFull, TryNext, LastTry, Fail, GoTo, MapInv, Adding,
    Holding, LockIsReleased, TypeOK
<1>7. ASSUME NEW c \in Openers, AdvertiseNoMemory(c) PROVE MapInv'
  BY <1>7 DEF AdvertiseNoMemory, Fail, GoTo, MapInv, Adding, Holding,
    LockIsReleased, TypeOK
<1>8. ASSUME NEW c \in Openers, unode_open(c) PROVE MapInv'
  BY <1>8 DEF unode_open, GoTo, MapInv, Adding, Holding, LockIsReleased,
    TypeOK
<1>9. ASSUME NEW c \in Openers, OpenNode(c) PROVE MapInv'
  BY <1>9 DEF OpenNode, GoTo, MapInv, Adding, Holding, LockIsReleased, TypeOK
<1>10. ASSUME NEW c \in Openers, CloseAdvertised(c) PROVE MapInv'
  BY <1>10 DEF CloseAdvertised, GoTo, MapInv, Adding, Holding,
    LockIsReleased, TypeOK
<1>11. ASSUME NEW c \in Openers, orb_unsubscribe(c) PROVE MapInv'
  BY <1>11 DEF orb_unsubscribe, GoTo, MapInv, Adding, Holding,
    LockIsReleased, TypeOK
<1>12. ASSUME NEW c \in Openers, unadvertise(c) PROVE MapInv'
  BY <1>12 DEF unadvertise, Withdraw, GoTo, MapInv, Adding, Holding,
    LockIsReleased, TypeOK
<1>13. ASSUME NEW c \in Openers, DestroyPublication(c) PROVE MapInv'
  BY <1>13 DEF DestroyPublication, Withdraw, GoTo, MapInv, Adding, Holding,
    LockIsReleased, TypeOK
<1>14. ASSUME NEW o \in ObjectSubs, NEW i \in Instances, subscribe(o, i)
  PROVE MapInv'
  BY <1>14 DEF subscribe, MapInv, Adding, Holding, LockIsReleased, TypeOK
<1>15. ASSUME NEW o \in ObjectSubs, unsubscribe(o) PROVE MapInv'
  BY <1>15 DEF unsubscribe, MapInv, Adding, Holding, LockIsReleased, TypeOK
<1>16. ASSUME OtherTopicRegisters PROVE MapInv'
  BY <1>16 DEF OtherTopicRegisters, MapInv, Adding, Holding, LockIsReleased,
    TypeOK
<1> QED
  BY <1>1, <1>2, <1>3, <1>4, <1>5, <1>6, <1>7, <1>8, <1>9, <1>10, <1>11,
    <1>12, <1>13, <1>14, <1>15, <1>16 DEF Next, Client, Object

(* A subscriber's instance changes only when the map is full. *)
LEMMA AskedStep ==
  ASSUME TypeOK, LockIsReleased, MapInv, AskedInv, Next
  PROVE  AskedInv'
<1>1. ASSUME NEW c \in Openers, NEW i \in Instances, manager_node_open(c, i)
  PROVE AskedInv'
  BY <1>1 DEF manager_node_open, GoTo, AskedInv, Holding, TypeOK, Openers
<1>2. ASSUME NEW c \in Openers, AdvertiseLock(c) PROVE AskedInv'
  BY <1>2 DEF AdvertiseLock, GoTo, AskedInv, Holding, TypeOK, Openers
<1>3. ASSUME NEW c \in Openers, AdvertiseExisting(c) PROVE AskedInv'
  <2>1. inst[c] \in list
    BY <1>3 DEF AdvertiseExisting, MapInv, Adding, LockIsReleased
  <2>2. CASE c \in FileSubs
    <3>1. Claimable(c, inst[c])
      BY <2>1, <2>2 DEF Claimable, Pubs
    <3> QED
      BY <1>3, <2>2, <3>1 DEF AdvertiseExisting, GoTo, AskedInv, Holding, TypeOK,
         Openers
  <2>3. CASE c \notin FileSubs
    BY <1>3, <2>3 DEF AdvertiseExisting, TryNext, Fail, GoTo, AskedInv, Holding,
       TypeOK, Openers
  <2> QED
    BY <2>2, <2>3
<1>4. ASSUME NEW c \in Openers, AdvertiseRegister(c) PROVE AskedInv'
  BY <1>4 DEF AdvertiseRegister, GoTo, AskedInv, Holding, TypeOK, Openers
<1>5. ASSUME NEW c \in Openers, AdvertiseAdd(c) PROVE AskedInv'
  BY <1>5 DEF AdvertiseAdd, GoTo, AskedInv, Holding, TypeOK, Openers
<1>6. ASSUME NEW c \in Openers, AdvertiseFull(c) PROVE AskedInv'
  BY <1>6 DEF AdvertiseFull, TryNext, LastTry, Fail, GoTo, AskedInv, Holding,
    TypeOK, Openers
<1>7. ASSUME NEW c \in Openers, AdvertiseNoMemory(c) PROVE AskedInv'
  <2>1. ASSUME NEW d \in FileSubs, d # c,
               ~full /\ pc[d] \in Holding \cup {"locking", "trying", "adding"}
        PROVE  inst'[d] = asked'[d]
    BY <1>7, <2>1 DEF AdvertiseNoMemory, Fail, AskedInv, TypeOK, Openers
  <2> QED
    BY <1>7, <2>1 DEF AdvertiseNoMemory, Fail, GoTo, AskedInv, Holding, TypeOK,
       Openers
<1>8. ASSUME NEW c \in Openers, unode_open(c) PROVE AskedInv'
  BY <1>8 DEF unode_open, GoTo, AskedInv, Holding, TypeOK, Openers
<1>9. ASSUME NEW c \in Openers, OpenNode(c) PROVE AskedInv'
  BY <1>9 DEF OpenNode, GoTo, AskedInv, Holding, TypeOK, Openers
<1>10. ASSUME NEW c \in Openers, CloseAdvertised(c) PROVE AskedInv'
  BY <1>10 DEF CloseAdvertised, GoTo, AskedInv, Holding, TypeOK, Openers
<1>11. ASSUME NEW c \in Openers, orb_unsubscribe(c) PROVE AskedInv'
  BY <1>11 DEF orb_unsubscribe, GoTo, AskedInv, Holding, TypeOK, Openers
<1>12. ASSUME NEW c \in Openers, unadvertise(c) PROVE AskedInv'
  BY <1>12 DEF unadvertise, Withdraw, GoTo, AskedInv, Holding, TypeOK,
    Openers
<1>13. ASSUME NEW c \in Openers, DestroyPublication(c) PROVE AskedInv'
  BY <1>13 DEF DestroyPublication, Withdraw, GoTo, AskedInv, Holding, TypeOK,
    Openers
<1>14. ASSUME NEW o \in ObjectSubs, NEW i \in Instances, subscribe(o, i)
  PROVE AskedInv'
  BY <1>14 DEF subscribe, AskedInv, Holding, TypeOK, Openers
<1>15. ASSUME NEW o \in ObjectSubs, unsubscribe(o) PROVE AskedInv'
  BY <1>15 DEF unsubscribe, AskedInv, Holding, TypeOK, Openers
<1>16. ASSUME OtherTopicRegisters PROVE AskedInv'
  BY <1>16 DEF OtherTopicRegisters, AskedInv, Holding, TypeOK, Openers
<1> QED
  BY <1>1, <1>2, <1>3, <1>4, <1>5, <1>6, <1>7, <1>8, <1>9, <1>10, <1>11,
    <1>12, <1>13, <1>14, <1>15, <1>16 DEF Next, Client, Object

-----------------------------------------------------------------------------
(* Who holds an instance.                                                  *)

(* What a multi-instance advertiser claims it marks, under the lock. *)
LEMMA ClaimStep ==
  ASSUME TypeOK, LockIsReleased, MapInv, ClaimInv, Next
  PROVE  ClaimInv'
<1>1. ASSUME NEW c \in Openers, NEW i \in Instances, manager_node_open(c, i)
  PROVE ClaimInv'
  BY <1>1 DEF manager_node_open, GoTo, ClaimInv, Adding, Holds, Holding,
    TypeOK, Pubs, Openers
<1>2. ASSUME NEW c \in Openers, AdvertiseLock(c) PROVE ClaimInv'
  BY <1>2 DEF AdvertiseLock, GoTo, ClaimInv, Adding, Holds, Holding, TypeOK,
    Pubs, Openers
<1>3. ASSUME NEW c \in Openers, AdvertiseExisting(c) PROVE ClaimInv'
  BY <1>3 DEF AdvertiseExisting, TryNext, LastTry, Fail, Mark, Discarded,
    Claimable, GoTo, ClaimInv, Adding, Holds, Holding, TypeOK, Pubs, Openers,
    LockIsReleased, MapInv
<1>4. ASSUME NEW c \in Openers, AdvertiseRegister(c) PROVE ClaimInv'
  BY <1>4 DEF AdvertiseRegister, GoTo, ClaimInv, Adding, Holds, Holding,
    TypeOK, Pubs, Openers, LockIsReleased, MapInv
<1>5. ASSUME NEW c \in Openers, AdvertiseAdd(c) PROVE ClaimInv'
  BY <1>5 DEF AdvertiseAdd, Mark, GoTo, ClaimInv, Adding, Holds, Holding,
    TypeOK, Pubs, Openers, LockIsReleased, MapInv
<1>6. ASSUME NEW c \in Openers, AdvertiseFull(c) PROVE ClaimInv'
  BY <1>6 DEF AdvertiseFull, TryNext, LastTry, Fail, GoTo, ClaimInv, Adding,
    Holds, Holding, TypeOK, Pubs, Openers, LockIsReleased, MapInv
<1>7. ASSUME NEW c \in Openers, AdvertiseNoMemory(c) PROVE ClaimInv'
  BY <1>7 DEF AdvertiseNoMemory, Fail, GoTo, ClaimInv, Adding, Holds,
    Holding, TypeOK, Pubs, Openers, LockIsReleased, MapInv
<1>8. ASSUME NEW c \in Openers, unode_open(c) PROVE ClaimInv'
  BY <1>8 DEF unode_open, GoTo, ClaimInv, Adding, Holds, Holding, TypeOK,
    Pubs, Openers
<1>9. ASSUME NEW c \in Openers, OpenNode(c) PROVE ClaimInv'
  BY <1>9 DEF OpenNode, GoTo, ClaimInv, Adding, Holds, Holding, TypeOK, Pubs,
    Openers
<1>10. ASSUME NEW c \in Openers, CloseAdvertised(c) PROVE ClaimInv'
  BY <1>10 DEF CloseAdvertised, GoTo, ClaimInv, Adding, Holds, Holding,
    TypeOK, Pubs, Openers
<1>11. ASSUME NEW c \in Openers, orb_unsubscribe(c) PROVE ClaimInv'
  BY <1>11 DEF orb_unsubscribe, GoTo, ClaimInv, Adding, Holds, Holding,
    TypeOK, Pubs, Openers
<1>12. ASSUME NEW c \in Openers, unadvertise(c) PROVE ClaimInv'
  BY <1>12 DEF unadvertise, Withdraw, GoTo, ClaimInv, Adding, Holds, Holding,
    TypeOK, Pubs, Openers
<1>13. ASSUME NEW c \in Openers, DestroyPublication(c) PROVE ClaimInv'
  BY <1>13 DEF DestroyPublication, Withdraw, GoTo, ClaimInv, Adding, Holds,
    Holding, TypeOK, Pubs, Openers
<1>14. ASSUME NEW o \in ObjectSubs, NEW i \in Instances, subscribe(o, i)
  PROVE ClaimInv'
  BY <1>14 DEF subscribe, ClaimInv, Adding, Holds, Holding, TypeOK, Pubs,
    Openers
<1>15. ASSUME NEW o \in ObjectSubs, unsubscribe(o) PROVE ClaimInv'
  BY <1>15 DEF unsubscribe, ClaimInv, Adding, Holds, Holding, TypeOK, Pubs,
    Openers
<1>16. ASSUME OtherTopicRegisters PROVE ClaimInv'
  BY <1>16 DEF OtherTopicRegisters, ClaimInv, Adding, Holds, Holding, TypeOK,
    Pubs, Openers
<1> QED
  BY <1>1, <1>2, <1>3, <1>4, <1>5, <1>6, <1>7, <1>8, <1>9, <1>10, <1>11,
    <1>12, <1>13, <1>14, <1>15, <1>16 DEF Next, Client, Object

(* A claim goes to an instance that no other has. *)
LEMMA OneStep ==
  ASSUME TypeOK, LockIsReleased, MapInv, ClaimInv, OneInstanceEach, Next
  PROVE  OneInstanceEach'
<1>1. ASSUME NEW c \in Openers, NEW i \in Instances, manager_node_open(c, i)
  PROVE OneInstanceEach'
  BY <1>1 DEF manager_node_open, GoTo, OneInstanceEach, Holds, Holding,
    TypeOK, Pubs, Openers
<1>2. ASSUME NEW c \in Openers, AdvertiseLock(c) PROVE OneInstanceEach'
  BY <1>2 DEF AdvertiseLock, GoTo, OneInstanceEach, Holds, Holding, TypeOK,
    Pubs, Openers
<1>3. ASSUME NEW c \in Openers, AdvertiseExisting(c) PROVE OneInstanceEach'
  BY <1>3 DEF AdvertiseExisting, TryNext, LastTry, Fail, Mark, Discarded,
    Claimable, GoTo, OneInstanceEach, Holds, Holding, TypeOK, Pubs, Openers,
    ClaimInv, Adding
<1>4. ASSUME NEW c \in Openers, AdvertiseRegister(c) PROVE OneInstanceEach'
  BY <1>4 DEF AdvertiseRegister, GoTo, OneInstanceEach, Holds, Holding,
    TypeOK, Pubs, Openers
<1>5. ASSUME NEW c \in Openers, AdvertiseAdd(c) PROVE OneInstanceEach'
  BY <1>5 DEF AdvertiseAdd, Mark, GoTo, OneInstanceEach, Holds, Holding,
    TypeOK, Pubs, Openers, ClaimInv, Adding
<1>6. ASSUME NEW c \in Openers, AdvertiseFull(c) PROVE OneInstanceEach'
  BY <1>6 DEF AdvertiseFull, TryNext, LastTry, Fail, GoTo, OneInstanceEach,
    Holds, Holding, TypeOK, Pubs, Openers, ClaimInv, Adding
<1>7. ASSUME NEW c \in Openers, AdvertiseNoMemory(c) PROVE OneInstanceEach'
  BY <1>7 DEF AdvertiseNoMemory, Fail, GoTo, OneInstanceEach, Holds, Holding,
    TypeOK, Pubs, Openers, ClaimInv, Adding
<1>8. ASSUME NEW c \in Openers, unode_open(c) PROVE OneInstanceEach'
  BY <1>8 DEF unode_open, GoTo, OneInstanceEach, Holds, Holding, TypeOK,
    Pubs, Openers
<1>9. ASSUME NEW c \in Openers, OpenNode(c) PROVE OneInstanceEach'
  BY <1>9 DEF OpenNode, GoTo, OneInstanceEach, Holds, Holding, TypeOK, Pubs,
    Openers
<1>10. ASSUME NEW c \in Openers, CloseAdvertised(c) PROVE OneInstanceEach'
  BY <1>10 DEF CloseAdvertised, GoTo, OneInstanceEach, Holds, Holding,
    TypeOK, Pubs, Openers
<1>11. ASSUME NEW c \in Openers, orb_unsubscribe(c) PROVE OneInstanceEach'
  BY <1>11 DEF orb_unsubscribe, GoTo, OneInstanceEach, Holds, Holding,
    TypeOK, Pubs, Openers
<1>12. ASSUME NEW c \in Openers, unadvertise(c) PROVE OneInstanceEach'
  BY <1>12 DEF unadvertise, Withdraw, GoTo, OneInstanceEach, Holds, Holding,
    TypeOK, Pubs, Openers
<1>13. ASSUME NEW c \in Openers, DestroyPublication(c) PROVE OneInstanceEach'
  BY <1>13 DEF DestroyPublication, Withdraw, GoTo, OneInstanceEach, Holds,
    Holding, TypeOK, Pubs, Openers
<1>14. ASSUME NEW o \in ObjectSubs, NEW i \in Instances, subscribe(o, i)
  PROVE OneInstanceEach'
  BY <1>14 DEF subscribe, OneInstanceEach, Holds, Holding, TypeOK, Pubs,
    Openers
<1>15. ASSUME NEW o \in ObjectSubs, unsubscribe(o) PROVE OneInstanceEach'
  BY <1>15 DEF unsubscribe, OneInstanceEach, Holds, Holding, TypeOK, Pubs,
    Openers
<1>16. ASSUME OtherTopicRegisters PROVE OneInstanceEach'
  BY <1>16 DEF OtherTopicRegisters, OneInstanceEach, Holds, Holding, TypeOK,
    Pubs, Openers
<1> QED
  BY <1>1, <1>2, <1>3, <1>4, <1>5, <1>6, <1>7, <1>8, <1>9, <1>10, <1>11,
    <1>12, <1>13, <1>14, <1>15, <1>16 DEF Next, Client, Object

(* Flags that are not overwritten are acted upon by their writer. *)
LEMMA FlagStep ==
  ASSUME TypeOK, FlagInv, Next
  PROVE  FlagInv'
<1>1. ASSUME NEW c \in Openers, NEW i \in Instances, manager_node_open(c, i)
  PROVE FlagInv'
  BY <1>1 DEF manager_node_open, GoTo, FlagInv, Flag, TypeOK, Pubs, Openers
<1>2. ASSUME NEW c \in Openers, AdvertiseLock(c) PROVE FlagInv'
  BY <1>2 DEF AdvertiseLock, GoTo, FlagInv, Flag, TypeOK, Pubs, Openers
<1>3. ASSUME NEW c \in Openers, AdvertiseExisting(c) PROVE FlagInv'
  BY <1>3 DEF AdvertiseExisting, TryNext, LastTry, Fail, Mark, Discarded,
    Claimable, GoTo, FlagInv, Flag, TypeOK, Pubs, Openers
<1>4. ASSUME NEW c \in Openers, AdvertiseRegister(c) PROVE FlagInv'
  BY <1>4 DEF AdvertiseRegister, GoTo, FlagInv, Flag, TypeOK, Pubs, Openers
<1>5. ASSUME NEW c \in Openers, AdvertiseAdd(c) PROVE FlagInv'
  BY <1>5 DEF AdvertiseAdd, Mark, GoTo, FlagInv, Flag, TypeOK, Pubs, Openers
<1>6. ASSUME NEW c \in Openers, AdvertiseFull(c) PROVE FlagInv'
  BY <1>6 DEF AdvertiseFull, TryNext, LastTry, Fail, GoTo, FlagInv, Flag,
    TypeOK, Pubs, Openers
<1>7. ASSUME NEW c \in Openers, AdvertiseNoMemory(c) PROVE FlagInv'
  BY <1>7 DEF AdvertiseNoMemory, Fail, GoTo, FlagInv, Flag, TypeOK, Pubs,
    Openers
<1>8. ASSUME NEW c \in Openers, unode_open(c) PROVE FlagInv'
  BY <1>8 DEF unode_open, GoTo, FlagInv, Flag, TypeOK, Pubs, Openers, Inside
<1>9. ASSUME NEW c \in Openers, OpenNode(c) PROVE FlagInv'
  BY <1>9 DEF OpenNode, GoTo, FlagInv, Flag, TypeOK, Pubs, Openers
<1>10. ASSUME NEW c \in Openers, CloseAdvertised(c) PROVE FlagInv'
  BY <1>10 DEF CloseAdvertised, GoTo, FlagInv, Flag, TypeOK, Pubs, Openers
<1>11. ASSUME NEW c \in Openers, orb_unsubscribe(c) PROVE FlagInv'
  BY <1>11 DEF orb_unsubscribe, GoTo, FlagInv, Flag, TypeOK, Pubs, Openers
<1>12. ASSUME NEW c \in Openers, unadvertise(c) PROVE FlagInv'
  BY <1>12 DEF unadvertise, Withdraw, GoTo, FlagInv, Flag, TypeOK, Pubs,
    Openers, Holds, Holding
<1>13. ASSUME NEW c \in Openers, DestroyPublication(c) PROVE FlagInv'
  BY <1>13 DEF DestroyPublication, Withdraw, GoTo, FlagInv, Flag, TypeOK,
    Pubs, Openers, Holds, Holding
<1>14. ASSUME NEW o \in ObjectSubs, NEW i \in Instances, subscribe(o, i)
  PROVE FlagInv'
  BY <1>14 DEF subscribe, FlagInv, Flag, TypeOK, Pubs, Openers
<1>15. ASSUME NEW o \in ObjectSubs, unsubscribe(o) PROVE FlagInv'
  BY <1>15 DEF unsubscribe, FlagInv, Flag, TypeOK, Pubs, Openers
<1>16. ASSUME OtherTopicRegisters PROVE FlagInv'
  BY <1>16 DEF OtherTopicRegisters, FlagInv, Flag, TypeOK, Pubs, Openers
<1> QED
  BY <1>1, <1>2, <1>3, <1>4, <1>5, <1>6, <1>7, <1>8, <1>9, <1>10, <1>11,
    <1>12, <1>13, <1>14, <1>15, <1>16 DEF Next, Client, Object

-----------------------------------------------------------------------------
(* Who is inside a node, and whom a node counts.                           *)

(* A node that is not crowded has one client inside, whose data it has. *)
LEMMA InsideStep ==
  ASSUME TypeOK, FlagInv, InsideInv, Next
  PROVE  InsideInv'
<1>1. ASSUME NEW c \in Openers, NEW i \in Instances, manager_node_open(c, i)
  PROVE InsideInv'
  BY <1>1 DEF manager_node_open, GoTo, InsideInv, Inside, TypeOK, Pubs,
    Openers
<1>2. ASSUME NEW c \in Openers, AdvertiseLock(c) PROVE InsideInv'
  BY <1>2 DEF AdvertiseLock, GoTo, InsideInv, Inside, TypeOK, Pubs, Openers
<1>3. ASSUME NEW c \in Openers, AdvertiseExisting(c) PROVE InsideInv'
  BY <1>3 DEF AdvertiseExisting, TryNext, LastTry, Fail, Mark, Discarded,
    Claimable, GoTo, InsideInv, Inside, TypeOK, Pubs, Openers
<1>4. ASSUME NEW c \in Openers, AdvertiseRegister(c) PROVE InsideInv'
  BY <1>4 DEF AdvertiseRegister, GoTo, InsideInv, Inside, TypeOK, Pubs,
    Openers
<1>5. ASSUME NEW c \in Openers, AdvertiseAdd(c) PROVE InsideInv'
  BY <1>5 DEF AdvertiseAdd, Mark, GoTo, InsideInv, Inside, TypeOK, Pubs,
    Openers
<1>6. ASSUME NEW c \in Openers, AdvertiseFull(c) PROVE InsideInv'
  BY <1>6 DEF AdvertiseFull, TryNext, LastTry, Fail, GoTo, InsideInv, Inside,
    TypeOK, Pubs, Openers
<1>7. ASSUME NEW c \in Openers, AdvertiseNoMemory(c) PROVE InsideInv'
  BY <1>7 DEF AdvertiseNoMemory, Fail, GoTo, InsideInv, Inside, TypeOK, Pubs,
    Openers
<1>8. ASSUME NEW c \in Openers, unode_open(c) PROVE InsideInv'
  BY <1>8 DEF unode_open, GoTo, InsideInv, Inside, TypeOK, Pubs, Openers,
    Flag
<1>9. ASSUME NEW c \in Openers, OpenNode(c) PROVE InsideInv'
  BY <1>9 DEF OpenNode, GoTo, InsideInv, Inside, TypeOK, Pubs, Openers,
    FlagInv, Flag
<1>10. ASSUME NEW c \in Openers, CloseAdvertised(c) PROVE InsideInv'
  BY <1>10 DEF CloseAdvertised, CloseNode, GoTo, InsideInv, Inside, TypeOK,
    Pubs, Openers
<1>11. ASSUME NEW c \in Openers, orb_unsubscribe(c) PROVE InsideInv'
  BY <1>11 DEF orb_unsubscribe, CloseNode, GoTo, InsideInv, Inside, TypeOK,
    Pubs, Openers
<1>12. ASSUME NEW c \in Openers, unadvertise(c) PROVE InsideInv'
  BY <1>12 DEF unadvertise, Withdraw, GoTo, InsideInv, Inside, TypeOK, Pubs,
    Openers
<1>13. ASSUME NEW c \in Openers, DestroyPublication(c) PROVE InsideInv'
  BY <1>13 DEF DestroyPublication, Withdraw, GoTo, InsideInv, Inside, TypeOK,
    Pubs, Openers
<1>14. ASSUME NEW o \in ObjectSubs, NEW i \in Instances, subscribe(o, i)
  PROVE InsideInv'
  BY <1>14 DEF subscribe, InsideInv, Inside, TypeOK, Pubs, Openers
<1>15. ASSUME NEW o \in ObjectSubs, unsubscribe(o) PROVE InsideInv'
  BY <1>15 DEF unsubscribe, InsideInv, Inside, TypeOK, Pubs, Openers
<1>16. ASSUME OtherTopicRegisters PROVE InsideInv'
  BY <1>16 DEF OtherTopicRegisters, InsideInv, Inside, TypeOK, Pubs, Openers
<1> QED
  BY <1>1, <1>2, <1>3, <1>4, <1>5, <1>6, <1>7, <1>8, <1>9, <1>10, <1>11,
    <1>12, <1>13, <1>14, <1>15, <1>16 DEF Next, Client, Object

(* Nodes have finitely many subscribers. *)
LEMMA SubscribedIsFinite == \A i \in Instances : IsFiniteSet(Subscribed(i))
<1> TAKE i \in Instances
<1>1. IsFiniteSet({c \in FileSubs : inst[c] = i /\ pc[c] = "held"})
  BY FS_Subset
<1>2. IsFiniteSet({o \in ObjectSubs : objects[o] = i})
  BY FS_Subset
<1> QED
  BY <1>1, <1>2, FS_Union DEF Subscribed

(* A step that changes neither the counts nor the subscribers. *)
LEMMA CountStays ==
  ASSUME CountInv, crowded \subseteq crowded', UNCHANGED subscriber_count,
         \A i \in Instances : Subscribed(i)' = Subscribed(i)
  PROVE  CountInv'
  BY DEF CountInv

(* A step that brings node i a subscriber, and counts it. *)
LEMMA CountGrows ==
  ASSUME TypeOK, CountInv, crowded \subseteq crowded', NEW i \in Instances, NEW s,
         s \notin Subscribed(i),
         subscriber_count' = [subscriber_count EXCEPT ![i] = @ + 1],
         Subscribed(i)' = Subscribed(i) \cup {s},
         \A j \in Instances \ {i} : Subscribed(j)' = Subscribed(j)
  PROVE  CountInv'
<1>1. Cardinality(Subscribed(i) \cup {s}) = Cardinality(Subscribed(i)) + 1
  BY SubscribedIsFinite, FS_AddElement
<1> QED
  BY <1>1 DEF CountInv, TypeOK

(* A step that takes a subscriber from node i, and from its count. *)
LEMMA CountShrinks ==
  ASSUME TypeOK, CountInv, crowded \subseteq crowded', NEW i \in Instances, NEW s,
         s \in Subscribed(i),
         subscriber_count' = [subscriber_count EXCEPT ![i] = @ - 1],
         Subscribed(i)' = Subscribed(i) \ {s},
         \A j \in Instances \ {i} : Subscribed(j)' = Subscribed(j)
  PROVE  CountInv'
<1>1. Cardinality(Subscribed(i) \ {s}) = Cardinality(Subscribed(i)) - 1
  BY SubscribedIsFinite, FS_RemoveElement
<1> QED
  BY <1>1 DEF CountInv, TypeOK

(* A node that is not crowded counts who comes and who goes. *)
LEMMA CountStep ==
  ASSUME TypeOK, FlagInv, InsideInv, CountInv, Next
  PROVE  CountInv'
<1>1. ASSUME NEW c \in Openers, NEW i \in Instances, manager_node_open(c, i)
  PROVE CountInv'
  <2>1. \A j \in Instances : Subscribed(j)' = Subscribed(j)
    BY <1>1 DEF manager_node_open, GoTo, Subscribed, TypeOK, Pubs, Openers
  <2> QED
    BY <1>1, <2>1, CountStays DEF manager_node_open
<1>2. ASSUME NEW c \in Openers, AdvertiseLock(c) PROVE CountInv'
  <2>1. \A i \in Instances : Subscribed(i)' = Subscribed(i)
    BY <1>2 DEF AdvertiseLock, GoTo, Subscribed, TypeOK, Pubs, Openers
  <2> QED
    BY <1>2, <2>1, CountStays DEF AdvertiseLock
<1>3. ASSUME NEW c \in Openers, AdvertiseExisting(c) PROVE CountInv'
  <2>1. \A i \in Instances : Subscribed(i)' = Subscribed(i)
    BY <1>3 DEF AdvertiseExisting, TryNext, LastTry, Fail, GoTo, Subscribed,
      TypeOK, Pubs, Openers
  <2> QED
    BY <1>3, <2>1, CountStays DEF AdvertiseExisting, TryNext, LastTry, Fail
<1>4. ASSUME NEW c \in Openers, AdvertiseRegister(c) PROVE CountInv'
  <2>1. \A i \in Instances : Subscribed(i)' = Subscribed(i)
    BY <1>4 DEF AdvertiseRegister, GoTo, Subscribed, TypeOK, Pubs, Openers
  <2> QED
    BY <1>4, <2>1, CountStays DEF AdvertiseRegister
<1>5. ASSUME NEW c \in Openers, AdvertiseAdd(c) PROVE CountInv'
  <2>1. \A i \in Instances : Subscribed(i)' = Subscribed(i)
    BY <1>5 DEF AdvertiseAdd, GoTo, Subscribed, TypeOK, Pubs, Openers
  <2> QED
    BY <1>5, <2>1, CountStays DEF AdvertiseAdd
<1>6. ASSUME NEW c \in Openers, AdvertiseFull(c) PROVE CountInv'
  <2>1. \A i \in Instances : Subscribed(i)' = Subscribed(i)
    BY <1>6 DEF AdvertiseFull, TryNext, LastTry, Fail, GoTo, Subscribed,
      TypeOK, Pubs, Openers
  <2> QED
    BY <1>6, <2>1, CountStays DEF AdvertiseFull, TryNext, LastTry, Fail
<1>7. ASSUME NEW c \in Openers, AdvertiseNoMemory(c) PROVE CountInv'
  <2>1. \A i \in Instances : Subscribed(i)' = Subscribed(i)
    BY <1>7 DEF AdvertiseNoMemory, Fail, GoTo, Subscribed, TypeOK, Pubs,
      Openers
  <2> QED
    BY <1>7, <2>1, CountStays DEF AdvertiseNoMemory, Fail
<1>8. ASSUME NEW c \in Openers, unode_open(c) PROVE CountInv'
  <2>1. \A i \in Instances : Subscribed(i)' = Subscribed(i)
    BY <1>8 DEF unode_open, GoTo, Subscribed, TypeOK, Pubs, Openers
  <2> QED
    BY <1>8, <2>1, CountStays DEF unode_open
<1>9. ASSUME NEW c \in Openers, OpenNode(c) PROVE CountInv'
  <2>1. CASE crowded # {}
    BY <1>9, <2>1 DEF OpenNode, CountInv
  <2>2. CASE crowded = {} /\ c \in Pubs
    <3>1. oflags[inst[c]] = "WRONLY"
      BY <1>9, <2>2 DEF OpenNode, FlagInv, Flag
    <3>2. \A i \in Instances : Subscribed(i)' = Subscribed(i)
      BY <1>9, <2>2 DEF OpenNode, GoTo, Subscribed, TypeOK, Openers
    <3> QED
      BY <1>9, <3>1, <3>2, CountStays DEF OpenNode
  <2>3. CASE crowded = {} /\ c \notin Pubs
    <3>1. oflags[inst[c]] = "RDONLY"
      BY <1>9, <2>3 DEF OpenNode, FlagInv, Flag
    <3>2. /\ inst[c] \in Instances /\ c \in FileSubs
          /\ c \notin Subscribed(inst[c])
      BY <1>9, <2>3 DEF OpenNode, Subscribed, TypeOK, Openers
    <3>3. /\ Subscribed(inst[c])' = Subscribed(inst[c]) \cup {c}
          /\ \A i \in Instances \ {inst[c]} : Subscribed(i)' = Subscribed(i)
      BY <1>9, <2>3, <3>2 DEF OpenNode, GoTo, Subscribed, TypeOK, Openers
    <3> QED
      BY <1>9, <3>1, <3>2, <3>3, CountGrows DEF OpenNode
  <2> QED
    BY <2>1, <2>2, <2>3
<1>10. ASSUME NEW c \in Openers, CloseAdvertised(c) PROVE CountInv'
  <2>1. CASE crowded # {}
    BY <1>10, <2>1 DEF CloseAdvertised, CountInv
  <2>2. CASE crowded = {}
    <3>1. c \in Pubs /\ oflags[inst[c]] = "WRONLY"
      BY <1>10, <2>2 DEF CloseAdvertised, InsideInv
    <3>2. \A i \in Instances : Subscribed(i)' = Subscribed(i)
      BY <1>10, <3>1 DEF CloseAdvertised, GoTo, Subscribed, TypeOK, Openers
    <3> QED
      BY <1>10, <3>1, <3>2, CountStays DEF CloseAdvertised, CloseNode
  <2> QED
    BY <2>1, <2>2
<1>11. ASSUME NEW c \in Openers, orb_unsubscribe(c) PROVE CountInv'
  <2>1. CASE crowded # {}
    BY <1>11, <2>1 DEF orb_unsubscribe, CountInv
  <2>2. CASE crowded = {}
    <3>1. oflags[inst[c]] = "RDONLY" /\ priv[inst[c]] # NULL
      BY <1>11, <2>2 DEF orb_unsubscribe, InsideInv
    <3>2. inst[c] \in Instances /\ c \in Subscribed(inst[c])
      BY <1>11 DEF orb_unsubscribe, Subscribed, TypeOK
    <3>3. /\ Subscribed(inst[c])' = Subscribed(inst[c]) \ {c}
          /\ \A i \in Instances \ {inst[c]} : Subscribed(i)' = Subscribed(i)
      BY <1>11 DEF orb_unsubscribe, GoTo, Subscribed, TypeOK, Openers
    <3> QED
      BY <1>11, <3>1, <3>2, <3>3, CountShrinks DEF orb_unsubscribe, CloseNode
  <2> QED
    BY <2>1, <2>2
<1>12. ASSUME NEW c \in Openers, unadvertise(c) PROVE CountInv'
  <2>1. \A i \in Instances : Subscribed(i)' = Subscribed(i)
    BY <1>12 DEF unadvertise, Withdraw, GoTo, Subscribed, TypeOK, Pubs,
      Openers
  <2> QED
    BY <1>12, <2>1, CountStays DEF unadvertise, Withdraw
<1>13. ASSUME NEW c \in Openers, DestroyPublication(c) PROVE CountInv'
  <2>1. \A i \in Instances : Subscribed(i)' = Subscribed(i)
    BY <1>13 DEF DestroyPublication, Withdraw, GoTo, Subscribed, TypeOK,
      Pubs, Openers
  <2> QED
    BY <1>13, <2>1, CountStays DEF DestroyPublication, Withdraw
<1>14. ASSUME NEW o \in ObjectSubs, NEW i \in Instances, subscribe(o, i)
  PROVE CountInv'
  <2>1. o \notin Subscribed(i)
    BY <1>14 DEF subscribe, Subscribed, Openers
  <2>2. /\ Subscribed(i)' = Subscribed(i) \cup {o}
        /\ \A j \in Instances \ {i} : Subscribed(j)' = Subscribed(j)
    BY <1>14 DEF subscribe, Subscribed, TypeOK
  <2> QED
    BY <1>14, <2>1, <2>2, CountGrows DEF subscribe
<1>15. ASSUME NEW o \in ObjectSubs, unsubscribe(o) PROVE CountInv'
  <2>1. PICK i \in Instances : objects[o] = i
    BY <1>15 DEF unsubscribe, TypeOK
  <2>2. o \in Subscribed(i)
    BY <2>1 DEF Subscribed
  <2>3. /\ Subscribed(i)' = Subscribed(i) \ {o}
        /\ \A j \in Instances \ {i} : Subscribed(j)' = Subscribed(j)
    BY <1>15, <2>1 DEF unsubscribe, Subscribed, TypeOK, Openers
  <2> QED
    BY <1>15, <2>1, <2>2, <2>3, CountShrinks DEF unsubscribe
<1>16. ASSUME OtherTopicRegisters PROVE CountInv'
  <2>1. \A i \in Instances : Subscribed(i)' = Subscribed(i)
    BY <1>16 DEF OtherTopicRegisters, Subscribed, TypeOK, Pubs, Openers
  <2> QED
    BY <1>16, <2>1, CountStays DEF OtherTopicRegisters
<1> QED
  BY <1>1, <1>2, <1>3, <1>4, <1>5, <1>6, <1>7, <1>8, <1>9, <1>10, <1>11,
    <1>12, <1>13, <1>14, <1>15, <1>16 DEF Next, Client, Object

-----------------------------------------------------------------------------
(* The theorems.                                                           *)

MasterInv ==
  /\ TypeOK /\ LockIsReleased /\ MapInv /\ AskedInv
  /\ ClaimInv /\ OneInstanceEach
  /\ FlagInv /\ InsideInv /\ CountInv

(* The invariant holds before the first call. *)
LEMMA InitMaster == Init => MasterInv
<1> SUFFICES ASSUME Init PROVE MasterInv
  OBVIOUS
<1>1. TypeOK /\ LockIsReleased
  BY InitType DEF Init, LockIsReleased
<1>2. MapInv /\ AskedInv /\ ClaimInv /\ OneInstanceEach
  BY DEF Init, MapInv, AskedInv, ClaimInv, OneInstanceEach, Adding, Holds,
         Holding, Pubs, Openers
<1>3. FlagInv /\ InsideInv
  BY DEF Init, FlagInv, InsideInv, Inside, Pubs, Openers
<1>4. \A i \in Instances : Subscribed(i) = {}
  BY DEF Init, Subscribed, Openers
<1>5. CountInv
  BY <1>4, FS_EmptySet DEF Init, CountInv
<1> QED
  BY <1>1, <1>2, <1>3, <1>5 DEF MasterInv

(* Nothing in the invariant depends on more than the variables. *)
LEMMA MasterStutters == MasterInv /\ UNCHANGED vars => MasterInv'
  BY DEF MasterInv, vars, TypeOK, LockIsReleased, MapInv, AskedInv, ClaimInv,
         OneInstanceEach, FlagInv, InsideInv, CountInv, Adding, Holds, Inside,
         Subscribed

(* MasterInv is an invariant of the master, the manager and the nodes,     *)
(* whatever the clients of the topic do.                                   *)
THEOREM MasterInvariant == Spec => []MasterInv
<1>1. MasterInv /\ [Next]_vars => MasterInv'
  <2> SUFFICES ASSUME MasterInv, [Next]_vars PROVE MasterInv'
    OBVIOUS
  <2>1. CASE Next
    BY <2>1, TypeStep, LockStep, MapStep, AskedStep, ClaimStep, OneStep, FlagStep,
       InsideStep, CountStep DEF MasterInv
  <2>2. CASE UNCHANGED vars
    BY <2>2, MasterStutters
  <2> QED
    BY <2>1, <2>2
<1> QED
  BY InitMaster, <1>1, PTL DEF Spec

(* The master's lock is never left behind: whoever is out of the loop of   *)
(* the advertise call, by whichever return, has released it.               *)
THEOREM LockReleased == Spec => []LockIsReleased
<1>1. MasterInv => LockIsReleased
  BY DEF MasterInv
<1> QED
  BY MasterInvariant, <1>1, PTL

(* With the lock free, the master's list has exactly the registered nodes. *)
THEOREM ListIsTheMap == Spec => []RegisteredIsListed
<1>1. MasterInv => RegisteredIsListed
  BY DEF MasterInv, RegisteredIsListed, LockIsReleased, MapInv, Adding
<1> QED
  BY MasterInvariant, <1>1, PTL

(* No two multi-instance advertisers hold one instance, for any number of  *)
(* them, but for those that a withdrawal or a stale errno brought there.   *)
THEOREM NoSharedInstance == Spec => []OneInstanceEach
<1>1. MasterInv => OneInstanceEach
  BY DEF MasterInv
<1> QED
  BY MasterInvariant, <1>1, PTL

(* What was advertised and neither withdrawn nor overwritten is advertised.*)
THEOREM AdvertisedIsSeen == Spec => []PublisherIsSeen
<1>1. MasterInv => PublisherIsSeen
  BY DEF MasterInv, PublisherIsSeen, FlagInv, Holds
<1> QED
  BY MasterInvariant, <1>1, PTL

(* While no node is opened twice at a time, the counts are right and the   *)
(* data of a subscriber is the node's, allocated, and its own.             *)
THEOREM HandlesAreOwn == Spec => []HandleIsOwn
<1>1. MasterInv => HandleIsOwn
  BY DEF MasterInv, HandleIsOwn, CountInv, InsideInv
<1> QED
  BY MasterInvariant, <1>1, PTL

(* A subscriber gets the instance it asked for unless node_map was full.   *)
THEOREM SubscriberGetsItsInstance == Spec => []GetsWhatItAskedFor
<1>1. MasterInv => GetsWhatItAskedFor
  BY DEF MasterInv, GetsWhatItAskedFor, AskedInv
<1> QED
  BY MasterInvariant, <1>1, PTL
=============================================================================
