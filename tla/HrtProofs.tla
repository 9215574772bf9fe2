------------------------------ MODULE HrtProofs ------------------------------
(***************************************************************************)
(* The timer of Hrt, for any threads and entries and any constants that    *)
(* keep to TimerConstants.                                                 *)
(*                                                                         *)
(* In the build whose critical sections nest the time is kept because of a *)
(* cycle: a read of the time is right if it comes within a period of the   *)
(* one before, the compare value written after a right read is at most     *)
(* HRT_INTERVAL_MAX away, and the interrupt it causes reads the time       *)
(* again.  The compare register rests on the time and the list.  The list  *)
(* needs only that no deadline is 0, which holds in the default build too. *)
(***************************************************************************)
EXTENDS Hrt, SequenceTheorems, WellFoundedInduction, TLAPS

USE DEF hwVars, baseVars, listVars, threadVars, isrVars

-----------------------------------------------------------------------------
(* Facts about sequences, for the operators of FifoOps.                     *)

(* Leaving out the k-th element gives a sequence, one shorter. *)
LEMMA WithoutIsSeq ==
  ASSUME NEW S, NEW s \in Seq(S), NEW k \in 1..Len(s)
  PROVE  /\ Without(s, k) \in Seq(S)
         /\ Len(Without(s, k)) = Len(s) - 1
         /\ \A j \in 1..(Len(s) - 1) :
              Without(s, k)[j] = IF j < k THEN s[j] ELSE s[j + 1]
<1> DEFINE t == Without(s, k)
<1>1. Len(s) \in Nat /\ Len(s) >= 1
  OBVIOUS
<1>2. \A j \in 1..(Len(s) - 1) : t[j] = IF j < k THEN s[j] ELSE s[j + 1]
  BY DEF Without
<1>3. \A j \in 1..(Len(s) - 1) : t[j] \in S
  BY <1>1, <1>2
<1>4. t \in [1..(Len(s) - 1) -> S]
  BY <1>3 DEF Without
<1>5. t \in Seq(S) /\ Len(t) = Len(s) - 1
  BY <1>1, <1>4
<1> QED
  BY <1>2, <1>5

(* When no element occurs twice, dropping an element leaves out its place. *)
LEMMA DropAt ==
  ASSUME NEW S, NEW s \in Seq(S), NEW k \in 1..Len(s), Distinct(s)
  PROVE  Drop(s, s[k]) = Without(s, k)
<1>1. Has(s, s[k])
  BY DEF Has
<1>2. \A j \in 1..Len(s) : s[j] = s[k] => j = k
  BY DEF Distinct
<1>3. (CHOOSE j \in 1..Len(s) : s[j] = s[k]) = k
  BY <1>2
<1> QED
  BY <1>1, <1>3 DEF Drop

(* Dropping gives a sequence of elements of the old one. *)
LEMMA DropIsSeq ==
  ASSUME NEW S, NEW s \in Seq(S), NEW e
  PROVE  /\ Drop(s, e) \in Seq(S)
         /\ \A x : Has(Drop(s, e), x) => Has(s, x)
<1>1. CASE ~Has(s, e)
  BY <1>1 DEF Drop
<1>2. CASE Has(s, e)
  <2> DEFINE k == CHOOSE j \in 1..Len(s) : s[j] = e
  <2>1. k \in 1..Len(s)
    BY <1>2 DEF Has
  <2> HIDE DEF k
  <2>2. Drop(s, e) = Without(s, k)
    BY <1>2 DEF Drop, k
  <2>3. ASSUME NEW x, Has(Without(s, k), x) PROVE Has(s, x)
    <3>1. PICK j \in 1..(Len(s) - 1) : Without(s, k)[j] = x
      BY <2>1, <2>3, WithoutIsSeq DEF Has
    <3>2. j \in 1..Len(s) /\ j + 1 \in 1..Len(s)
      OBVIOUS
    <3>3. x = s[j] \/ x = s[j + 1]
      BY <2>1, <3>1, WithoutIsSeq
    <3> QED
      BY <3>2, <3>3 DEF Has
  <2> QED
    BY <2>1, <2>2, <2>3, WithoutIsSeq
<1> QED
  BY <1>1, <1>2

(* Dropping keeps the elements distinct and takes out the dropped one. *)
LEMMA DropDistinct ==
  ASSUME NEW S, NEW s \in Seq(S), NEW e, Distinct(s)
  PROVE  Distinct(Drop(s, e)) /\ ~Has(Drop(s, e), e)
<1>1. CASE ~Has(s, e)
  BY <1>1 DEF Drop
<1>2. CASE Has(s, e)
  <2>1. PICK k \in 1..Len(s) : s[k] = e
    BY <1>2 DEF Has
  <2>2. Drop(s, e) = Without(s, k)
    BY <2>1, DropAt
  <2> DEFINE t == Without(s, k)
  <2>3. /\ Len(t) = Len(s) - 1
        /\ \A j \in 1..(Len(s) - 1) : t[j] = IF j < k THEN s[j] ELSE s[j + 1]
    BY WithoutIsSeq
  <2> HIDE DEF t
  <2>4. ASSUME NEW j \in 1..Len(t)
        PROVE  /\ t[j] = s[IF j < k THEN j ELSE j + 1]
               /\ (IF j < k THEN j ELSE j + 1) \in 1..Len(s)
    BY <2>3
  <2>5. Distinct(t)
    BY <2>4 DEF Distinct
  <2>6. ~Has(t, e)
    BY <2>1, <2>4 DEF Distinct, Has
  <2> QED
    BY <2>2, <2>5, <2>6 DEF t
<1> QED
  BY <1>1, <1>2

(* Taking the first element leaves the others, distinct if they were. *)
LEMMA TailFacts ==
  ASSUME NEW S, NEW s \in Seq(S), s # <<>>
  PROVE  /\ Tail(s) \in Seq(S)
         /\ Head(s) \in S
         /\ \A x : Has(Tail(s), x) => Has(s, x)
         /\ Distinct(s) => Distinct(Tail(s)) /\ ~Has(Tail(s), Head(s))
<1>1. /\ Tail(s) \in Seq(S)
      /\ Len(s) \in Nat
      /\ Len(s) >= 1
      /\ Len(Tail(s)) = Len(s) - 1
      /\ \A j \in 1..Len(Tail(s)) : Tail(s)[j] = s[j + 1]
      /\ Head(s) = s[1]
  OBVIOUS
<1>2. ASSUME NEW x, Has(Tail(s), x) PROVE Has(s, x)
  <2>1. PICK j \in 1..Len(Tail(s)) : Tail(s)[j] = x
    BY <1>2 DEF Has
  <2>2. j + 1 \in 1..Len(s) /\ s[j + 1] = x
    BY <1>1, <2>1
  <2> QED
    BY <2>2 DEF Has
<1>3. ASSUME Distinct(s) PROVE Distinct(Tail(s)) /\ ~Has(Tail(s), Head(s))
  BY <1>1, <1>3 DEF Distinct, Has
<1> QED
  BY <1>1, <1>2, <1>3

-----------------------------------------------------------------------------
(* The inductive invariant.                                                *)

LastRead == base_time + last_count

\* The base is a whole number of periods.
Whole(b) == \E n \in Nat : b = Period * n

\* Somebody is in the critical section of hrt_call_internal, or has in it read
\* the time for a compare value that is not yet written.
InSection(p) == pc[p] \in {"read", "peek", "write"}
Rescheduling(p) == pc[p] \in {"peek", "write"}

\* The section excludes other threads and the handler; what is known of the
\* time between a reschedule's steps stays true.
SectionInv ==
  /\ \A p, r \in Threads : InSection(p) /\ InSection(r) => p = r
  /\ \A p \in Threads :
       /\ InSection(p) => isr = "off"
       /\ pc[p] = "enter" => entry[p] \in Entries /\ time[p] > 0
       /\ pc[p] = "peek" => time[p] = LastRead
       /\ pc[p] = "write" =>
            time[p] = NextCompare(callout_queue, deadline, LastRead)
       /\ Rescheduling(p) => clock <= LastRead + busy

\* The interrupt is not wanted and no compare value is being computed.
Calm == ~irq /\ isr = "off" /\ (\A p \in Threads : ~Rescheduling(p))

\* The last read was right and less than a period ago, and unless somebody is
\* at work the compare register matches in time for the next one.
TimeInv ==
  /\ clock >= 1
  /\ busy <= Late
  /\ Whole(base_time)
  /\ last_count < Period
  /\ LastRead <= clock
  /\ clock <= LastRead + IntervalMax + busy
  /\ Calm => NextMatch <= LastRead + IntervalMax

\* The entry whose callout runs is not queued, unless the callout has queued
\* it for a single call.
CalloutInv ==
  /\ isr \in {"callout", "after"} => call \in Entries
  /\ isr = "callout" => ~Has(callout_queue, call)
  /\ isr = "after" /\ period[call] # 0 => ~Has(callout_queue, call)

\* The interrupt is not wanted and nobody is at work.
Quiet == ~irq /\ isr = "off" /\ (\A p \in Threads : ~InSection(p))

\* ArmedForHead, whatever threads are about to enter.
HeadInv ==
  Quiet /\ callout_queue # <<>>
    => \/ NextMatch <= deadline[callout_queue[1]]
       \/ NextMatch <= clock + IntervalMin

\* What the list needs of the rest, in either build.
ArgumentInv ==
  /\ clock >= 1
  /\ \A p \in Threads : pc[p] = "enter" => entry[p] \in Entries /\ time[p] > 0

ListInv ==
  /\ TypeOK
  /\ ArgumentInv
  /\ QueueIsSorted
  /\ CalloutInv

\* Until the time is first read, it waits for the match at First, which comes
\* before the counter wraps.  A time of 0 would be read only after that.
StartInv ==
  /\ busy <= Late
  /\ LastRead = 0 =>
       /\ \A p \in Threads : ~Rescheduling(p)
       /\ isr \in {"off", "invoke"}
       /\ ccr = First
       /\ clock >= First => /\ irq \/ isr = "invoke"
                            /\ clock <= First + busy

HrtInv ==
  /\ TypeOK
  /\ SectionInv
  /\ TimeInv
  /\ QueueIsSorted
  /\ CalloutInv
  /\ HeadInv

-----------------------------------------------------------------------------
(* Arithmetic.                                                             *)

(* What the constants are. *)
LEMMA Constants ==
  /\ Period \in Nat \ {0} /\ IntervalMin \in Nat /\ IntervalMax \in Nat
  /\ First \in Nat /\ Late \in Nat
  /\ Late < IntervalMin /\ IntervalMin <= IntervalMax
  /\ 1 < First /\ First <= IntervalMax
  /\ IntervalMax + Late < Period
  /\ Delays \subseteq Nat /\ Intervals \subseteq Nat \ {0}
  /\ NULL \notin Entries
<1>1. /\ Period \in Nat /\ IntervalMin \in Nat /\ IntervalMax \in Nat
      /\ First \in Nat /\ Late \in Nat
  BY TimerConstants
<1> QED
  BY <1>1, TimerConstants

(* Division with remainder. *)
LEMMA Division ==
  ASSUME NEW a \in Int, NEW b \in Int, b > 0
  PROVE  a = b * (a \div b) + (a % b)
  BY SMTT(30)

(* A remainder is a number. *)
LEMMA Remainder ==
  ASSUME NEW a \in Int, NEW b \in Nat \ {0}
  PROVE  a % b \in Nat
  OBVIOUS

(* A sum of numbers is a number. *)
LEMMA Sum ==
  ASSUME NEW a \in Nat, NEW b \in Nat
  PROVE  a + b \in Nat
  OBVIOUS

(* Different multiples are at least one multiple apart. *)
LEMMA Multiples ==
  ASSUME NEW q \in Nat \ {0}, NEW j \in Int, NEW k \in Int, j < k
  PROVE  q * j + q <= q * k
  OBVIOUS

(* The remainder is the only number that a remainder can be. *)
LEMMA OneRemainder ==
  ASSUME NEW z \in Int, NEW q \in Nat \ {0}, NEW j \in Int, NEW r \in 0..(q - 1),
         z = q * j + r
  PROVE  z % q = r
<1> DEFINE d == z \div q
           m == z % q
<1>1. z = q * d + m
  BY Division
<1>2. d \in Int /\ m \in 0..(q - 1) /\ q * d \in Int /\ q * j \in Int
  OBVIOUS
<1> HIDE DEF d, m
<1>3. q * d + m = q * j + r
  BY <1>1
<1>4. CASE d < j
  BY <1>2, <1>3, <1>4, Multiples
<1>5. CASE j < d
  BY <1>2, <1>3, <1>5, Multiples
<1>6. CASE d = j
  BY <1>2, <1>3, <1>6
<1> QED
  BY <1>2, <1>4, <1>5, <1>6 DEF m

(* A read that comes less than a period after the last one is right. *)
LEMMA ReadIsRight ==
  ASSUME NEW P \in Nat \ {0}, NEW n \in Nat, NEW l \in Nat, NEW c \in Nat, l < P,
         P * n + l <= c, c < P * n + l + P
  PROVE  /\ P * n + (c % P) + (IF c % P < l THEN P ELSE 0) = c
         /\ c % P \in Nat /\ c % P < P
<1> DEFINE b == P * n
           y == c - b
<1>1. b \in Nat /\ y \in Nat /\ y >= l /\ y < l + P /\ c = b + y
  OBVIOUS
<1>2. n \in Int /\ n + 1 \in Int /\ P * (n + 1) = b + P
  OBVIOUS
<1> HIDE DEF y
<1>3. CASE y < P
  <2>1. y \in 0..(P - 1) /\ c = P * n + y
    BY <1>1, <1>3
  <2>2. c % P = y
    BY <1>2, <2>1, OneRemainder
  <2> HIDE DEF b
  <2>3. b + (c % P) + (IF c % P < l THEN P ELSE 0) = c
    BY <1>1, <1>3, <2>2
  <2> QED
    BY <1>1, <1>3, <2>2, <2>3 DEF b
<1>4. CASE y >= P
  <2>1. y - P \in 0..(P - 1) /\ c = P * (n + 1) + (y - P)
    BY <1>1, <1>2, <1>4
  <2>2. c % P = y - P
    BY <1>2, <2>1, OneRemainder
  <2> HIDE DEF b
  <2>3. b + (c % P) + (IF c % P < l THEN P ELSE 0) = c
    BY <1>1, <1>4, <2>2
  <2> QED
    BY <1>1, <1>4, <2>1, <2>2, <2>3 DEF b
<1> QED
  BY <1>1, <1>3, <1>4

(* A compare value less than a period ahead matches when it is meant to. *)
LEMMA MatchOf ==
  ASSUME NEW P \in Nat \ {0}, NEW c \in Nat, NEW x \in Nat, c < x, x <= c + P
  PROVE  c + 1 + (((x % P) - c - 1) % P) = x
<1> DEFINE r == x % P
           j == x \div P
<1>1. x = P * j + r /\ r \in Int /\ j \in Int
  BY Division
<1> HIDE DEF r, j
<1>2. r - c - 1 = P * (-j) + (x - c - 1) /\ -j \in Int /\ r - c - 1 \in Int
  BY <1>1
<1>3. x - c - 1 \in 0..(P - 1)
  OBVIOUS
<1>4. (r - c - 1) % P = x - c - 1
  BY <1>2, <1>3, OneRemainder
<1> QED
  BY <1>4 DEF r

(* A tick that does not match leaves the next match where it is. *)
LEMMA MatchStays ==
  ASSUME NEW P \in Nat \ {0}, NEW c \in Nat, NEW r \in 0..(P - 1), (c + 1) % P # r
  PROVE  (c + 1) + 1 + ((r - (c + 1) - 1) % P) = c + 1 + ((r - c - 1) % P)
<1> DEFINE z == r - c - 1
           m == z % P
           j == z \div P
<1>1. z = P * j + m /\ m \in 0..(P - 1) /\ j \in Int
  BY Division
<1> HIDE DEF m, j
<1>2. m # 0
  <2> SUFFICES ASSUME m = 0 PROVE FALSE
    OBVIOUS
  <2>1. c + 1 = P * (-j) + r /\ -j \in Int /\ c + 1 \in Int
    BY <1>1
  <2>2. (c + 1) % P = r
    BY <2>1, OneRemainder
  <2> QED
    BY <2>2
<1>3. r - (c + 1) - 1 = P * j + (m - 1) /\ m - 1 \in 0..(P - 1)
  BY <1>1, <1>2
<1>4. (r - (c + 1) - 1) % P = m - 1
  BY <1>1, <1>3, OneRemainder
<1> QED
  BY <1>1, <1>4 DEF m

-----------------------------------------------------------------------------
(* The callout list.                                                       *)

\* What QueueIsSorted says, of any list and any deadlines.
QueueOK(s, d) ==
  /\ Distinct(s)
  /\ \A k \in 1..Len(s) : d[s[k]] # 0
  /\ \A j, k \in 1..Len(s) : j < k => d[s[j]] <= d[s[k]]

(* A set of numbers has a least one. *)
LEMMA LeastNumber ==
  ASSUME NEW T \in SUBSET Nat, NEW m \in T
  PROVE  \E x \in T : \A y \in T : x <= y
<1> DEFINE R == {ss \in Nat \X Nat : ss[1] < ss[2]}
<1>1. IsWellFoundedOn(R, Nat)
  BY NatLessThanWellFounded DEF OpToRel
<1>2. PICK x \in T : \A y \in T : ~(<<y, x>> \in R)
  BY <1>1, WFMin
<1>3. ASSUME NEW y \in T PROVE x <= y
  <2>1. y \in Nat /\ x \in Nat
    OBVIOUS
  <2>2. ~(y < x)
    BY <1>2, <2>1
  <2> QED
    BY <2>1, <2>2
<1> QED
  BY <1>3

(* hrt_call_enter finds a place: all before it are due no later. *)
LEMMA PlaceFacts ==
  ASSUME NEW s \in Seq(Entries), NEW d \in [Entries -> Nat], NEW e \in Entries
  PROVE  /\ Place(s, d, e) \in 1..(Len(s) + 1)
         /\ Place(s, d, e) <= Len(s) => d[e] < d[s[Place(s, d, e)]]
         /\ \A j \in 1..(Place(s, d, e) - 1) : d[s[j]] <= d[e]
<1> DEFINE n == Len(s)
           T == {k \in 1..(n + 1) : k <= n => d[e] < d[s[k]]}
           Q(k) == /\ k <= Len(s) => d[e] < d[s[k]]
                   /\ \A j \in 1..(k - 1) : ~(d[e] < d[s[j]])
<1>1. n \in Nat
  OBVIOUS
<1>2. T \in SUBSET Nat /\ n + 1 \in T
  BY <1>1
<1>3. PICK k \in T : \A y \in T : k <= y
  BY <1>2, LeastNumber
<1>4. k \in 1..(n + 1) /\ Q(k)
  <2>1. ASSUME NEW j \in 1..(k - 1), d[e] < d[s[j]] PROVE FALSE
    <3>1. j \in T /\ j < k
      BY <1>1, <2>1
    <3> QED
      BY <1>3, <3>1
  <2> QED
    BY <2>1
<1>5. Place(s, d, e) \in 1..(n + 1) /\ Q(Place(s, d, e))
  BY <1>4 DEF Place
<1> HIDE DEF T
<1> DEFINE q == Place(s, d, e)
<1> HIDE DEF q
<1>6. q \in 1..(n + 1) /\ Q(q)
  BY <1>5 DEF q
<1>7. ASSUME NEW j \in 1..(q - 1) PROVE d[s[j]] <= d[e]
  <2>1. j \in 1..n
    BY <1>1, <1>6
  <2>2. d[s[j]] \in Nat /\ d[e] \in Nat
    BY <2>1
  <2> QED
    BY <1>6, <2>2
<1> QED
  BY <1>6, <1>7 DEF q

\* An insertion at position k.
InsertAt(s, k, e) == SubSeq(s, 1, k - 1) \o <<e>> \o SubSeq(s, k, Len(s))

(* An insertion, position by position. *)
LEMMA InsertForm ==
  ASSUME NEW S, NEW s \in Seq(S), NEW e \in S, NEW k \in 1..(Len(s) + 1)
  PROVE  /\ InsertAt(s, k, e) \in Seq(S)
         /\ Len(InsertAt(s, k, e)) = Len(s) + 1
         /\ \A j \in 1..(Len(s) + 1) :
              InsertAt(s, k, e)[j] =
                IF j < k THEN s[j] ELSE IF j = k THEN e ELSE s[j - 1]
<1> DEFINE n == Len(s)
           a == SubSeq(s, 1, k - 1)
           c == SubSeq(s, k, n)
           b == a \o <<e>>
           t == b \o c
<1>1. n \in Nat /\ k \in 1..(n + 1)
  OBVIOUS
<1>2. /\ a \in Seq(S) /\ Len(a) = k - 1
      /\ \A j \in 1..(k - 1) : a[j] = s[j]
  OBVIOUS
<1>3. /\ c \in Seq(S) /\ Len(c) = n + 1 - k
      /\ \A j \in 1..(n + 1 - k) : c[j] = s[k + j - 1]
  OBVIOUS
<1>4. InsertAt(s, k, e) = t
  BY DEF InsertAt
<1>5. <<e>> \in Seq(S) /\ Len(<<e>>) = 1 /\ <<e>>[1] = e
  OBVIOUS
<1> HIDE DEF a, c
<1>6. /\ b \in Seq(S) /\ Len(b) = k
      /\ \A j \in 1..k : b[j] = IF j < k THEN s[j] ELSE e
  BY <1>1, <1>2, <1>5
<1> HIDE DEF b
<1>7. /\ t \in Seq(S) /\ Len(t) = n + 1
      /\ \A j \in 1..(n + 1) :
           t[j] = IF j <= k THEN b[j] ELSE c[j - k]
  <2>1. /\ t \in Seq(S) /\ Len(t) = Len(b) + Len(c)
        /\ \A j \in 1..(Len(b) + Len(c)) :
             t[j] = IF j <= Len(b) THEN b[j] ELSE c[j - Len(b)]
    BY <1>3, <1>6, ConcatProperties
  <2>2. Len(b) = k /\ Len(b) + Len(c) = n + 1
    BY <1>1, <1>3, <1>6
  <2> HIDE DEF t
  <2> QED
    BY <2>1, <2>2
<1> HIDE DEF t
<1>8. ASSUME NEW j \in 1..(n + 1)
      PROVE  t[j] = IF j < k THEN s[j] ELSE IF j = k THEN e ELSE s[j - 1]
  <2>1. CASE j <= k
    BY <1>1, <1>6, <1>7, <2>1
  <2>2. CASE j > k
    <3>1. j - k \in 1..(n + 1 - k) /\ k + (j - k) - 1 = j - 1
      BY <1>1, <2>2
    <3>2. c[j - k] = s[j - 1]
      BY <1>3, <3>1
    <3> QED
      BY <1>1, <1>7, <2>2, <3>2
  <2> QED
    BY <1>1, <2>1, <2>2
<1> QED
  BY <1>7, <1>8, <1>4

(* Inserting an entry that is not queued. *)
LEMMA InsertOK ==
  ASSUME NEW s \in Seq(Entries), NEW d \in [Entries -> Nat], NEW e \in Entries,
         QueueOK(s, d), ~Has(s, e), d[e] # 0
  PROVE  /\ Insert(s, d, e) \in Seq(Entries)
         /\ Insert(s, d, e) # <<>>
         /\ QueueOK(Insert(s, d, e), d)
         /\ \A x : Has(Insert(s, d, e), x) => Has(s, x) \/ x = e
         /\ Insert(s, d, e)[1] # e => s # <<>> /\ Insert(s, d, e)[1] = s[1]
<1> DEFINE k == Place(s, d, e)
           t == Insert(s, d, e)
           n == Len(s)
           From(j) == IF j < k THEN j ELSE j - 1
<1>1. /\ n \in Nat
      /\ k \in 1..(n + 1)
      /\ k <= n => d[e] < d[s[k]]
      /\ \A j \in 1..(k - 1) : d[s[j]] <= d[e]
  BY PlaceFacts
<1>2. /\ t \in Seq(Entries)
      /\ Len(t) = n + 1
      /\ \A j \in 1..(n + 1) :
           t[j] = IF j < k THEN s[j] ELSE IF j = k THEN e ELSE s[j - 1]
  <2>1. t = InsertAt(s, k, e)
    BY DEF Insert, InsertAt
  <2> HIDE DEF t, k
  <2>2. k \in 1..(Len(s) + 1)
    BY <1>1
  <2>3. /\ InsertAt(s, k, e) \in Seq(Entries)
        /\ Len(InsertAt(s, k, e)) = Len(s) + 1
        /\ \A j \in 1..(Len(s) + 1) :
             InsertAt(s, k, e)[j] =
               IF j < k THEN s[j] ELSE IF j = k THEN e ELSE s[j - 1]
    BY <2>2, InsertForm
  <2> QED
    BY <2>1, <2>3
<1> HIDE DEF t, k
<1>3. ASSUME NEW j \in 1..Len(t)
      PROVE  /\ j = k => t[j] = e
             /\ j # k => From(j) \in 1..n /\ t[j] = s[From(j)]
  BY <1>1, <1>2
<1>4. \A j \in 1..n : s[j] \in Entries /\ s[j] # e /\ d[s[j]] # 0
  BY DEF Has, QueueOK
<1>5. Distinct(t)
  <2> SUFFICES ASSUME NEW i \in 1..Len(t), NEW j \in 1..Len(t), t[i] = t[j]
               PROVE  i = j
    BY DEF Distinct
  <2>1. CASE i = k \/ j = k
    BY <1>3, <1>4, <2>1
  <2>2. CASE i # k /\ j # k
    <3>1. /\ From(i) \in 1..n /\ From(j) \in 1..n
          /\ s[From(i)] = s[From(j)]
      BY <1>3, <2>2
    <3>2. From(i) = From(j)
      <4> HIDE DEF From
      <4> QED
        BY <3>1 DEF QueueOK, Distinct
    <3> QED
      BY <1>1, <1>2, <2>2, <3>2
  <2> QED
    BY <2>1, <2>2
<1>6. ASSUME NEW j \in 1..Len(t) PROVE d[t[j]] # 0
  BY <1>3, <1>4
<1>7. ASSUME NEW i \in 1..n PROVE i >= k => d[e] < d[s[i]]
  <2>1. /\ k \in 1..n /\ i >= k => d[s[k]] <= d[s[i]]
    <3>1. CASE i > k
      BY <1>1, <3>1 DEF QueueOK
    <3>2. CASE i = k
      BY <1>1, <1>4, <3>2
    <3> QED
      BY <1>1, <3>1, <3>2
  <2>2. d[s[i]] \in Nat /\ d[e] \in Nat
    BY <1>4
  <2> SUFFICES ASSUME i >= k PROVE d[e] < d[s[i]]
    OBVIOUS
  <2>3. k \in 1..n
    BY <1>1
  <2>4. d[s[k]] \in Nat
    BY <1>4, <2>3
  <2> QED
    BY <1>1, <2>1, <2>2, <2>3, <2>4
<1>8. ASSUME NEW i \in 1..Len(t), NEW j \in 1..Len(t), i < j
      PROVE  d[t[i]] <= d[t[j]]
  <2>1. CASE i = k
    <3>1. From(j) \in 1..n /\ From(j) >= k /\ t[j] = s[From(j)] /\ t[i] = e
      BY <1>1, <1>2, <1>3, <1>8, <2>1
    <3>2. d[e] < d[s[From(j)]] /\ d[s[From(j)]] \in Nat /\ d[e] \in Nat
      BY <1>4, <1>7, <3>1
    <3> QED
      BY <3>1, <3>2
  <2>2. CASE j = k
    <3>1. From(i) = i /\ i \in 1..(k - 1) /\ t[i] = s[i] /\ t[j] = e
      BY <1>1, <1>2, <1>3, <1>8, <2>2
    <3> QED
      BY <1>1, <3>1
  <2>3. CASE i # k /\ j # k
    <3>1. /\ From(i) \in 1..n /\ From(j) \in 1..n /\ From(i) < From(j)
          /\ t[i] = s[From(i)] /\ t[j] = s[From(j)]
      BY <1>1, <1>2, <1>3, <1>8, <2>3
    <3> HIDE DEF From
    <3> QED
      BY <3>1 DEF QueueOK
  <2> QED
    BY <2>1, <2>2, <2>3
<1>9. ASSUME NEW x, Has(t, x) PROVE Has(s, x) \/ x = e
  <2>1. PICK j \in 1..Len(t) : t[j] = x
    BY <1>9 DEF Has
  <2> QED
    BY <1>3, <2>1 DEF Has
<1>10. t[1] # e => s # <<>> /\ t[1] = s[1]
  <2> SUFFICES ASSUME t[1] # e PROVE s # <<>> /\ t[1] = s[1]
    OBVIOUS
  <2>1. 1 \in 1..Len(t) /\ k # 1
    BY <1>1, <1>2, <1>3
  <2> QED
    BY <1>1, <1>3, <2>1
<1>11. t # <<>>
  BY <1>1, <1>2
<1> QED
  BY <1>2, <1>5, <1>6, <1>8, <1>9, <1>10, <1>11 DEF QueueOK, t

(* Taking an entry out: the first deadline gets no earlier. *)
LEMMA DropOK ==
  ASSUME NEW s \in Seq(Entries), NEW d \in [Entries -> Nat], NEW e,
         QueueOK(s, d)
  PROVE  /\ Drop(s, e) \in Seq(Entries)
         /\ ~Has(Drop(s, e), e)
         /\ \A x : Has(Drop(s, e), x) => Has(s, x)
         /\ QueueOK(Drop(s, e), d)
         /\ Drop(s, e) # <<>> => s # <<>> /\ d[s[1]] <= d[Drop(s, e)[1]]
<1>1. /\ Drop(s, e) \in Seq(Entries)
      /\ \A x : Has(Drop(s, e), x) => Has(s, x)
  BY DropIsSeq
<1>2. Distinct(Drop(s, e)) /\ ~Has(Drop(s, e), e)
  BY DropDistinct DEF QueueOK
<1>3. \A j \in 1..Len(s) : s[j] \in Entries /\ d[s[j]] \in Nat
  OBVIOUS
<1>4. CASE ~Has(s, e)
  <2>1. Drop(s, e) = s
    BY <1>4 DEF Drop
  <2>2. s # <<>> => 1 \in 1..Len(s)
    OBVIOUS
  <2> QED
    BY <1>1, <1>2, <1>3, <2>1, <2>2
<1>5. CASE Has(s, e)
  <2>1. PICK k \in 1..Len(s) : s[k] = e
    BY <1>5 DEF Has
  <2> DEFINE t == Without(s, k)
             From(j) == IF j < k THEN j ELSE j + 1
  <2>2. Drop(s, e) = t
    BY <2>1, DropAt DEF QueueOK
  <2>3. /\ t \in Seq(Entries)
        /\ Len(t) = Len(s) - 1
        /\ \A j \in 1..(Len(s) - 1) : t[j] = IF j < k THEN s[j] ELSE s[j + 1]
    BY WithoutIsSeq
  <2> HIDE DEF t
  <2>4. ASSUME NEW j \in 1..Len(t)
        PROVE  From(j) \in 1..Len(s) /\ t[j] = s[From(j)]
    <3>1. j \in 1..(Len(s) - 1) /\ Len(s) \in Nat
      BY <2>3
    <3>2. t[j] = IF j < k THEN s[j] ELSE s[j + 1]
      BY <2>3, <3>1
    <3>3. CASE j < k
      BY <3>1, <3>2, <3>3
    <3>4. CASE ~(j < k)
      BY <3>1, <3>2, <3>4
    <3> QED
      BY <3>3, <3>4
  <2>5. ASSUME NEW i \in 1..Len(t), NEW j \in 1..Len(t), i < j
        PROVE  From(i) < From(j)
    BY <2>3, <2>5
  <2> HIDE DEF From
  <2>6. \A j \in 1..Len(t) : d[t[j]] # 0
    BY <2>4 DEF QueueOK
  <2>7. \A i, j \in 1..Len(t) : i < j => d[t[i]] <= d[t[j]]
    BY <2>4, <2>5 DEF QueueOK
  <2>8. ASSUME t # <<>> PROVE s # <<>> /\ d[s[1]] <= d[t[1]]
    <3>1. 1 \in 1..Len(t) /\ 1 \in 1..Len(s)
      BY <2>3, <2>8
    <3>2. From(1) \in 1..Len(s) /\ t[1] = s[From(1)]
      BY <2>4, <3>1
    <3>3. CASE From(1) = 1
      BY <1>3, <3>1, <3>2, <3>3
    <3>4. CASE From(1) # 1
      BY <3>1, <3>2, <3>4 DEF QueueOK
    <3> QED
      BY <3>1, <3>3, <3>4
  <2> QED
    BY <1>1, <1>2, <2>2, <2>6, <2>7, <2>8 DEF QueueOK
<1> QED
  BY <1>4, <1>5

(* Taking the first entry. *)
LEMMA TailOK ==
  ASSUME NEW s \in Seq(Entries), NEW d \in [Entries -> Nat], QueueOK(s, d),
         s # <<>>
  PROVE  /\ Tail(s) \in Seq(Entries) /\ Head(s) \in Entries
         /\ ~Has(Tail(s), Head(s))
         /\ QueueOK(Tail(s), d)
<1>1. /\ Tail(s) \in Seq(Entries) /\ Head(s) \in Entries
      /\ ~Has(Tail(s), Head(s)) /\ Distinct(Tail(s))
  BY TailFacts DEF QueueOK
<1>2. /\ Len(s) \in Nat
      /\ Len(Tail(s)) = Len(s) - 1
      /\ \A j \in 1..Len(Tail(s)) : Tail(s)[j] = s[j + 1]
  OBVIOUS
<1>3. \A j \in 1..Len(Tail(s)) : j + 1 \in 1..Len(s)
  BY <1>2
<1>4. \A j \in 1..Len(Tail(s)) : d[Tail(s)[j]] # 0
  BY <1>2, <1>3 DEF QueueOK
<1>5. \A i, j \in 1..Len(Tail(s)) : i < j => i + 1 < j + 1
  BY <1>2
<1>6. \A i, j \in 1..Len(Tail(s)) : i < j => d[Tail(s)[i]] <= d[Tail(s)[j]]
  BY <1>2, <1>3, <1>5 DEF QueueOK
<1> QED
  BY <1>1, <1>4, <1>6 DEF QueueOK

(* A deadline of an entry that is not queued may change. *)
LEMMA ChangeOK ==
  ASSUME NEW s \in Seq(Entries), NEW d \in [Entries -> Nat], NEW e \in Entries,
         NEW v \in Nat, QueueOK(s, d), ~Has(s, e)
  PROVE  /\ [d EXCEPT ![e] = v] \in [Entries -> Nat]
         /\ QueueOK(s, [d EXCEPT ![e] = v])
         /\ \A k \in 1..Len(s) : [d EXCEPT ![e] = v][s[k]] = d[s[k]]
<1>1. \A k \in 1..Len(s) : s[k] \in Entries /\ s[k] # e
  BY DEF Has
<1>2. \A k \in 1..Len(s) : [d EXCEPT ![e] = v][s[k]] = d[s[k]]
  BY <1>1
<1> DEFINE f == [d EXCEPT ![e] = v]
<1>3. f \in [Entries -> Nat]
  OBVIOUS
<1> HIDE DEF f
<1>4. \A k \in 1..Len(s) : f[s[k]] = d[s[k]]
  BY <1>2 DEF f
<1>5. QueueOK(s, f)
  BY <1>4 DEF QueueOK
<1> QED
  BY <1>2, <1>3, <1>5 DEF f

-----------------------------------------------------------------------------
(* Reading the time and writing the compare register.                      *)

(* The numbers are numbers. *)
LEMMA NumberFacts ==
  ASSUME TypeOK
  PROVE  /\ clock \in Nat /\ busy \in Nat /\ base_time \in Nat
         /\ last_count \in Nat /\ now \in Nat /\ saved \in Nat
         /\ ccr \in 0..(Period - 1) /\ LastRead \in Nat
<1>1. /\ clock \in Nat /\ busy \in Nat /\ base_time \in Nat
      /\ last_count \in Nat /\ now \in Nat /\ saved \in Nat
      /\ ccr \in 0..(Period - 1)
  BY DEF TypeOK
<1> QED
  BY <1>1 DEF LastRead

(* The invariant makes every read of the time right, also the next one. *)
LEMMA ReadFacts ==
  ASSUME TypeOK, TimeInv
  PROVE  /\ AbsoluteTime = clock
         /\ ReadTime => /\ base_time' \in Nat /\ last_count' \in Nat
                        /\ last_count' < Period
                        /\ Whole(base_time')
                        /\ LastRead' = clock
<1> DEFINE c == clock % Period
<1>1. /\ clock \in Nat /\ busy \in Nat /\ base_time \in Nat /\ last_count \in Nat
      /\ Period \in Nat \ {0} /\ last_count < Period
      /\ base_time + last_count <= clock
      /\ clock < base_time + last_count + Period
  BY NumberFacts, Constants DEF TimeInv, LastRead
<1>2. PICK n \in Nat : base_time = Period * n
  BY DEF TimeInv, Whole
<1>3. /\ Period * n + c + (IF c < last_count THEN Period ELSE 0) = clock
      /\ c \in Nat /\ c < Period
  BY <1>1, <1>2, ReadIsRight
<1>4. Count = c
  BY DEF Count
<1> HIDE DEF c
<1>5. base_time + c + (IF c < last_count THEN Period ELSE 0) = clock
  BY <1>2, <1>3
<1>6. AbsoluteTime = clock
  BY <1>4, <1>5 DEF AbsoluteTime, Wrapped
<1>7. ASSUME ReadTime
      PROVE  /\ base_time' \in Nat /\ last_count' \in Nat
             /\ last_count' < Period
             /\ Whole(base_time')
             /\ LastRead' = clock
  <2>1. /\ base_time' = base_time + (IF c < last_count THEN Period ELSE 0)
        /\ last_count' = c
    BY <1>4, <1>7 DEF ReadTime, Wrapped
  <2>2. Whole(base_time')
    <3>1. Period * (n + 1) = Period * n + Period /\ n + 1 \in Nat
      BY <1>1
    <3>2. base_time' = Period * n \/ base_time' = Period * (n + 1)
      BY <1>1, <1>2, <2>1, <3>1
    <3> QED
      BY <3>1, <3>2 DEF Whole
  <2>3. base_time' \in Nat
    BY <1>1, <2>1
  <2>4. base_time' + last_count' = clock
    BY <1>1, <1>3, <1>5, <2>1
  <2> QED
    BY <1>3, <2>1, <2>2, <2>3, <2>4 DEF LastRead
<1> QED
  BY <1>6, <1>7

(* A read of the time gives a number, right or not. *)
LEMMA ReadTypes ==
  ASSUME TypeOK
  PROVE  /\ AbsoluteTime \in Nat
         /\ ReadTime => /\ base_time' \in Nat /\ last_count' \in Nat
                        /\ LastRead' = AbsoluteTime
<1> DEFINE c == Count
           w == IF Wrapped THEN Period ELSE 0
<1>1. base_time \in Nat /\ last_count \in Nat /\ c \in Nat /\ w \in Nat
  BY NumberFacts, Constants, Remainder DEF Count
<1>2. /\ AbsoluteTime = base_time + c + w
      /\ ReadTime => base_time' = base_time + w /\ last_count' = c
  BY DEF AbsoluteTime, ReadTime
<1> HIDE DEF c, w
<1>3. base_time + w + c = base_time + c + w
  BY <1>1
<1> QED
  BY <1>1, <1>2, <1>3 DEF LastRead

(* hrt_call_reschedule stays within its limits and in time for the head. *)
LEMMA CompareFacts ==
  ASSUME NEW s \in Seq(Entries), NEW d \in [Entries -> Nat], NEW t \in Nat
  PROVE  /\ NextCompare(s, d, t) \in Nat
         /\ t + IntervalMin <= NextCompare(s, d, t)
         /\ NextCompare(s, d, t) <= t + IntervalMax
         /\ s # <<>> => \/ NextCompare(s, d, t) <= d[s[1]]
                        \/ NextCompare(s, d, t) <= t + IntervalMin
<1>1. IntervalMin \in Nat /\ IntervalMax \in Nat /\ IntervalMin <= IntervalMax
  BY Constants
<1>2. CASE s = <<>>
  BY <1>1, <1>2 DEF NextCompare
<1>3. CASE s # <<>>
  <2>1. s[1] \in Entries
    BY <1>3
  <2>2. d[s[1]] \in Nat
    BY <2>1
  <2> QED
    BY <1>1, <1>3, <2>2 DEF NextCompare
<1> QED
  BY <1>2, <1>3

(* The register matches at the value that was written. *)
LEMMA WrittenMatches ==
  ASSUME TypeOK, UNCHANGED clock, NEW x \in Nat, ccr' = x % Period,
         clock < x, x <= clock + IntervalMax
  PROVE  NextMatch' = x /\ ccr' \in 0..(Period - 1)
<1>1. /\ clock \in Nat /\ Period \in Nat \ {0} /\ IntervalMax \in Nat
      /\ IntervalMax < Period
  BY NumberFacts, Constants
<1>2. x <= clock + Period
  BY <1>1
<1>3. clock + 1 + (((x % Period) - clock - 1) % Period) = x
  BY <1>1, <1>2, MatchOf
<1>4. x % Period \in 0..(Period - 1)
  BY <1>1
<1> QED
  BY <1>3, <1>4 DEF NextMatch

(* Nothing matches before the next microsecond. *)
LEMMA MatchIsAhead ==
  ASSUME TypeOK
  PROVE  NextMatch \in Nat /\ clock < NextMatch
<1>1. clock \in Nat /\ ccr \in Nat /\ Period \in Nat \ {0}
  BY NumberFacts, Constants
<1>2. (ccr - clock - 1) % Period \in Nat
  BY <1>1
<1> QED
  BY <1>1, <1>2 DEF NextMatch

(* A tick that raises no flag leaves the match where it was. *)
LEMMA TickMatch ==
  ASSUME TypeOK, Tick, ~irq'
  PROVE  NextMatch' = NextMatch
<1>1. /\ clock \in Nat /\ ccr \in 0..(Period - 1) /\ Period \in Nat \ {0}
      /\ clock' = clock + 1 /\ ccr' = ccr /\ (clock + 1) % Period # ccr
  BY NumberFacts, Constants DEF Tick
<1>2. (clock + 1) + 1 + ((ccr - (clock + 1) - 1) % Period)
        = clock + 1 + ((ccr - clock - 1) % Period)
  BY <1>1, MatchStays
<1> QED
  BY <1>1, <1>2 DEF NextMatch

(* In this build the mask is exactly the critical section. *)
LEMMA MaskFacts ==
  ASSUME Nested
  PROVE  /\ Masked <=> \E p \in Threads : InSection(p)
         /\ \A p : Runs(p, "idle") \/ Runs(p, "enter")
                     => \A r \in Threads : ~InSection(r)
<1>1. MaskedAt = {"read", "peek", "write"}
  BY DEF MaskedAt
<1>2. Masked <=> \E p \in Threads : InSection(p)
  BY <1>1 DEF Masked, InSection
<1> QED
  BY <1>1, <1>2 DEF Runs

(* The invariant of the build with PRIMASK control gives that of both. *)
LEMMA HrtList == HrtInv => ListInv
  BY DEF HrtInv, ListInv, ArgumentInv, SectionInv, TimeInv

-----------------------------------------------------------------------------
(* The types.                                                              *)

(* A thread's call to hrt_call_internal has its arguments. *)
LEMMA CallTypes ==
  ASSUME TypeOK, NEW p \in Threads, NEW e \in Entries, NEW t \in Nat,
         NEW i \in Nat, CallInternal(p, e, t, i),
         base_time' \in Nat, last_count' \in Nat
  PROVE  TypeOK'
  BY DEF CallInternal, TypeOK

(* An insertion by the handler changes the list, the time and the register. *)
LEMMA EnterTypes ==
  ASSUME TypeOK, NEW s \in Seq(Entries), NEW d \in [Entries -> Nat],
         NEW e \in Entries, QueueOK(s, d), ~Has(s, e), d[e] # 0, Enter(s, d, e)
  PROVE  /\ callout_queue' = Insert(s, d, e)
         /\ callout_queue' \in Seq(Entries)
         /\ base_time' \in Nat /\ last_count' \in Nat
         /\ ccr' \in 0..(Period - 1)
         /\ UNCHANGED baseVars \/ ReadTime
<1>1. callout_queue' = Insert(s, d, e) /\ callout_queue' \in Seq(Entries)
  BY InsertOK DEF Enter
<1>2. CASE UNCHANGED <<baseVars, ccr>>
  BY <1>1, <1>2, NumberFacts
<1>3. CASE /\ ReadTime
           /\ ccr' = NextCompare(callout_queue', d, AbsoluteTime) % Period
  <2>1. AbsoluteTime \in Nat /\ base_time' \in Nat /\ last_count' \in Nat
    BY <1>3, ReadTypes
  <2>2. NextCompare(callout_queue', d, AbsoluteTime) \in Nat
    BY <1>1, <2>1, CompareFacts
  <2>3. ccr' \in 0..(Period - 1)
    BY <1>3, <2>2, Constants
  <2> QED
    BY <1>1, <1>3, <2>1, <2>3
<1> QED
  BY <1>1, <1>2, <1>3 DEF Enter

(* hrt_call_internal leaves no entry queued that it is going to insert. *)
LEMMA UnqueuedOK ==
  ASSUME TypeOK, QueueIsSorted, NEW e \in Entries, NEW v \in Nat \ {0}
  PROVE  LET d == [deadline EXCEPT ![e] = v] IN
         /\ d \in [Entries -> Nat] /\ d[e] = v
         /\ Unqueued(e) \in Seq(Entries)
         /\ ~Has(Unqueued(e), e)
         /\ \A x : Has(Unqueued(e), x) => Has(callout_queue, x)
         /\ QueueOK(Unqueued(e), d)
         /\ Unqueued(e) # <<>> =>
              /\ callout_queue # <<>>
              /\ deadline[callout_queue[1]] <= d[Unqueued(e)[1]]
<1> DEFINE d == [deadline EXCEPT ![e] = v]
           s == Unqueued(e)
<1>1. /\ callout_queue \in Seq(Entries) /\ deadline \in [Entries -> Nat]
      /\ QueueOK(callout_queue, deadline)
  BY DEF TypeOK, QueueIsSorted, QueueOK
<1>2. /\ s \in Seq(Entries) /\ ~Has(s, e)
      /\ \A x : Has(s, x) => Has(callout_queue, x)
      /\ QueueOK(s, deadline)
      /\ s # <<>> => /\ callout_queue # <<>>
                     /\ deadline[callout_queue[1]] <= deadline[s[1]]
  <2>1. CASE deadline[e] # 0
    BY <1>1, <2>1, DropOK DEF Unqueued
  <2>2. CASE deadline[e] = 0
    <3>1. s = callout_queue
      BY <2>2 DEF Unqueued
    <3>2. ~Has(callout_queue, e)
      BY <1>1, <2>2 DEF QueueOK, Has
    <3>3. callout_queue # <<>> => callout_queue[1] \in Entries
      BY <1>1
    <3>4. callout_queue # <<>> => deadline[callout_queue[1]] \in Nat
      BY <1>1, <3>3
    <3> QED
      BY <1>1, <3>1, <3>2, <3>4
  <2> QED
    BY <2>1, <2>2
<1> HIDE DEF s
<1>3. /\ d \in [Entries -> Nat] /\ QueueOK(s, d)
      /\ \A k \in 1..Len(s) : d[s[k]] = deadline[s[k]]
  <2>1. v \in Nat
    OBVIOUS
  <2>2. d \in [Entries -> Nat] /\ QueueOK(s, d)
    BY <1>1, <1>2, <2>1, ChangeOK
  <2>3. ASSUME NEW k \in 1..Len(s) PROVE d[s[k]] = deadline[s[k]]
    <3>1. s[k] \in Entries /\ s[k] # e
      BY <1>2 DEF Has
    <3> QED
      BY <1>1, <3>1
  <2> QED
    BY <2>2, <2>3
<1>4. s # <<>> => 1 \in 1..Len(s)
  BY <1>2
<1>5. d[e] = v
  BY <1>1
<1> HIDE DEF d
<1> QED
  BY <1>2, <1>3, <1>4, <1>5 DEF s, d

(* The entry of a callout, while it runs. *)
LEMMA CalloutFacts ==
  ASSUME TypeOK, CalloutInv, isr \in {"callout", "after"}
  PROVE  call \in Entries /\ period[call] \in Nat /\ deadline[call] \in Nat
  BY DEF TypeOK, CalloutInv

(* The deadline at which a periodic entry is entered again. *)
LEMMA AgainFacts ==
  ASSUME TypeOK, CalloutInv, QueueIsSorted, Reenter, period[call] # 0
  PROVE  LET d == [deadline EXCEPT ![call] =
                     IF @ <= now THEN saved + period[call] ELSE @] IN
         /\ d \in [Entries -> Nat] /\ d[call] # 0
         /\ QueueOK(callout_queue, d)
         /\ ~Has(callout_queue, call)
         /\ deadline' = d /\ Enter(callout_queue, d, call)
<1> DEFINE v == IF deadline[call] <= now THEN saved + period[call]
                ELSE deadline[call]
           d == [deadline EXCEPT ![call] = v]
<1>1. isr = "after" /\ deadline' = d /\ Enter(callout_queue, d, call)
  BY DEF Reenter
<1>2. /\ call \in Entries /\ period[call] \in Nat /\ deadline[call] \in Nat
      /\ now \in Nat /\ saved \in Nat
  BY <1>1, CalloutFacts, NumberFacts
<1>3. v \in Nat \ {0}
  BY <1>2
<1> HIDE DEF v
<1>4. /\ ~Has(callout_queue, call)
      /\ callout_queue \in Seq(Entries) /\ deadline \in [Entries -> Nat]
      /\ QueueOK(callout_queue, deadline)
  BY <1>1 DEF CalloutInv, TypeOK, QueueIsSorted, QueueOK
<1>5. d \in [Entries -> Nat] /\ QueueOK(callout_queue, d) /\ d[call] # 0
  BY <1>2, <1>3, <1>4, ChangeOK
<1> QED
  BY <1>1, <1>4, <1>5 DEF v

(* Every step keeps the types. *)
LEMMA TypeStep ==
  ASSUME ListInv, Next
  PROVE  TypeOK'
<1> USE DEF ListInv
<1>0. /\ ReadTime => base_time' \in Nat /\ last_count' \in Nat
      /\ UNCHANGED baseVars => base_time' \in Nat /\ last_count' \in Nat
      /\ AbsoluteTime \in Nat /\ clock \in Nat /\ clock >= 1
  BY ReadTypes, NumberFacts DEF ArgumentInv
<1>1. CASE Tick
  <2>1. clock' \in Nat /\ busy' \in Nat
    BY <1>1, NumberFacts DEF Tick
  <2>2. irq' \in BOOLEAN
    BY <1>1 DEF Tick
  <2> QED
    BY <1>1, <2>1, <2>2 DEF Tick, TypeOK
<1>2. CASE Settle
  BY <1>2 DEF Settle, TypeOK
<1>3. ASSUME NEW p \in Threads, hrt_absolute_time(p) PROVE TypeOK'
  BY <1>0, <1>3 DEF hrt_absolute_time, TypeOK
<1>4. ASSUME NEW p \in Threads, NEW e \in Entries, NEW delay \in Delays,
             hrt_call_after(p, e, delay)
      PROVE  TypeOK'
  <2>1. /\ AbsoluteTime + delay \in Nat
        /\ CallInternal(p, e, AbsoluteTime + delay, 0)
    BY <1>0, <1>4, Constants DEF hrt_call_after, hrt_call_every
  <2> QED
    BY <1>0, <1>4, <2>1, CallTypes DEF hrt_call_after, hrt_call_every
<1>5. ASSUME NEW p \in Threads, NEW e \in Entries, NEW delay \in Delays,
             hrt_call_at(p, e, clock + delay)
      PROVE  TypeOK'
  <2>1. clock + delay \in Nat
    BY <1>0, Constants
  <2> QED
    BY <1>0, <1>5, <2>1, CallTypes DEF hrt_call_at
<1>6. ASSUME NEW p \in Threads, NEW e \in Entries, NEW delay \in Delays,
             NEW i \in Intervals, hrt_call_every(p, e, delay, i)
      PROVE  TypeOK'
  <2>1. AbsoluteTime + delay \in Nat /\ i \in Nat
    BY <1>0, Constants
  <2>2. CallInternal(p, e, AbsoluteTime + delay, i)
    BY <1>0, <1>6 DEF hrt_call_every
  <2> QED
    BY <1>0, <1>6, <2>1, <2>2, CallTypes DEF hrt_call_every
<1>7. ASSUME NEW p \in Threads, hrt_call_internal(p) PROVE TypeOK'
  <2> DEFINE e == entry[p]
             d == [deadline EXCEPT ![e] = time[p]]
  <2>1. e \in Entries /\ time[p] \in Nat \ {0}
    BY <1>7 DEF hrt_call_internal, Runs, ArgumentInv, TypeOK
  <2>2. /\ d \in [Entries -> Nat] /\ d[e] # 0
        /\ Unqueued(e) \in Seq(Entries) /\ ~Has(Unqueued(e), e)
        /\ QueueOK(Unqueued(e), d)
    BY <2>1, UnqueuedOK
  <2>3. Insert(Unqueued(e), d, e) \in Seq(Entries)
    BY <2>1, <2>2, InsertOK
  <2>4. callout_queue' \in Seq(Entries) /\ deadline' \in [Entries -> Nat]
    BY <1>7, <2>2, <2>3 DEF hrt_call_internal
  <2> QED
    BY <1>7, <2>1, <2>4 DEF hrt_call_internal, TypeOK
<1>8. ASSUME NEW p \in Threads, RescheduleRead(p) PROVE TypeOK'
  BY <1>0, <1>8 DEF RescheduleRead, TypeOK
<1>9. ASSUME NEW p \in Threads, ReschedulePeek(p) PROVE TypeOK'
  <2>1. NextCompare(callout_queue, deadline, time[p]) \in Nat
    BY CompareFacts DEF TypeOK
  <2> QED
    BY <1>9, <2>1 DEF ReschedulePeek, TypeOK
<1>10. ASSUME NEW p \in Threads, RescheduleWrite(p) PROVE TypeOK'
  <2>1. ccr' \in 0..(Period - 1)
    <3>1. time[p] \in Nat
      BY DEF TypeOK
    <3> QED
      BY <1>10, <3>1, Constants DEF RescheduleWrite
  <2> QED
    BY <1>10, <2>1 DEF RescheduleWrite, RescheduleDone, TypeOK
<1>11. ASSUME NEW p \in Threads, NEW e \in Entries, hrt_cancel(p, e)
       PROVE  TypeOK'
  BY <1>11, DropIsSeq DEF hrt_cancel, TypeOK
<1>12. CASE hrt_tim_isr
  BY <1>12 DEF hrt_tim_isr, TypeOK
<1>13. CASE hrt_call_invoke
  <2>1. callout_queue # <<>> =>
          /\ Head(callout_queue) \in Entries
          /\ Tail(callout_queue) \in Seq(Entries)
    BY TailFacts DEF TypeOK
  <2>2. callout_queue # <<>> => deadline[Head(callout_queue)] \in Nat
    BY <2>1 DEF TypeOK
  <2>3. CASE /\ isr' = "reschedule"
             /\ UNCHANGED <<listVars, call, now, saved>>
    BY <1>0, <1>13, <2>3 DEF hrt_call_invoke, TypeOK
  <2>4. CASE /\ isr' = "callout" /\ callout_queue # <<>>
             /\ call' = Head(callout_queue)
             /\ now' = AbsoluteTime
             /\ saved' = deadline[Head(callout_queue)]
             /\ callout_queue' = Tail(callout_queue)
             /\ deadline' = [deadline EXCEPT ![Head(callout_queue)] = 0]
             /\ UNCHANGED period
    BY <1>0, <1>13, <2>1, <2>2, <2>4 DEF hrt_call_invoke, TypeOK
  <2> QED
    BY <1>13, <2>3, <2>4 DEF hrt_call_invoke
<1>14. CASE CalloutReturns
  BY <1>14 DEF CalloutReturns, TypeOK
<1>15. ASSUME NEW e \in Entries, CalloutCancels(e) PROVE TypeOK'
  BY <1>15, DropIsSeq DEF CalloutCancels, TypeOK
<1>16. ASSUME NEW delay \in Delays, hrt_call_delay(delay) PROVE TypeOK'
  <2>1. AbsoluteTime + delay \in Nat
    BY <1>0, Constants
  <2> QED
    BY <1>0, <1>16, <2>1 DEF hrt_call_delay, TypeOK
<1>17. ASSUME NEW e \in Entries, NEW delay \in Delays,
              NEW i \in Intervals \cup {0}, CalloutCalls(e, clock + delay, i)
       PROVE  TypeOK'
  <2> DEFINE t == clock + delay
             d == [deadline EXCEPT ![e] = t]
  <2>1. t \in Nat \ {0} /\ i \in Nat
    BY <1>0, Constants
  <2> HIDE DEF t
  <2>2. /\ d \in [Entries -> Nat] /\ d[e] # 0
        /\ Unqueued(e) \in Seq(Entries) /\ ~Has(Unqueued(e), e)
        /\ QueueOK(Unqueued(e), d)
    BY <2>1, UnqueuedOK
  <2>3. deadline' = d /\ Enter(Unqueued(e), d, e)
    BY <1>17 DEF CalloutCalls, t
  <2>4. /\ callout_queue' \in Seq(Entries)
        /\ base_time' \in Nat /\ last_count' \in Nat
        /\ ccr' \in 0..(Period - 1)
    <3> HIDE DEF d
    <3> QED
      BY <2>2, <2>3, EnterTypes
  <2>5. deadline' \in [Entries -> Nat]
    BY <2>2, <2>3
  <2> QED
    BY <1>17, <2>1, <2>4, <2>5 DEF CalloutCalls, TypeOK
<1>18. CASE Reenter
  <2>1. CASE period[call] = 0
    BY <1>18, <2>1 DEF Reenter, TypeOK
  <2>2. CASE period[call] # 0
    <3> DEFINE d == [deadline EXCEPT ![call] =
                       IF @ <= now THEN saved + period[call] ELSE @]
    <3>1. /\ d \in [Entries -> Nat] /\ d[call] # 0
          /\ QueueOK(callout_queue, d) /\ ~Has(callout_queue, call)
          /\ deadline' = d /\ Enter(callout_queue, d, call)
      BY <1>18, <2>2, AgainFacts
    <3> HIDE DEF d
    <3>2. call \in Entries /\ callout_queue \in Seq(Entries)
      BY <1>18 DEF Reenter, CalloutInv, TypeOK
    <3>3. /\ callout_queue' \in Seq(Entries)
          /\ base_time' \in Nat /\ last_count' \in Nat
          /\ ccr' \in 0..(Period - 1)
      BY <3>1, <3>2, EnterTypes
    <3>4. deadline' \in [Entries -> Nat]
      BY <3>1
    <3>5. /\ isr' = "invoke" /\ call' = NULL /\ now' = 0 /\ saved' = 0
          /\ UNCHANGED <<clock, irq, busy, period, threadVars>>
      BY <1>18 DEF Reenter
    <3> QED
      BY <3>3, <3>4, <3>5 DEF TypeOK
  <2> QED
    BY <2>1, <2>2
<1>19. CASE hrt_call_reschedule
  <2>1. NextCompare(callout_queue, deadline, AbsoluteTime) \in Nat
    BY <1>0, CompareFacts DEF TypeOK
  <2>2. ccr' \in 0..(Period - 1)
    BY <1>19, <2>1, Constants DEF hrt_call_reschedule
  <2> QED
    BY <1>0, <1>19, <2>2 DEF hrt_call_reschedule, TypeOK
<1> QED
  BY <1>1, <1>2, <1>3, <1>4, <1>5, <1>6, <1>7, <1>8, <1>9, <1>10, <1>11, <1>12,
     <1>13, <1>14, <1>15, <1>16, <1>17, <1>18, <1>19 DEF Next, Thread, Isr

-----------------------------------------------------------------------------
(* The critical section.                                                   *)

(* While nobody is in it, what others do does not matter to it. *)
LEMMA SectionQuiet ==
  ASSUME SectionInv, UNCHANGED threadVars, \A p \in Threads : ~InSection(p)
  PROVE  SectionInv'
  BY DEF SectionInv, InSection, Rescheduling

(* The handler runs only while nobody is in it. *)
LEMMA HandlerAlone ==
  ASSUME Nested, SectionInv, Isr
  PROVE  \A p \in Threads : ~InSection(p)
<1>1. isr # "off" \/ ~Masked
  BY DEF Isr, hrt_tim_isr, hrt_call_invoke, CalloutReturns, CalloutCancels,
         hrt_call_delay, CalloutCalls, Reenter, hrt_call_reschedule
<1> QED
  BY <1>1, MaskFacts DEF SectionInv

(* The handler takes no time and leaves the threads alone. *)
LEMMA HandlerFrame ==
  ASSUME Isr
  PROVE  UNCHANGED <<threadVars, clock, busy>>
  BY DEF Isr, hrt_tim_isr, hrt_call_invoke, CalloutReturns, CalloutCancels,
         hrt_call_delay, CalloutCalls, Reenter, hrt_call_reschedule

(* The calls that go on to hrt_call_internal, with their arguments. *)
LEMMA CallFacts ==
  ASSUME HrtInv, Nested, NEW p \in Threads, NEW e \in Entries,
         NEW delay \in Delays,
         \/ hrt_call_after(p, e, delay)
         \/ hrt_call_at(p, e, clock + delay)
         \/ \E i \in Intervals : hrt_call_every(p, e, delay, i)
  PROVE  /\ \A r \in Threads : ~InSection(r)
         /\ isr = "off"
         /\ \E t \in Nat \ {0}, i \in Nat : CallInternal(p, e, t, i)
         /\ UNCHANGED baseVars \/ ReadTime
<1> USE DEF HrtInv
<1>1. Runs(p, "idle")
  BY DEF hrt_call_after, hrt_call_every, hrt_call_at
<1>2. AbsoluteTime = clock
  BY ReadFacts
<1>3. clock + delay \in Nat \ {0}
  BY NumberFacts, Constants DEF TimeInv
<1>4. ASSUME hrt_call_after(p, e, delay)
      PROVE  /\ \E t \in Nat \ {0}, i \in Nat : CallInternal(p, e, t, i)
             /\ ReadTime
  BY <1>2, <1>3, <1>4 DEF hrt_call_after, hrt_call_every
<1>5. ASSUME hrt_call_at(p, e, clock + delay)
      PROVE  /\ \E t \in Nat \ {0}, i \in Nat : CallInternal(p, e, t, i)
             /\ UNCHANGED baseVars
  BY <1>3, <1>5 DEF hrt_call_at
<1>6. ASSUME NEW i \in Intervals, hrt_call_every(p, e, delay, i)
      PROVE  /\ \E t \in Nat \ {0}, j \in Nat : CallInternal(p, e, t, j)
             /\ ReadTime
  <2>1. i \in Nat
    BY Constants
  <2> QED
    BY <1>2, <1>3, <1>6, <2>1 DEF hrt_call_every
<1>7. isr = "off"
  BY <1>1 DEF Runs
<1> QED
  BY <1>1, <1>4, <1>5, <1>6, <1>7, MaskFacts

(* Every step keeps to the critical section. *)
LEMMA SectionStep ==
  ASSUME HrtInv, Nested, Next
  PROVE  SectionInv'
<1> USE DEF HrtInv
<1>0. /\ clock \in Nat /\ busy \in Nat /\ LastRead \in Nat
      /\ pc \in [Threads -> {"idle", "enter", "read", "peek", "write"}]
      /\ entry \in [Threads -> Entries \cup {NULL}]
      /\ time \in [Threads -> Nat]
  BY NumberFacts DEF TypeOK
<1>1. CASE Tick
  <2>1. /\ clock' = clock + 1 /\ LastRead' = LastRead
        /\ UNCHANGED <<threadVars, listVars, isr>>
    BY <1>1 DEF Tick, LastRead
  <2>2. \A p \in Threads : InSection(p) => busy' = busy + 1
    BY <1>1, MaskFacts DEF Tick, Occupied
  <2>3. \A p \in Threads : Rescheduling(p) => clock' <= LastRead' + busy'
    <3>1. \A p \in Threads : Rescheduling(p) => InSection(p)
      BY DEF Rescheduling, InSection
    <3> QED
      BY <1>0, <2>1, <2>2, <3>1 DEF SectionInv
  <2> QED
    BY <2>1, <2>3 DEF SectionInv, InSection, Rescheduling, NextCompare
<1>2. CASE Settle
  <2>1. \A p \in Threads : ~InSection(p)
    BY <1>2, MaskFacts DEF Settle, Occupied
  <2> QED
    BY <1>2, <2>1, SectionQuiet DEF Settle
<1>3. ASSUME NEW p \in Threads, hrt_absolute_time(p) PROVE SectionInv'
  BY <1>3, MaskFacts, SectionQuiet DEF hrt_absolute_time
<1>4. ASSUME NEW p \in Threads, NEW e \in Entries, NEW delay \in Delays,
             \/ hrt_call_after(p, e, delay)
             \/ hrt_call_at(p, e, clock + delay)
             \/ \E i \in Intervals : hrt_call_every(p, e, delay, i)
      PROVE  SectionInv'
  <2>1. \A r \in Threads : ~InSection(r)
    BY <1>4, CallFacts
  <2>2. PICK t \in Nat \ {0}, i \in Nat : CallInternal(p, e, t, i)
    BY <1>4, CallFacts
  <2>3. /\ pc' = [pc EXCEPT ![p] = "enter"]
        /\ entry' = [entry EXCEPT ![p] = e]
        /\ time' = [time EXCEPT ![p] = t]
    BY <2>2 DEF CallInternal
  <2> QED
    BY <1>0, <2>1, <2>3 DEF SectionInv, InSection, Rescheduling
<1>5. ASSUME NEW p \in Threads, hrt_call_internal(p) PROVE SectionInv'
  <2>1. isr = "off" /\ \A r \in Threads : ~InSection(r)
    BY <1>5, MaskFacts DEF hrt_call_internal, Runs
  <2>2. /\ pc' = [pc EXCEPT ![p] = "read"] \/ pc' = [pc EXCEPT ![p] = "idle"]
        /\ \A r \in Threads \ {p} : entry'[r] = entry[r] /\ time'[r] = time[r]
        /\ isr' = isr
    BY <1>0, <1>5 DEF hrt_call_internal
  <2> QED
    BY <1>0, <2>1, <2>2 DEF SectionInv, InSection, Rescheduling
<1>6. ASSUME NEW p \in Threads, RescheduleRead(p) PROVE SectionInv'
  <2>1. pc[p] = "read" /\ isr = "off"
    BY <1>6 DEF RescheduleRead, Runs
  <2>2. \A r \in Threads \ {p} : ~InSection(r)
    BY <2>1 DEF SectionInv, InSection
  <2>3. LastRead' = clock /\ AbsoluteTime = clock
    BY <1>6, ReadFacts DEF RescheduleRead
  <2>4. /\ pc' = [pc EXCEPT ![p] = "peek"]
        /\ time' = [time EXCEPT ![p] = LastRead']
        /\ entry' = entry /\ isr' = isr /\ clock' = clock /\ busy' = busy
    BY <1>6, <2>3 DEF RescheduleRead
  <2>5. clock' <= LastRead' + busy'
    BY <1>0, <2>3, <2>4
  <2> QED
    BY <1>0, <2>1, <2>2, <2>4, <2>5 DEF SectionInv, InSection, Rescheduling
<1>7. ASSUME NEW p \in Threads, ReschedulePeek(p) PROVE SectionInv'
  <2>1. pc[p] = "peek" /\ isr = "off"
    BY <1>7 DEF ReschedulePeek, Runs
  <2>2. \A r \in Threads \ {p} : ~InSection(r)
    BY <2>1 DEF SectionInv, InSection
  <2>3. time[p] = LastRead /\ clock <= LastRead + busy
    BY <2>1 DEF SectionInv, Rescheduling
  <2>4. /\ LastRead' = LastRead /\ UNCHANGED <<callout_queue, deadline>>
        /\ entry' = entry /\ isr' = isr /\ clock' = clock /\ busy' = busy
    BY <1>7 DEF ReschedulePeek, LastRead
  <2>5. /\ pc' = [pc EXCEPT ![p] = "write"]
        /\ time' = [time EXCEPT ![p] =
                      NextCompare(callout_queue, deadline, LastRead)]
    BY <1>7, <2>3 DEF ReschedulePeek
  <2>6. NextCompare(callout_queue', deadline', LastRead')
          = NextCompare(callout_queue, deadline, LastRead)
    BY <2>4
  <2>7. time'[p] = NextCompare(callout_queue', deadline', LastRead')
    BY <1>0, <2>5, <2>6
  <2>8. \A r \in Threads \ {p} : time'[r] = time[r] /\ pc'[r] = pc[r]
    BY <1>0, <2>5
  <2>9. pc'[p] = "write"
    BY <1>0, <2>5
  <2> QED
    BY <2>1, <2>2, <2>3, <2>4, <2>7, <2>8, <2>9
       DEF SectionInv, InSection, Rescheduling
<1>8. ASSUME NEW p \in Threads, RescheduleWrite(p) PROVE SectionInv'
  <2>1. pc[p] = "write"
    BY <1>8 DEF RescheduleWrite, Runs
  <2>2. \A r \in Threads \ {p} : ~InSection(r)
    BY <2>1 DEF SectionInv, InSection
  <2>3. /\ pc' = [pc EXCEPT ![p] = "idle"]
        /\ time' = [time EXCEPT ![p] = 0]
        /\ entry' = entry
    BY <1>8 DEF RescheduleWrite, RescheduleDone
  <2> QED
    BY <1>0, <2>2, <2>3 DEF SectionInv, InSection, Rescheduling
<1>9. ASSUME NEW p \in Threads, NEW e \in Entries, hrt_cancel(p, e)
      PROVE  SectionInv'
  BY <1>9, MaskFacts, SectionQuiet DEF hrt_cancel
<1>10. CASE Isr
  BY <1>10, HandlerAlone, HandlerFrame, SectionQuiet
<1> QED
  BY <1>1, <1>2, <1>3, <1>4, <1>5, <1>6, <1>7, <1>8, <1>9, <1>10 DEF Next, Thread

-----------------------------------------------------------------------------
(* The time.                                                               *)

\* A step reads the time or leaves it alone.
MayRead == UNCHANGED baseVars \/ ReadTime

\* A step leaves the register alone, or writes a value that is in time.
StaysArmed ==
  Calm' => \/ Calm /\ UNCHANGED ccr
           \/ NextMatch' <= LastRead' + IntervalMax

(* A step that takes no time, and reads it rightly if at all. *)
LEMMA TimeFrame ==
  ASSUME TypeOK, TypeOK', TimeInv, clock' = clock, busy' = busy,
         MayRead, StaysArmed
  PROVE  TimeInv'
<1>1. /\ clock \in Nat /\ busy \in Nat /\ LastRead \in Nat
      /\ IntervalMax \in Nat /\ LastRead' \in Nat /\ NextMatch \in Nat
      /\ NextMatch' \in Nat
  <2>1. /\ base_time' \in Nat /\ last_count' \in Nat /\ clock' \in Nat
        /\ ccr' \in 0..(Period - 1) /\ Period \in Nat \ {0}
    BY Constants DEF TypeOK
  <2>2. LastRead' \in Nat
    BY <2>1, Sum DEF LastRead
  <2>3. ccr' - clock' - 1 \in Int
    BY <2>1
  <2>4. (ccr' - clock' - 1) % Period \in Nat
    BY <2>1, <2>3, Remainder
  <2>5. NextMatch' \in Nat
    BY <2>1, <2>4 DEF NextMatch
  <2> QED
    BY <2>2, <2>5, NumberFacts, Constants, MatchIsAhead
<1>2. /\ Whole(base_time') /\ last_count' < Period
      /\ LastRead <= LastRead' /\ LastRead' <= clock
  <2>1. CASE UNCHANGED baseVars
    BY <1>1, <2>1 DEF TimeInv, LastRead, Whole
  <2>2. CASE ReadTime
    BY <1>1, <2>2, ReadFacts DEF TimeInv
  <2> QED
    BY <2>1, <2>2 DEF MayRead
<1>3. /\ clock <= LastRead + IntervalMax + busy
      /\ Calm => NextMatch <= LastRead + IntervalMax
  BY DEF TimeInv
<1> DEFINE r == LastRead'
<1>4. r \in Nat /\ LastRead <= r
  BY <1>1, <1>2
<1> HIDE DEF r
<1>5. clock' <= LastRead' + IntervalMax + busy'
  <2>1. clock <= r + IntervalMax + busy
    BY <1>1, <1>3, <1>4
  <2> QED
    BY <2>1 DEF r
<1>6. ASSUME Calm' PROVE NextMatch' <= LastRead' + IntervalMax
  <2>1. CASE Calm /\ UNCHANGED ccr
    <3>1. NextMatch' = NextMatch
      BY <2>1 DEF NextMatch
    <3>2. NextMatch <= r + IntervalMax
      BY <1>1, <1>3, <1>4, <2>1
    <3> QED
      BY <3>1, <3>2 DEF r
  <2> QED
    BY <1>6, <2>1 DEF StaysArmed
<1> QED
  BY <1>2, <1>5, <1>6 DEF TimeInv, Whole

(* Nobody in the critical section, nobody rescheduling. *)
LEMMA AloneIsCalm ==
  ASSUME \A p \in Threads : ~InSection(p)
  PROVE  \A p \in Threads : ~Rescheduling(p)
  BY DEF InSection, Rescheduling

(* When the interrupt is not occupied, it comes within HRT_INTERVAL_MAX of *)
(* the last read.                                                          *)
LEMMA InTime ==
  ASSUME Nested, TypeOK, TimeInv, ~Occupied
  PROVE  clock + 1 <= LastRead + IntervalMax
<1>1. Calm
  BY MaskFacts, AloneIsCalm DEF Occupied, Calm
<1> QED
  BY <1>1, MatchIsAhead, NumberFacts, Constants DEF TimeInv

(* Every step keeps the time. *)
LEMMA TimeStep ==
  ASSUME HrtInv, Nested, Next, TypeOK'
  PROVE  TimeInv'
<1> USE DEF HrtInv
<1>0. /\ clock \in Nat /\ busy \in Nat /\ LastRead \in Nat
      /\ IntervalMax \in Nat /\ IntervalMin \in Nat /\ Late \in Nat
      /\ Late < IntervalMin /\ IntervalMin <= IntervalMax
      /\ pc \in [Threads -> {"idle", "enter", "read", "peek", "write"}]
      /\ callout_queue \in Seq(Entries) /\ deadline \in [Entries -> Nat]
  BY NumberFacts, Constants DEF TypeOK
<1>1. CASE Tick
  <2>1. /\ clock' = clock + 1 /\ LastRead' = LastRead
        /\ UNCHANGED <<base_time, last_count, pc, isr>>
        /\ busy < Late
    BY <1>1 DEF Tick, LastRead
  <2>2. busy' <= Late /\ clock' <= LastRead' + IntervalMax + busy'
    <3>1. CASE Occupied
      <4>1. busy' = busy + 1
        BY <1>1, <3>1 DEF Tick
      <4> QED
        BY <1>0, <2>1, <4>1 DEF TimeInv
    <3>2. CASE ~Occupied
      <4>1. busy' = 0
        BY <1>1, <3>2 DEF Tick
      <4> QED
        BY <1>0, <2>1, <3>2, <4>1, InTime
    <3> QED
      BY <3>1, <3>2
  <2>3. ASSUME Calm' PROVE NextMatch' <= LastRead' + IntervalMax
    <3>1. Calm /\ ~irq'
      BY <1>1, <2>1, <2>3 DEF Tick, Calm, Rescheduling
    <3>2. NextMatch' = NextMatch
      BY <1>1, <3>1, TickMatch
    <3> QED
      BY <2>1, <3>1, <3>2 DEF TimeInv
  <2> QED
    BY <1>0, <2>1, <2>2, <2>3 DEF TimeInv, Whole
<1>2. CASE Settle
  <2>1. /\ ~Occupied /\ busy' = 0 /\ LastRead' = LastRead
        /\ UNCHANGED <<clock, ccr, irq, base_time, last_count, pc, isr>>
    BY <1>2 DEF Settle, LastRead
  <2>2. clock' <= LastRead' + IntervalMax + busy'
    BY <1>0, <2>1, InTime
  <2>3. Calm' => NextMatch' <= LastRead' + IntervalMax
    BY <2>1 DEF TimeInv, Calm, Rescheduling, NextMatch
  <2> QED
    BY <1>0, <2>1, <2>2, <2>3 DEF TimeInv, Whole
<1>3. ASSUME NEW p \in Threads, hrt_absolute_time(p) PROVE TimeInv'
  <2>1. Calm' => Calm
    BY <1>3 DEF hrt_absolute_time, Calm, Rescheduling
  <2> QED
    BY <1>3, <2>1, TimeFrame DEF StaysArmed, MayRead, hrt_absolute_time
<1>4. ASSUME NEW p \in Threads, NEW e \in Entries, NEW delay \in Delays,
             \/ hrt_call_after(p, e, delay)
             \/ hrt_call_at(p, e, clock + delay)
             \/ \E i \in Intervals : hrt_call_every(p, e, delay, i)
      PROVE  TimeInv'
  <2>1. (\A r \in Threads : ~InSection(r)) /\ (UNCHANGED baseVars \/ ReadTime)
    BY <1>4, CallFacts
  <2>2. UNCHANGED <<hwVars, isr>>
    BY <1>4, CallFacts DEF CallInternal
  <2>3. Calm' => Calm
    BY <2>1, <2>2, AloneIsCalm DEF Calm
  <2> QED
    BY <2>1, <2>2, <2>3, TimeFrame DEF StaysArmed, MayRead
<1>5. ASSUME NEW p \in Threads, hrt_call_internal(p) PROVE TimeInv'
  <2>1. \A r \in Threads : ~InSection(r)
    BY <1>5, MaskFacts DEF hrt_call_internal
  <2>2. UNCHANGED <<hwVars, baseVars, isr>>
    BY <1>5 DEF hrt_call_internal
  <2>3. Calm' => Calm
    BY <2>1, <2>2, AloneIsCalm DEF Calm
  <2> QED
    BY <2>2, <2>3, TimeFrame DEF StaysArmed, MayRead
<1>6. ASSUME NEW p \in Threads, RescheduleRead(p) PROVE TimeInv'
  <2>1. ~Calm'
    BY <1>0, <1>6 DEF RescheduleRead, Calm, Rescheduling
  <2> QED
    BY <1>6, <2>1, TimeFrame DEF StaysArmed, MayRead, RescheduleRead
<1>7. ASSUME NEW p \in Threads, ReschedulePeek(p) PROVE TimeInv'
  <2>1. ~Calm'
    BY <1>0, <1>7 DEF ReschedulePeek, Calm, Rescheduling
  <2> QED
    BY <1>7, <2>1, TimeFrame DEF StaysArmed, MayRead, ReschedulePeek
<1>8. ASSUME NEW p \in Threads, RescheduleWrite(p) PROVE TimeInv'
  <2> DEFINE x == NextCompare(callout_queue, deadline, LastRead)
  <2>1. pc[p] = "write" /\ ccr' = time[p] % Period
    BY <1>8 DEF RescheduleWrite, Runs
  <2>2. time[p] = x /\ clock <= LastRead + busy
    BY <2>1 DEF SectionInv, Rescheduling
  <2>3. /\ x \in Nat /\ LastRead + IntervalMin <= x
        /\ x <= LastRead + IntervalMax
    BY <1>0, CompareFacts
  <2> HIDE DEF x
  <2>4. clock < x /\ x <= clock + IntervalMax
    BY <1>0, <2>2, <2>3 DEF TimeInv
  <2>5. UNCHANGED <<clock, irq, busy, baseVars, isr>>
    BY <1>8 DEF RescheduleWrite, RescheduleDone
  <2>6. NextMatch' = x
    BY <2>1, <2>2, <2>3, <2>4, <2>5, WrittenMatches
  <2>7. NextMatch' <= LastRead' + IntervalMax
    BY <2>3, <2>5, <2>6 DEF LastRead
  <2> QED
    BY <2>5, <2>7, TimeFrame DEF StaysArmed, MayRead
<1>9. ASSUME NEW p \in Threads, NEW e \in Entries, hrt_cancel(p, e)
      PROVE  TimeInv'
  <2>1. Calm' => Calm
    BY <1>9 DEF hrt_cancel, Calm, Rescheduling
  <2> QED
    BY <1>9, <2>1, TimeFrame DEF StaysArmed, MayRead, hrt_cancel
<1>10. ASSUME hrt_tim_isr \/ hrt_call_invoke \/ CalloutReturns
       PROVE  TimeInv'
  <2>1. ~Calm'
    BY <1>10 DEF hrt_tim_isr, hrt_call_invoke, CalloutReturns, Calm
  <2> QED
    BY <1>10, <2>1, TimeFrame
       DEF StaysArmed, MayRead, hrt_tim_isr, hrt_call_invoke, CalloutReturns
<1>11. ASSUME NEW e \in Entries, CalloutCancels(e) PROVE TimeInv'
  <2>1. ~Calm'
    BY <1>11 DEF CalloutCancels, Calm
  <2> QED
    BY <1>11, <2>1, TimeFrame DEF StaysArmed, MayRead, CalloutCancels
<1>12. ASSUME NEW delay \in Delays, hrt_call_delay(delay) PROVE TimeInv'
  <2>1. ~Calm'
    BY <1>12 DEF hrt_call_delay, Calm
  <2> QED
    BY <1>12, <2>1, TimeFrame DEF StaysArmed, MayRead, hrt_call_delay
<1>13. ASSUME NEW e \in Entries, NEW delay \in Delays,
              NEW i \in Intervals \cup {0}, CalloutCalls(e, clock + delay, i)
       PROVE  TimeInv'
  <2>1. ~Calm'
    BY <1>13 DEF CalloutCalls, Calm
  <2>2. UNCHANGED baseVars \/ ReadTime
    BY <1>13 DEF CalloutCalls, Enter
  <2> QED
    BY <1>13, <2>1, <2>2, TimeFrame DEF StaysArmed, MayRead, CalloutCalls
<1>14. CASE Reenter
  <2>1. ~Calm'
    BY <1>14 DEF Reenter, Calm
  <2>2. UNCHANGED baseVars \/ ReadTime
    BY <1>14 DEF Reenter, Enter
  <2> QED
    BY <1>14, <2>1, <2>2, TimeFrame DEF StaysArmed, MayRead, Reenter
<1>15. CASE hrt_call_reschedule
  <2> DEFINE x == NextCompare(callout_queue, deadline, clock)
  <2>1. /\ ccr' = x % Period /\ LastRead' = clock /\ ReadTime
        /\ UNCHANGED <<clock, busy>>
    BY <1>15, ReadFacts DEF hrt_call_reschedule
  <2>2. x \in Nat /\ clock + IntervalMin <= x /\ x <= clock + IntervalMax
    BY <1>0, CompareFacts
  <2> HIDE DEF x
  <2>3. clock < x
    BY <1>0, <2>2
  <2>4. NextMatch' = x
    BY <2>1, <2>2, <2>3, WrittenMatches
  <2>5. NextMatch' <= LastRead' + IntervalMax
    BY <2>1, <2>2, <2>4
  <2> QED
    BY <2>1, <2>5, TimeFrame DEF StaysArmed, MayRead
<1> QED
  BY <1>1, <1>2, <1>3, <1>4, <1>5, <1>6, <1>7, <1>8, <1>9, <1>10, <1>11, <1>12,
     <1>13, <1>14, <1>15 DEF Next, Thread, Isr

-----------------------------------------------------------------------------
(* The list, and the entry whose callout runs.                             *)

(* What hrt_cancel does to the list. *)
LEMMA CancelOK ==
  ASSUME TypeOK, QueueIsSorted, NEW e \in Entries,
         callout_queue' = Drop(callout_queue, e),
         deadline' = [deadline EXCEPT ![e] = 0]
  PROVE  /\ QueueIsSorted'
         /\ \A x : Has(callout_queue', x) => Has(callout_queue, x)
         /\ callout_queue' # <<>> =>
              /\ callout_queue # <<>>
              /\ deadline[callout_queue[1]] <= deadline'[callout_queue'[1]]
<1> DEFINE s == Drop(callout_queue, e)
           d == [deadline EXCEPT ![e] = 0]
<1>1. /\ callout_queue \in Seq(Entries) /\ deadline \in [Entries -> Nat]
      /\ QueueOK(callout_queue, deadline)
  BY DEF TypeOK, QueueIsSorted, QueueOK
<1>2. /\ s \in Seq(Entries) /\ ~Has(s, e)
      /\ \A x : Has(s, x) => Has(callout_queue, x)
      /\ QueueOK(s, deadline)
      /\ s # <<>> => /\ callout_queue # <<>>
                     /\ deadline[callout_queue[1]] <= deadline[s[1]]
  BY <1>1, DropOK
<1> HIDE DEF s
<1>3. QueueOK(s, d)
  BY <1>1, <1>2, ChangeOK
<1>4. ASSUME s # <<>> PROVE d[s[1]] = deadline[s[1]]
  <2>1. 1 \in 1..Len(s) /\ s[1] \in Entries
    BY <1>2, <1>4
  <2>2. s[1] # e
    BY <1>2, <2>1 DEF Has
  <2> QED
    BY <1>1, <2>1, <2>2
<1> HIDE DEF d
<1>5. callout_queue' = s /\ deadline' = d
  BY DEF s, d
<1> QED
  BY <1>2, <1>3, <1>4, <1>5 DEF QueueIsSorted, QueueOK

(* What hrt_call_internal does to the list. *)
LEMMA EnteredOK ==
  ASSUME TypeOK, QueueIsSorted, NEW e \in Entries, NEW v \in Nat \ {0},
         deadline' = [deadline EXCEPT ![e] = v],
         callout_queue' = Insert(Unqueued(e), [deadline EXCEPT ![e] = v], e)
  PROVE  /\ QueueIsSorted'
         /\ \A x : Has(callout_queue', x) => Has(callout_queue, x) \/ x = e
         /\ callout_queue'[1] # e =>
              /\ callout_queue # <<>>
              /\ deadline[callout_queue[1]] <= deadline'[callout_queue'[1]]
<1> DEFINE s == Unqueued(e)
           d == [deadline EXCEPT ![e] = v]
<1>1. /\ d \in [Entries -> Nat] /\ d[e] # 0
      /\ s \in Seq(Entries) /\ ~Has(s, e)
      /\ \A x : Has(s, x) => Has(callout_queue, x)
      /\ QueueOK(s, d)
      /\ s # <<>> => /\ callout_queue # <<>>
                     /\ deadline[callout_queue[1]] <= d[s[1]]
  BY UnqueuedOK
<1> HIDE DEF s, d
<1>2. callout_queue' = Insert(s, d, e) /\ deadline' = d
  BY DEF s, d
<1>3. /\ QueueOK(Insert(s, d, e), d)
      /\ \A x : Has(Insert(s, d, e), x) => Has(s, x) \/ x = e
      /\ Insert(s, d, e)[1] # e => s # <<>> /\ Insert(s, d, e)[1] = s[1]
  BY <1>1, InsertOK
<1>4. QueueIsSorted'
  BY <1>2, <1>3 DEF QueueIsSorted, QueueOK
<1> QED
  BY <1>1, <1>2, <1>3, <1>4

(* hrt_call_internal's arguments. *)
LEMMA InternalFacts ==
  ASSUME ListInv, NEW p \in Threads, hrt_call_internal(p)
  PROVE  /\ entry[p] \in Entries /\ time[p] \in Nat \ {0}
         /\ deadline' = [deadline EXCEPT ![entry[p]] = time[p]]
         /\ callout_queue' = Insert(Unqueued(entry[p]),
                                    [deadline EXCEPT ![entry[p]] = time[p]],
                                    entry[p])
         /\ isr = "off"
<1>1. pc[p] = "enter" /\ isr = "off"
  BY DEF hrt_call_internal, Runs
<1>2. entry[p] \in Entries /\ time[p] \in Nat \ {0}
  BY <1>1 DEF ListInv, ArgumentInv, TypeOK
<1> QED
  BY <1>1, <1>2 DEF hrt_call_internal

(* A callout's call of hrt_call_internal. *)
LEMMA CalloutCallFacts ==
  ASSUME ListInv, NEW e \in Entries, NEW delay \in Delays, NEW i,
         CalloutCalls(e, clock + delay, i)
  PROVE  \E v \in Nat \ {0} :
           /\ deadline' = [deadline EXCEPT ![e] = v]
           /\ callout_queue' = Insert(Unqueued(e), [deadline EXCEPT ![e] = v], e)
<1>1. clock + delay \in Nat \ {0}
  BY NumberFacts, Constants DEF ListInv, ArgumentInv
<1> QED
  BY <1>1 DEF CalloutCalls, Enter

(* Every step keeps the list sorted. *)
LEMMA SortedStep ==
  ASSUME ListInv, Next
  PROVE  QueueIsSorted'
<1> USE DEF ListInv
<1>0. /\ callout_queue \in Seq(Entries) /\ deadline \in [Entries -> Nat]
      /\ QueueOK(callout_queue, deadline)
  BY DEF TypeOK, QueueIsSorted, QueueOK
<1>1. ASSUME UNCHANGED <<callout_queue, deadline>> PROVE QueueIsSorted'
  BY <1>1 DEF QueueIsSorted
<1>2. CASE Tick \/ Settle
  BY <1>1, <1>2 DEF Tick, Settle
<1>3. ASSUME NEW p \in Threads,
             \/ hrt_absolute_time(p) \/ RescheduleRead(p)
             \/ ReschedulePeek(p) \/ RescheduleWrite(p)
      PROVE  QueueIsSorted'
  BY <1>1, <1>3 DEF hrt_absolute_time, RescheduleRead, ReschedulePeek,
                    RescheduleWrite, RescheduleDone
<1>4. ASSUME NEW p \in Threads, NEW e \in Entries, NEW delay \in Delays,
             \/ hrt_call_after(p, e, delay)
             \/ hrt_call_at(p, e, clock + delay)
             \/ \E i \in Intervals : hrt_call_every(p, e, delay, i)
      PROVE  QueueIsSorted'
  BY <1>1, <1>4 DEF hrt_call_after, hrt_call_at, hrt_call_every, CallInternal
<1>5. ASSUME NEW p \in Threads, hrt_call_internal(p) PROVE QueueIsSorted'
  BY <1>5, InternalFacts, EnteredOK
<1>6. ASSUME NEW p \in Threads, NEW e \in Entries, hrt_cancel(p, e)
      PROVE  QueueIsSorted'
  BY <1>6, CancelOK DEF hrt_cancel
<1>7. CASE hrt_tim_isr \/ CalloutReturns \/ hrt_call_reschedule
  BY <1>1, <1>7 DEF hrt_tim_isr, CalloutReturns, hrt_call_reschedule
<1>8. CASE hrt_call_invoke
  <2>1. CASE UNCHANGED <<callout_queue, deadline>>
    BY <1>1, <2>1
  <2>2. CASE /\ callout_queue # <<>>
             /\ callout_queue' = Tail(callout_queue)
             /\ deadline' = [deadline EXCEPT ![Head(callout_queue)] = 0]
    <3> DEFINE s == Tail(callout_queue)
               e == Head(callout_queue)
    <3>1. /\ s \in Seq(Entries) /\ e \in Entries /\ ~Has(s, e)
          /\ QueueOK(s, deadline)
      BY <1>0, <2>2, TailOK
    <3> HIDE DEF s, e
    <3>2. QueueOK(s, [deadline EXCEPT ![e] = 0])
      BY <1>0, <3>1, ChangeOK
    <3>3. callout_queue' = s /\ deadline' = [deadline EXCEPT ![e] = 0]
      BY <2>2 DEF s, e
    <3> QED
      BY <3>2, <3>3 DEF QueueIsSorted, QueueOK
  <2> QED
    BY <1>8, <2>1, <2>2 DEF hrt_call_invoke
<1>9. ASSUME NEW e \in Entries, CalloutCancels(e) PROVE QueueIsSorted'
  BY <1>9, CancelOK DEF CalloutCancels
<1>10. ASSUME NEW delay \in Delays, hrt_call_delay(delay) PROVE QueueIsSorted'
  <2> DEFINE v == AbsoluteTime + delay
  <2>1. v \in Nat
    BY ReadTypes, Constants
  <2> HIDE DEF v
  <2>2. /\ deadline' = [deadline EXCEPT ![call] = v]
        /\ callout_queue' = callout_queue /\ isr = "callout"
    BY <1>10 DEF hrt_call_delay, v
  <2>3. call \in Entries /\ ~Has(callout_queue, call)
    BY <2>2 DEF CalloutInv
  <2>4. QueueOK(callout_queue, [deadline EXCEPT ![call] = v])
    BY <1>0, <2>1, <2>3, ChangeOK
  <2> QED
    BY <2>2, <2>4 DEF QueueIsSorted, QueueOK
<1>11. ASSUME NEW e \in Entries, NEW delay \in Delays,
              NEW i \in Intervals \cup {0}, CalloutCalls(e, clock + delay, i)
       PROVE  QueueIsSorted'
  BY <1>11, CalloutCallFacts, EnteredOK
<1>12. CASE Reenter
  <2>1. CASE period[call] = 0
    BY <1>1, <1>12, <2>1 DEF Reenter
  <2>2. CASE period[call] # 0
    <3> DEFINE d == [deadline EXCEPT ![call] =
                       IF @ <= now THEN saved + period[call] ELSE @]
    <3>1. /\ d \in [Entries -> Nat] /\ d[call] # 0
          /\ QueueOK(callout_queue, d) /\ ~Has(callout_queue, call)
          /\ deadline' = d /\ Enter(callout_queue, d, call)
      BY <1>12, <2>2, AgainFacts
    <3> HIDE DEF d
    <3>2. call \in Entries
      BY <1>12 DEF Reenter, CalloutInv
    <3>3. QueueOK(Insert(callout_queue, d, call), d)
      BY <1>0, <3>1, <3>2, InsertOK
    <3>4. callout_queue' = Insert(callout_queue, d, call)
      BY <3>1 DEF Enter
    <3> QED
      BY <3>1, <3>3, <3>4 DEF QueueIsSorted, QueueOK
  <2> QED
    BY <2>1, <2>2
<1> QED
  BY <1>2, <1>3, <1>4, <1>5, <1>6, <1>7, <1>8, <1>9, <1>10, <1>11, <1>12
     DEF Next, Thread, Isr

(* Every step keeps the entry of a callout apart. *)
LEMMA CalloutStep ==
  ASSUME ListInv, Next
  PROVE  CalloutInv'
<1> USE DEF ListInv
<1>1. CASE Tick \/ Settle
  BY <1>1 DEF Tick, Settle, CalloutInv
<1>2. ASSUME NEW p \in Threads, Thread(p) PROVE CalloutInv'
  <2>1. isr' = "off"
    BY <1>2 DEF Thread, Runs, hrt_absolute_time, hrt_call_after, hrt_call_at,
       hrt_call_every, CallInternal, hrt_call_internal, RescheduleRead,
       ReschedulePeek, RescheduleWrite, RescheduleDone, hrt_cancel
  <2> QED
    BY <2>1 DEF CalloutInv
<1>3. CASE hrt_tim_isr \/ Reenter \/ hrt_call_reschedule
  <2>1. isr' \notin {"callout", "after"}
    BY <1>3 DEF hrt_tim_isr, Reenter, hrt_call_reschedule
  <2> QED
    BY <2>1 DEF CalloutInv
<1>4. CASE hrt_call_invoke
  <2>1. CASE isr' = "reschedule"
    BY <2>1 DEF CalloutInv
  <2>2. CASE /\ isr' = "callout" /\ callout_queue # <<>>
             /\ call' = Head(callout_queue)
             /\ callout_queue' = Tail(callout_queue)
    <3>1. Head(callout_queue) \in Entries
          /\ ~Has(Tail(callout_queue), Head(callout_queue))
      BY <2>2, TailFacts DEF TypeOK, QueueIsSorted
    <3> QED
      BY <2>2, <3>1 DEF CalloutInv
  <2> QED
    BY <1>4, <2>1, <2>2 DEF hrt_call_invoke
<1>5. CASE CalloutReturns
  BY <1>5 DEF CalloutReturns, CalloutInv
<1>6. ASSUME NEW e \in Entries, CalloutCancels(e) PROVE CalloutInv'
  <2>1. /\ isr = "callout" /\ isr' = "after" /\ call' = call
        /\ \A x : Has(callout_queue', x) => Has(callout_queue, x)
    BY <1>6, CancelOK DEF CalloutCancels
  <2> QED
    BY <2>1 DEF CalloutInv
<1>7. ASSUME NEW delay \in Delays, hrt_call_delay(delay) PROVE CalloutInv'
  BY <1>7 DEF hrt_call_delay, CalloutInv
<1>8. ASSUME NEW e \in Entries, NEW delay \in Delays,
             NEW i \in Intervals \cup {0}, CalloutCalls(e, clock + delay, i)
      PROVE  CalloutInv'
  <2>1. /\ isr = "callout" /\ isr' = "after" /\ call' = call
        /\ e = call => i = 0
        /\ period' = [period EXCEPT ![e] = i]
    BY <1>8 DEF CalloutCalls
  <2>2. call \in Entries /\ ~Has(callout_queue, call)
    BY <2>1 DEF CalloutInv
  <2>3. \A x : Has(callout_queue', x) => Has(callout_queue, x) \/ x = e
    BY <1>8, CalloutCallFacts, EnteredOK
  <2>4. CASE e = call
    <3>1. period'[call'] = 0
      BY <2>1, <2>2, <2>4 DEF TypeOK
    <3> QED
      BY <2>1, <2>2, <3>1 DEF CalloutInv
  <2>5. CASE e # call
    BY <2>1, <2>2, <2>3, <2>5 DEF CalloutInv
  <2> QED
    BY <2>4, <2>5
<1> QED
  BY <1>1, <1>2, <1>3, <1>4, <1>5, <1>6, <1>7, <1>8 DEF Next, Isr

-----------------------------------------------------------------------------
(* The register and the head of the list.                                  *)

(* A step that takes no time and lets the first deadline get only later. *)
LEMMA HeadFrame ==
  ASSUME TypeOK, TypeOK', HeadInv, UNCHANGED <<clock, ccr>>,
         Quiet' /\ callout_queue' # <<>> =>
           /\ Quiet /\ callout_queue # <<>>
           /\ deadline[callout_queue[1]] <= deadline'[callout_queue'[1]]
  PROVE  HeadInv'
<1> SUFFICES ASSUME Quiet', callout_queue' # <<>>
             PROVE  \/ NextMatch' <= deadline'[callout_queue'[1]]
                    \/ NextMatch' <= clock' + IntervalMin
  BY DEF HeadInv
<1>1. NextMatch' = NextMatch
  BY DEF NextMatch
<1> DEFINE a == deadline[callout_queue[1]]
           b == deadline'[callout_queue'[1]]
<1>2. a \in Nat /\ b \in Nat /\ NextMatch \in Nat
  <2>1. callout_queue # <<>> /\ callout_queue' # <<>>
    OBVIOUS
  <2>2. callout_queue \in Seq(Entries) /\ callout_queue' \in Seq(Entries)
    BY DEF TypeOK
  <2>3. callout_queue[1] \in Entries /\ callout_queue'[1] \in Entries
    BY <2>1, <2>2
  <2> QED
    BY <2>3, MatchIsAhead DEF TypeOK
<1>3. NextMatch <= a \/ NextMatch <= clock + IntervalMin
  BY DEF HeadInv
<1>4. a <= b
  OBVIOUS
<1> HIDE DEF a, b
<1>5. NextMatch <= b \/ NextMatch <= clock + IntervalMin
  BY <1>2, <1>3, <1>4
<1> QED
  BY <1>1, <1>5 DEF b

(* Every step keeps the register armed for the head. *)
LEMMA HeadStep ==
  ASSUME HrtInv, Nested, Next, TypeOK'
  PROVE  HeadInv'
<1> USE DEF HrtInv
<1>0. /\ clock \in Nat /\ busy \in Nat /\ LastRead \in Nat
      /\ IntervalMax \in Nat /\ IntervalMin \in Nat /\ Late \in Nat
      /\ Late < IntervalMin /\ IntervalMin <= IntervalMax
      /\ pc \in [Threads -> {"idle", "enter", "read", "peek", "write"}]
      /\ callout_queue \in Seq(Entries) /\ deadline \in [Entries -> Nat]
  BY NumberFacts, Constants DEF TypeOK
<1>1. ASSUME UNCHANGED <<clock, ccr, callout_queue, deadline>>, Quiet' => Quiet
      PROVE  HeadInv'
  BY <1>1 DEF HeadInv, NextMatch
<1>2. CASE Tick
  <2> SUFFICES ASSUME Quiet', callout_queue' # <<>>
               PROVE  \/ NextMatch' <= deadline'[callout_queue'[1]]
                      \/ NextMatch' <= clock' + IntervalMin
    BY DEF HeadInv
  <2>1. /\ Quiet /\ ~irq' /\ clock' = clock + 1
        /\ UNCHANGED <<callout_queue, deadline>>
    BY <1>2 DEF Tick, Quiet, InSection
  <2>2. NextMatch' = NextMatch /\ NextMatch \in Nat
    BY <1>2, <2>1, TickMatch, MatchIsAhead
  <2>3. \/ NextMatch <= deadline[callout_queue[1]]
        \/ NextMatch <= clock + IntervalMin
    BY <2>1 DEF HeadInv
  <2>4. NextMatch <= clock + IntervalMin => NextMatch <= (clock + 1) + IntervalMin
    BY <1>0, <2>2
  <2> QED
    BY <2>1, <2>2, <2>3, <2>4
<1>3. CASE Settle
  <2>1. UNCHANGED <<clock, ccr, callout_queue, deadline>> /\ (Quiet' => Quiet)
    BY <1>3 DEF Settle, Quiet, InSection
  <2> QED
    BY <1>1, <2>1
<1>4. ASSUME NEW p \in Threads, hrt_absolute_time(p) PROVE HeadInv'
  <2>1. UNCHANGED <<clock, ccr, callout_queue, deadline>> /\ (Quiet' => Quiet)
    BY <1>4 DEF hrt_absolute_time, Quiet, InSection
  <2> QED
    BY <1>1, <2>1
<1>5. ASSUME NEW p \in Threads, NEW e \in Entries, NEW delay \in Delays,
             \/ hrt_call_after(p, e, delay)
             \/ hrt_call_at(p, e, clock + delay)
             \/ \E i \in Intervals : hrt_call_every(p, e, delay, i)
      PROVE  HeadInv'
  <2>1. \A r \in Threads : ~InSection(r)
    BY <1>5, CallFacts
  <2>2. UNCHANGED <<clock, ccr, irq, isr, callout_queue, deadline>>
    BY <1>5, CallFacts DEF CallInternal
  <2>3. Quiet' => Quiet
    BY <2>1, <2>2 DEF Quiet
  <2> QED
    BY <1>1, <2>2, <2>3
<1>6. ASSUME NEW p \in Threads, hrt_call_internal(p) PROVE HeadInv'
  <2> DEFINE e == entry[p]
             s == Insert(Unqueued(e), [deadline EXCEPT ![e] = time[p]], e)
  <2>1. \A r \in Threads : ~InSection(r)
    BY <1>6, MaskFacts DEF hrt_call_internal
  <2>2. UNCHANGED <<clock, ccr, irq, isr>>
    BY <1>6 DEF hrt_call_internal
  <2>3. /\ callout_queue' = s
        /\ pc' = [pc EXCEPT ![p] = IF s[1] = e THEN "read" ELSE "idle"]
    BY <1>6 DEF hrt_call_internal
  <2>4. callout_queue'[1] # e =>
          /\ callout_queue # <<>>
          /\ deadline[callout_queue[1]] <= deadline'[callout_queue'[1]]
    BY <1>6, HrtList, InternalFacts, EnteredOK
  <2> HIDE DEF s, e
  <2>5. Quiet' => Quiet /\ callout_queue'[1] # e
    <3>1. callout_queue'[1] = e => pc'[p] = "read"
      BY <1>0, <2>3
    <3> QED
      BY <2>1, <2>2, <3>1 DEF Quiet, InSection
  <2> QED
    BY <2>2, <2>4, <2>5, HeadFrame
<1>7. ASSUME NEW p \in Threads, RescheduleRead(p) \/ ReschedulePeek(p)
      PROVE  HeadInv'
  <2>1. pc'[p] \in {"peek", "write"}
    BY <1>0, <1>7 DEF RescheduleRead, ReschedulePeek
  <2> QED
    BY <2>1 DEF HeadInv, Quiet, InSection
<1>8. ASSUME NEW p \in Threads, RescheduleWrite(p) PROVE HeadInv'
  <2> SUFFICES ASSUME callout_queue' # <<>>
               PROVE  \/ NextMatch' <= deadline'[callout_queue'[1]]
                      \/ NextMatch' <= clock' + IntervalMin
    BY DEF HeadInv
  <2> DEFINE x == NextCompare(callout_queue, deadline, LastRead)
             d == deadline[callout_queue[1]]
  <2>1. pc[p] = "write" /\ ccr' = time[p] % Period
    BY <1>8 DEF RescheduleWrite, Runs
  <2>2. time[p] = x /\ clock <= LastRead + busy
    BY <2>1 DEF SectionInv, Rescheduling
  <2>3. UNCHANGED <<clock, callout_queue, deadline>>
    BY <1>8 DEF RescheduleWrite, RescheduleDone
  <2>4. /\ x \in Nat /\ LastRead + IntervalMin <= x
        /\ x <= LastRead + IntervalMax
        /\ x <= d \/ x <= LastRead + IntervalMin
    BY <1>0, <2>3, CompareFacts
  <2> HIDE DEF x, d
  <2>5. clock < x /\ x <= clock + IntervalMax
    BY <1>0, <2>2, <2>4 DEF TimeInv
  <2>6. NextMatch' = x
    BY <2>1, <2>2, <2>3, <2>4, <2>5, WrittenMatches
  <2>7. x <= d \/ x <= clock + IntervalMin
    BY <1>0, <2>4 DEF TimeInv
  <2> QED
    BY <2>3, <2>6, <2>7 DEF d
<1>9. ASSUME NEW p \in Threads, NEW e \in Entries, hrt_cancel(p, e)
      PROVE  HeadInv'
  <2>1. UNCHANGED <<clock, ccr>> /\ (Quiet' => Quiet)
    BY <1>9 DEF hrt_cancel, Quiet, InSection
  <2>2. callout_queue' # <<>> =>
          /\ callout_queue # <<>>
          /\ deadline[callout_queue[1]] <= deadline'[callout_queue'[1]]
    BY <1>9, CancelOK DEF hrt_cancel
  <2> QED
    BY <2>1, <2>2, HeadFrame
<1>10. ASSUME isr' # "off" PROVE HeadInv'
  BY <1>10 DEF HeadInv, Quiet
<1>11. CASE hrt_call_reschedule
  <2> SUFFICES ASSUME callout_queue' # <<>>
               PROVE  \/ NextMatch' <= deadline'[callout_queue'[1]]
                      \/ NextMatch' <= clock' + IntervalMin
    BY DEF HeadInv
  <2> DEFINE x == NextCompare(callout_queue, deadline, clock)
             d == deadline[callout_queue[1]]
  <2>1. ccr' = x % Period /\ UNCHANGED <<clock, callout_queue, deadline>>
    BY <1>11, ReadFacts DEF hrt_call_reschedule
  <2>2. /\ x \in Nat /\ clock + IntervalMin <= x /\ x <= clock + IntervalMax
        /\ x <= d \/ x <= clock + IntervalMin
    BY <1>0, <2>1, CompareFacts
  <2> HIDE DEF x, d
  <2>3. clock < x
    BY <1>0, <2>2
  <2>4. NextMatch' = x
    BY <2>1, <2>2, <2>3, WrittenMatches
  <2> QED
    BY <2>1, <2>2, <2>4 DEF d
<1>12. CASE Isr
  <2>1. hrt_call_reschedule \/ isr' # "off"
    BY <1>12 DEF Isr, hrt_tim_isr, hrt_call_invoke, CalloutReturns,
                 CalloutCancels, hrt_call_delay, CalloutCalls, Reenter
  <2> QED
    BY <1>10, <1>11, <2>1
<1> QED
  BY <1>2, <1>3, <1>4, <1>5, <1>6, <1>7, <1>8, <1>9, <1>12 DEF Next, Thread

-----------------------------------------------------------------------------
(* Either build.                                                           *)

(* The time that is read may be wrong, but is not 0. *)
LEMMA ReadIsPositive ==
  ASSUME TypeOK, ArgumentInv, StartInv
  PROVE  AbsoluteTime > 0
<1> DEFINE c == Count
<1>1. /\ base_time \in Nat /\ last_count \in Nat /\ c \in Nat
      /\ clock \in Nat /\ clock >= 1 /\ busy \in Nat /\ busy <= Late
      /\ Period \in Nat \ {0} /\ Late \in Nat /\ First \in Nat
      /\ First + Late < Period
  BY NumberFacts, Constants, Remainder DEF Count, ArgumentInv, StartInv
<1>2. CASE LastRead = 0
  <2>1. base_time = 0 /\ clock < Period
    BY <1>1, <1>2 DEF StartInv, LastRead
  <2>2. clock \in 0..(Period - 1) /\ clock = Period * 0 + clock
    BY <1>1, <2>1
  <2>3. c = clock
    BY <1>1, <2>2, OneRemainder DEF Count
  <2> HIDE DEF c
  <2> QED
    BY <1>1, <2>1, <2>3 DEF AbsoluteTime, c
<1>3. CASE LastRead # 0
  <2>1. base_time + last_count > 0
    BY <1>1, <1>3 DEF LastRead
  <2>2. AbsoluteTime = base_time + c + (IF c < last_count THEN Period ELSE 0)
    BY DEF AbsoluteTime, Wrapped
  <2> HIDE DEF c
  <2> QED
    BY <1>1, <2>1, <2>2
<1> QED
  BY <1>2, <1>3

(* Once the time has been read, it is known to have been. *)
LEMMA StartIsOver ==
  ASSUME TypeOK, ArgumentInv, StartInv, busy' <= Late,
         ReadTime \/ (UNCHANGED baseVars /\ LastRead # 0)
  PROVE  StartInv'
<1>1. AbsoluteTime \in Nat /\ AbsoluteTime # 0
  BY ReadIsPositive, ReadTypes
<1>2. LastRead' # 0
  BY <1>1, ReadTypes DEF LastRead, baseVars
<1> QED
  BY <1>2 DEF StartInv

(* A step that takes no time, and after which the handler is as it was. *)
LEMMA StartFrame ==
  ASSUME TypeOK, StartInv, UNCHANGED <<clock, ccr, irq, busy, baseVars, isr>>,
         \A p \in Threads : ~Rescheduling(p) => ~Rescheduling(p)'
  PROVE  StartInv'
  BY DEF StartInv, LastRead, baseVars

(* Every step keeps StartInv. *)
LEMMA StartStep ==
  ASSUME ListInv, StartInv, Next
  PROVE  StartInv'
<1> USE DEF ListInv
<1>0. /\ clock \in Nat /\ busy \in Nat /\ busy <= Late
      /\ First \in Nat /\ Late \in Nat /\ Period \in Nat \ {0}
      /\ First + Late < Period
  BY NumberFacts, Constants DEF StartInv
<1>1. CASE Tick
  <2>1. /\ busy < Late /\ clock' = clock + 1
        /\ irq' = (irq \/ (clock + 1) % Period = ccr)
        /\ busy' = IF Occupied THEN busy + 1 ELSE 0
        /\ UNCHANGED <<ccr, baseVars, pc, isr>>
    BY <1>1 DEF Tick, threadVars, isrVars
  <2>2. busy' <= Late
    BY <1>0, <2>1
  <2>3. ASSUME LastRead' = 0
        PROVE  /\ \A p \in Threads : ~Rescheduling(p)'
               /\ isr' \in {"off", "invoke"} /\ ccr' = First
               /\ clock' >= First => /\ irq' \/ isr' = "invoke"
                                     /\ clock' <= First + busy'
    <3>1. LastRead = 0
      BY <2>1, <2>3 DEF LastRead, baseVars
    <3>2. /\ \A p \in Threads : ~Rescheduling(p)
          /\ isr \in {"off", "invoke"} /\ ccr = First
          /\ clock >= First => /\ irq \/ isr = "invoke"
                               /\ clock <= First + busy
      BY <3>1 DEF StartInv
    <3>3. /\ \A p \in Threads : ~Rescheduling(p)'
          /\ isr' \in {"off", "invoke"} /\ ccr' = First
      BY <2>1, <3>2 DEF Rescheduling
    <3>4. CASE clock >= First
      <4>1. Occupied /\ (irq \/ isr = "invoke")
        BY <3>2, <3>4 DEF Occupied
      <4>2. busy' = busy + 1 /\ (irq' \/ isr' = "invoke")
        BY <2>1, <4>1
      <4>3. clock' <= First + busy'
        BY <1>0, <2>1, <3>2, <3>4, <4>2
      <4> QED
        BY <3>3, <4>2, <4>3
    <3>5. CASE clock + 1 = First
      <4>1. First \in 0..(Period - 1) /\ First = Period * 0 + First
        BY <1>0
      <4>2. (clock + 1) % Period = First
        BY <1>0, <3>5, <4>1, OneRemainder
      <4>3. irq'
        BY <2>1, <3>2, <4>2
      <4>4. busy' \in Nat
        BY <1>0, <2>1
      <4>5. clock' <= First + busy'
        BY <1>0, <2>1, <3>5, <4>4
      <4> QED
        BY <3>3, <4>3, <4>5
    <3>6. CASE clock + 1 < First
      <4>1. ~(clock' >= First)
        BY <1>0, <2>1, <3>6
      <4> QED
        BY <3>3, <4>1
    <3> QED
      BY <1>0, <3>4, <3>5, <3>6
  <2> QED
    BY <2>2, <2>3 DEF StartInv
<1>2. CASE Settle
  <2>1. /\ ~irq /\ isr = "off" /\ busy' = 0
        /\ UNCHANGED <<clock, ccr, irq, baseVars, pc, isr>>
    BY <1>2 DEF Settle, Occupied, threadVars, isrVars
  <2>2. busy' <= Late
    BY <1>0, <2>1
  <2> QED
    BY <2>1, <2>2 DEF StartInv, LastRead, baseVars, Rescheduling
<1>3. ASSUME busy' = busy, ReadTime \/ (UNCHANGED baseVars /\ LastRead # 0)
      PROVE  StartInv'
  BY <1>0, <1>3, StartIsOver
<1>4. ASSUME NEW p \in Threads,
             \/ hrt_absolute_time(p) \/ RescheduleRead(p)
             \/ \E e \in Entries, delay \in Delays :
                  \/ hrt_call_after(p, e, delay)
                  \/ \E i \in Intervals : hrt_call_every(p, e, delay, i)
      PROVE  StartInv'
  BY <1>3, <1>4 DEF hrt_absolute_time, RescheduleRead, hrt_call_after,
                    hrt_call_every, CallInternal, hwVars
<1>5. ASSUME NEW p \in Threads, NEW e \in Entries, NEW delay \in Delays,
             hrt_call_at(p, e, clock + delay)
      PROVE  StartInv'
  BY <1>5, StartFrame DEF hrt_call_at, CallInternal, hwVars, isrVars, TypeOK,
                          Rescheduling
<1>6. ASSUME NEW p \in Threads, hrt_call_internal(p) PROVE StartInv'
  BY <1>6, StartFrame DEF hrt_call_internal, hwVars, isrVars, TypeOK,
                          Rescheduling
<1>7. ASSUME NEW p \in Threads, ReschedulePeek(p) \/ RescheduleWrite(p)
      PROVE  StartInv'
  <2>1. Rescheduling(p) /\ busy' = busy /\ UNCHANGED baseVars
    BY <1>7 DEF ReschedulePeek, RescheduleWrite, RescheduleDone, Runs, hwVars,
                Rescheduling
  <2>2. LastRead # 0
    BY <2>1 DEF StartInv
  <2> QED
    BY <1>3, <2>1, <2>2
<1>8. ASSUME NEW p \in Threads, NEW e \in Entries, hrt_cancel(p, e)
      PROVE  StartInv'
  BY <1>8, StartFrame DEF hrt_cancel, hwVars, isrVars, threadVars, Rescheduling
<1>9. CASE hrt_tim_isr
  BY <1>9 DEF hrt_tim_isr, StartInv, LastRead, baseVars, threadVars,
              Rescheduling
<1>10. CASE hrt_call_invoke \/ hrt_call_reschedule
  BY <1>3, <1>10 DEF hrt_call_invoke, hrt_call_reschedule, hwVars
<1>11. ASSUME isr \in {"callout", "after"}, busy' = busy,
              UNCHANGED baseVars \/ ReadTime
       PROVE  StartInv'
  <2>1. LastRead # 0
    BY <1>11 DEF StartInv
  <2> QED
    BY <1>3, <1>11, <2>1
<1>12. CASE \/ CalloutReturns
            \/ \E e \in Entries : CalloutCancels(e)
            \/ \E delay \in Delays : hrt_call_delay(delay)
  BY <1>11, <1>12 DEF CalloutReturns, CalloutCancels, hrt_call_delay, hwVars
<1>13. CASE \/ \E e \in Entries, delay \in Delays, i \in Intervals \cup {0} :
                 CalloutCalls(e, clock + delay, i)
            \/ Reenter
  BY <1>11, <1>13 DEF CalloutCalls, Reenter, Enter
<1> QED
  BY <1>1, <1>2, <1>4, <1>5, <1>6, <1>7, <1>8, <1>9, <1>10, <1>12, <1>13
     DEF Next, Thread, Isr

(* Every call of hrt_call_internal has an entry and a deadline. *)
LEMMA ArgumentStep ==
  ASSUME ListInv, StartInv, Next
  PROVE  ArgumentInv'
<1> USE DEF ListInv
<1>1. AbsoluteTime \in Nat \ {0} /\ clock \in Nat \ {0}
  BY ReadIsPositive, ReadTypes, NumberFacts DEF ArgumentInv
<1>2. clock' >= 1
  <2>1. clock' = clock \/ clock' = clock + 1
    BY HandlerFrame DEF Next, Tick, Settle, Thread, hrt_absolute_time,
       hrt_call_after, hrt_call_at, hrt_call_every, CallInternal,
       hrt_call_internal, RescheduleRead, ReschedulePeek, RescheduleWrite,
       RescheduleDone, hrt_cancel, hwVars
  <2> QED
    BY <1>1, <2>1
<1>3. ASSUME NEW p \in Threads, NEW e \in Entries, NEW t \in Nat \ {0}, NEW i,
             CallInternal(p, e, t, i)
      PROVE  ArgumentInv'
  BY <1>2, <1>3 DEF CallInternal, ArgumentInv, TypeOK
<1>4. ASSUME NEW p \in Threads, NEW e \in Entries, NEW delay \in Delays,
             \/ hrt_call_after(p, e, delay)
             \/ hrt_call_at(p, e, clock + delay)
             \/ \E i \in Intervals : hrt_call_every(p, e, delay, i)
      PROVE  ArgumentInv'
  <2>1. delay \in Nat
    BY Constants
  <2>2. AbsoluteTime + delay \in Nat \ {0} /\ clock + delay \in Nat \ {0}
    BY <1>1, <2>1
  <2> QED
    BY <1>3, <1>4, <2>2 DEF hrt_call_after, hrt_call_at, hrt_call_every
<1>5. ASSUME NEW p \in Threads, NEW l, l # "enter",
             pc' = [pc EXCEPT ![p] = l],
             \A r \in Threads \ {p} : entry'[r] = entry[r] /\ time'[r] = time[r]
      PROVE  ArgumentInv'
  BY <1>2, <1>5 DEF ArgumentInv, TypeOK
<1>6. ASSUME NEW p \in Threads,
             \/ hrt_call_internal(p) \/ RescheduleRead(p)
             \/ ReschedulePeek(p) \/ RescheduleWrite(p)
      PROVE  ArgumentInv'
  <2>1. CASE hrt_call_internal(p)
    <3> DEFINE l == IF callout_queue'[1] = entry[p] THEN "read" ELSE "idle"
    <3>1. l # "enter"
      OBVIOUS
    <3>2. /\ pc' = [pc EXCEPT ![p] = l]
          /\ entry' = [entry EXCEPT ![p] = NULL]
          /\ time' = [time EXCEPT ![p] = 0]
      BY <2>1 DEF hrt_call_internal
    <3> HIDE DEF l
    <3>3. \A r \in Threads \ {p} : entry'[r] = entry[r] /\ time'[r] = time[r]
      BY <3>2 DEF TypeOK
    <3> QED
      BY <1>5, <3>1, <3>2, <3>3
  <2>2. CASE RescheduleRead(p) \/ ReschedulePeek(p) \/ RescheduleWrite(p)
    <3>1. \E l \in {"peek", "write", "idle"} : pc' = [pc EXCEPT ![p] = l]
      BY <2>2 DEF RescheduleRead, ReschedulePeek, RescheduleWrite,
                  RescheduleDone
    <3>2. \A r \in Threads \ {p} : entry'[r] = entry[r] /\ time'[r] = time[r]
      BY <2>2 DEF RescheduleRead, ReschedulePeek, RescheduleWrite,
                  RescheduleDone, TypeOK
    <3> QED
      BY <1>5, <3>1, <3>2
  <2> QED
    BY <1>6, <2>1, <2>2
<1>7. ASSUME UNCHANGED threadVars PROVE ArgumentInv'
  BY <1>2, <1>7 DEF ArgumentInv, threadVars
<1>8. CASE Tick \/ Settle \/ Isr
  BY <1>7, <1>8, HandlerFrame DEF Tick, Settle
<1>9. ASSUME NEW p \in Threads,
             hrt_absolute_time(p) \/ \E e \in Entries : hrt_cancel(p, e)
      PROVE  ArgumentInv'
  BY <1>7, <1>9 DEF hrt_absolute_time, hrt_cancel
<1> QED
  BY <1>4, <1>6, <1>8, <1>9 DEF Next, Thread

-----------------------------------------------------------------------------
(* The theorems.                                                           *)

(* The invariant holds after hrt_init. *)
LEMMA InitHolds ==
  ASSUME Init
  PROVE  HrtInv
<1>1. /\ First \in Nat /\ 1 < First /\ First <= IntervalMax
      /\ IntervalMax \in Nat /\ IntervalMax < Period
      /\ Period \in Nat \ {0} /\ Late \in Nat
  BY Constants
<1>2. TypeOK
  <2>1. First \in 0..(Period - 1)
    BY <1>1
  <2>2. {clock, busy, base_time, last_count, now, saved} \subseteq Nat
    BY DEF Init
  <2>3. /\ {clock, busy, base_time, last_count, now, saved} \subseteq Nat
        /\ ccr \in 0..(Period - 1) /\ irq \in BOOLEAN
    BY <2>1, <2>2 DEF Init
  <2>4. /\ callout_queue \in Seq(Entries)
        /\ deadline \in [Entries -> Nat] /\ period \in [Entries -> Nat]
    BY DEF Init
  <2> QED
    BY <2>3, <2>4 DEF Init, TypeOK
<1>3. SectionInv
  BY DEF Init, SectionInv, InSection, Rescheduling
<1>4. NextMatch = First
  <2>1. /\ First - 1 - 1 \in 0..(Period - 1)
        /\ First - 1 - 1 = Period * 0 + (First - 1 - 1)
    BY <1>1
  <2>2. (First - 1 - 1) % Period = First - 1 - 1
    BY <1>1, <2>1, OneRemainder
  <2> QED
    BY <1>1, <2>2 DEF Init, NextMatch
<1>5. TimeInv
  <2>1. Whole(0)
    <3>1. 0 = Period * 0
      BY <1>1
    <3> QED
      BY <3>1 DEF Whole
  <2>2. LastRead = 0
    BY DEF Init, LastRead
  <2> QED
    BY <1>1, <1>4, <2>1, <2>2 DEF Init, TimeInv
<1>6. QueueIsSorted /\ CalloutInv /\ HeadInv
  BY DEF Init, QueueIsSorted, Distinct, CalloutInv, HeadInv
<1> QED
  BY <1>2, <1>3, <1>5, <1>6 DEF HrtInv

(* It depends on the variables only. *)
LEMMA StutterHolds ==
  ASSUME HrtInv, UNCHANGED vars
  PROVE  HrtInv'
<1> USE DEF HrtInv, vars
<1>1. TypeOK'
  BY DEF TypeOK
<1>2. SectionInv'
  BY DEF SectionInv, InSection, Rescheduling, LastRead, NextCompare
<1>3. TimeInv'
  BY DEF TimeInv, Calm, Rescheduling, LastRead, NextMatch, Whole
<1>4. QueueIsSorted' /\ CalloutInv'
  BY DEF QueueIsSorted, CalloutInv
<1>5. HeadInv'
  BY DEF HeadInv, Quiet, InSection, NextMatch
<1> QED
  BY <1>1, <1>2, <1>3, <1>4, <1>5

(***************************************************************************)
(* HrtInv is inductive in the build with CONFIG_HRT_PRIMASK_CONTROL, for   *)
(* any threads, entries, delays and intervals and for any constants in the *)
(* order the code demands of them.                                         *)
(***************************************************************************)
THEOREM HrtInvariant ==
  ASSUME Nested
  PROVE  Spec => []HrtInv
<1>1. Init => HrtInv
  BY InitHolds
<1>2. HrtInv /\ [Next]_vars => HrtInv'
  <2> SUFFICES ASSUME HrtInv, [Next]_vars PROVE HrtInv'
    OBVIOUS
  <2>1. CASE UNCHANGED vars
    BY <2>1, StutterHolds
  <2>2. CASE Next
    <3>1. TypeOK'
      BY <2>2, HrtList, TypeStep
    <3> QED
      BY <2>2, <3>1, HrtList, SectionStep, TimeStep, SortedStep, CalloutStep,
         HeadStep DEF HrtInv
  <2> QED
    BY <2>1, <2>2
<1> QED
  BY <1>1, <1>2, PTL DEF Spec

(***************************************************************************)
(* hrt_absolute_time always returns the true time: between two reads the   *)
(* counter never wraps twice, whatever callouts are entered, put off and   *)
(* cancelled.                                                              *)
(***************************************************************************)
THEOREM TimeIsAlwaysKept ==
  ASSUME Nested
  PROVE  Spec => []TimeIsKept
<1>1. HrtInv => TimeIsKept
  BY ReadFacts DEF HrtInv, TimeIsKept
<1> QED
  BY <1>1, HrtInvariant, PTL

(***************************************************************************)
(* What the list rests on is inductive in either build: it needs neither   *)
(* the exclusion of others from hrt_call_internal nor the right time, only *)
(* a time that is not 0.                                                   *)
(***************************************************************************)
THEOREM ListInvariant == Spec => [](ListInv /\ StartInv)
<1>1. Init => ListInv /\ StartInv
  <2> SUFFICES ASSUME Init PROVE ListInv /\ StartInv
    OBVIOUS
  <2>1. ListInv
    BY InitHolds, HrtList
  <2>2. StartInv
    <3>1. /\ First \in Nat /\ 1 < First /\ Late \in Nat
      BY Constants
    <3> QED
      BY <3>1 DEF Init, StartInv, Rescheduling
  <2> QED
    BY <2>1, <2>2
<1>2. (ListInv /\ StartInv) /\ [Next]_vars => (ListInv /\ StartInv)'
  <2> SUFFICES ASSUME ListInv, StartInv, [Next]_vars
               PROVE  ListInv' /\ StartInv'
    OBVIOUS
  <2>1. CASE UNCHANGED vars
    <3>1. TypeOK' /\ ArgumentInv'
      BY <2>1 DEF ListInv, TypeOK, ArgumentInv, vars
    <3>2. QueueIsSorted' /\ CalloutInv'
      BY <2>1 DEF ListInv, QueueIsSorted, CalloutInv, vars
    <3>3. StartInv'
      BY <2>1 DEF StartInv, Rescheduling, LastRead, vars
    <3> QED
      BY <3>1, <3>2, <3>3 DEF ListInv
  <2>2. CASE Next
    BY <2>2, TypeStep, ArgumentStep, SortedStep, CalloutStep, StartStep
       DEF ListInv
  <2> QED
    BY <2>1, <2>2
<1> QED
  BY <1>1, <1>2, PTL DEF Spec

(***************************************************************************)
(* The callout list stays sorted, without duplicates and with a deadline   *)
(* for every entry, in the default build too: there the time may fall back *)
(* and threads and the handler meet between the steps of a reschedule.     *)
(***************************************************************************)
THEOREM ListStaysSorted == Spec => []QueueIsSorted
<1>1. ListInv => QueueIsSorted
  BY DEF ListInv
<1> QED
  BY <1>1, ListInvariant, PTL

(***************************************************************************)
(* The variables have their types in either build.                         *)
(***************************************************************************)
THEOREM TypeCorrect == Spec => []TypeOK
<1>1. ListInv => TypeOK
  BY DEF ListInv
<1> QED
  BY <1>1, ListInvariant, PTL

(***************************************************************************)
(* When nobody is at work, the compare interrupt comes in time for the     *)
(* first callout and within HRT_INTERVAL_MAX.                              *)
(***************************************************************************)
THEOREM RegisterIsArmed ==
  ASSUME Nested
  PROVE  Spec => []ArmedForHead
<1>1. HrtInv => ArmedForHead
  <2> SUFFICES ASSUME HrtInv, ~Occupied PROVE
         /\ NextMatch <= clock + IntervalMax
         /\ callout_queue # <<>> =>
              \/ NextMatch <= deadline[Head(callout_queue)]
              \/ NextMatch <= clock + IntervalMin
    BY DEF ArmedForHead
  <2>1. \A p \in Threads : ~InSection(p)
    BY MaskFacts DEF Occupied
  <2>2. Calm /\ Quiet
    BY <2>1, AloneIsCalm DEF Occupied, Calm, Quiet
  <2>3. NextMatch <= LastRead + IntervalMax /\ LastRead <= clock
    BY <2>2 DEF HrtInv, TimeInv
  <2>4. NextMatch <= clock + IntervalMax
    BY <2>3, NumberFacts, MatchIsAhead, Constants DEF HrtInv
  <2>5. callout_queue # <<>> => Head(callout_queue) = callout_queue[1]
    BY DEF HrtInv, TypeOK
  <2> QED
    BY <2>2, <2>4, <2>5 DEF HrtInv, HeadInv
<1> QED
  BY <1>1, HrtInvariant, PTL
=============================================================================
