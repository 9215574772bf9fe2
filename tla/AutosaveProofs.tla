--------------------------- MODULE AutosaveProofs ---------------------------
(***************************************************************************)
(* The work queue of WQueue with the parameters' autosave work, for any    *)
(* works, delays, periods and ticks.  The list is given as a sequence that *)
(* its links spell.  How long a work waits is bounded by what may run      *)
(* before it, which the delays, the period and the length of a tick have   *)
(* to leave room for in the range of the clock (ClockIsLong): a work that  *)
(* waited for a whole turn of the clock would look as if just queued.      *)
(***************************************************************************)
EXTENDS Autosave, FifoOps, SequenceTheorems, FiniteSetTheorems,
        WellFoundedInduction, TLAPS

\* There are N works.
N == Cardinality(Works)

-----------------------------------------------------------------------------
(* The inductive invariants.                                               *)

Links == [head : Works \cup {NULL}, tail : Works \cup {NULL},
          flink : [Works -> Works \cup {NULL}],
          blink : [Works -> Works \cup {NULL}]]

\* The list l is s, and holds the works of L.
Spells(s, l, L) ==
  /\ s \in Seq(Works)
  /\ Distinct(s)
  /\ \A w \in Works : Has(s, w) <=> w \in L
  /\ l.head = IF Len(s) = 0 THEN NULL ELSE s[1]
  /\ l.tail = IF Len(s) = 0 THEN NULL ELSE s[Len(s)]
  /\ \A k \in 1..Len(s) :
       /\ l.flink[s[k]] = IF k = Len(s) THEN NULL ELSE s[k + 1]
       /\ l.blink[s[k]] = IF k = 1 THEN NULL ELSE s[k - 1]

\* What the thread, the callers and the worker know of each other.
PhaseInv ==
  /\ tpc = "run" <=> work # NULL
  /\ stage # "start" => tpc = "run" /\ work = autosave_work
  /\ filling \subseteq worker
  /\ setting => autosave_work \in worker /\ stage # "requeue"
  /\ stage = "requeue" => autosave_work \in worker
  /\ autosave_work \in worker => autosave_scheduled
  /\ autosave_scheduled =>
       autosave_work \in worker \/ (work = autosave_work /\ stage = "start")
  /\ changed => autosave_scheduled
  /\ unsaved => changed \/ missed \/ stage = "save"
  /\ autosave_disabled => missed

\* The age of a listed work is what has passed on the clock, in one turn.
AgeInv ==
  \A w \in Listed :
    \/ age[w] = Far
    \/ clock - qtime[w] = age[w]
    \/ clock - qtime[w] = age[w] - ClockRange

\* SleepIsShort's bound, for a delay d.
Late(d) == Max({USEC_PER_TICK * d, WORKPERIOD}) + (USEC_PER_TICK - 1) \div 2

\* The time n workers take.
Runs(n) == MaxRun * n

\* No work waits for a whole turn of the clock, less half a tick.
ClockIsLong ==
  \A d \in Delays \cup {0} :
    Late(d) + Runs(N) + USEC_PER_TICK \div 2 < ClockRange

\* How long the thread is not going to look at the list.
BusyAt(pc, r, n) ==
  IF pc = "run" THEN MaxRun - r ELSE IF pc = "sleep" THEN n ELSE 0

Busy == BusyAt(tpc, ran, next)

\* The k-th work of the list waits for those before it, but not for those
\* behind it, and is not slept past.
Waits(w, k) ==
  /\ age[w] + Busy + Runs(k - 1) <= Late(delay[w]) + Runs(N)
  /\ tpc = "sleep" => age[w] + next <= Late(delay[w])

WaitInv(s) == \A k \in 1..Len(s) : Waits(s[k], k)

ListInv ==
  \E s \in Seq(Works) : Spells(s, q, Listed) /\ (ClockIsLong => WaitInv(s))

Inv ==
  /\ TypeOK
  /\ q \in Links
  /\ ~collided => PhaseInv /\ AgeInv /\ ListInv

-----------------------------------------------------------------------------
(* Numbers.                                                                *)

(* The constants, one by one. *)
LEMMA Constants ==
  /\ N \in Nat /\ IsFiniteSet(Works) /\ NULL \notin Works
  /\ MaxRun \in Nat /\ Delays \subseteq Nat
  /\ USEC_PER_TICK \in Nat \ {0} /\ WORKPERIOD \in Nat \ {0}
  /\ ClockRange \in Nat \ {0} /\ Far = ClockRange
  /\ autosave_work \in Works /\ autosave_work # NULL
  /\ autosave_work \notin Others /\ Others \subseteq Works
<1>1. N \in Nat
  BY WQueueConstants, FS_CardinalityType DEF N
<1> QED
  BY <1>1, WQueueConstants, AutosaveConstants DEF Far, Others

(* A set of numbers has a least one. *)
LEMMA LeastNumber ==
  ASSUME NEW T \in SUBSET Nat, NEW m \in T
  PROVE  \E x \in T : \A y \in T : x <= y
<1> DEFINE R == {ss \in Nat \X Nat : ss[1] < ss[2]}
<1>1. IsWellFoundedOn(R, Nat)
  BY NatLessThanWellFounded DEF OpToRel
<1>2. PICK x \in T : \A y \in T : ~(<<y, x>> \in R)
  BY <1>1, WFMin
<1>3. ASSUME NEW y \in T PROVE x <= y
  <2>1. y \in Nat /\ x \in Nat
    OBVIOUS
  <2>2. ~(y < x)
    BY <1>2, <2>1
  <2> QED
    BY <2>1, <2>2
<1> QED
  BY <1>3

(* The least of a set of numbers is one of them. *)
LEMMA MinIs ==
  ASSUME NEW T \in SUBSET Nat, NEW m \in T
  PROVE  Min(T) \in T /\ \A y \in T : Min(T) <= y
<1>1. \E x \in T : \A y \in T : x <= y
  BY LeastNumber
<1> QED
  BY <1>1 DEF Min

(* The greater of two numbers. *)
LEMMA MaxOfTwo ==
  ASSUME NEW a \in Nat, NEW b \in Nat
  PROVE  /\ Max({a, b}) \in Nat
         /\ a <= Max({a, b}) /\ b <= Max({a, b})
<1>1. \E x \in {a, b} : \A y \in {a, b} : x >= y
  OBVIOUS
<1>2. Max({a, b}) \in {a, b} /\ \A y \in {a, b} : Max({a, b}) >= y
  BY <1>1 DEF Max
<1> HIDE <1>1
<1> QED
  BY <1>2

(* A product of numbers, and what one more adds to it. *)
LEMMA Times ==
  ASSUME NEW a \in Nat, NEW n \in Nat
  PROVE  a * n \in Nat /\ a * (n + 1) = a * n + a
  OBVIOUS

(* A product grows with its factor. *)
LEMMA TimesGrows ==
  ASSUME NEW a \in Nat, NEW m \in Nat, NEW n \in Nat, m <= n
  PROVE  a * m <= a * n
<1> DEFINE d == n - m
<1>1. d \in Nat /\ n = m + d
  OBVIOUS
<1> HIDE DEF d
<1>2. a * (m + d) = a * m + a * d /\ a * d \in Nat /\ a * m \in Nat
  BY <1>1
<1> QED
  BY <1>1, <1>2

-----------------------------------------------------------------------------
(* The list.                                                               *)

(* A list without repetition is no longer than the works are many. *)
LEMMA ShortList ==
  ASSUME NEW s \in Seq(Works), Distinct(s)
  PROVE  Len(s) \in Nat /\ Len(s) <= N
<1>1. Len(s) \in Nat /\ s \in [1..Len(s) -> Works]
  OBVIOUS
<1>2. s \in Injection(1..Len(s), Works)
  BY <1>1 DEF Distinct, Injection, IsInjective
<1>3. IsFiniteSet(1..Len(s)) /\ Cardinality(1..Len(s)) = Len(s)
  BY <1>1, FS_Interval
<1>4. Cardinality(1..Len(s)) <= Cardinality(Works)
  BY <1>2, Constants, FS_Injection
<1> QED
  BY <1>1, <1>3, <1>4 DEF N

(* A work that is not in the list goes to its end. *)
LEMMA AddlastSpells ==
  ASSUME NEW l \in Links, NEW s, NEW L, Spells(s, l, L),
         NEW w \in Works, w \notin L
  PROVE  /\ dq_addlast(w, l) \in Links
         /\ Spells(Append(s, w), dq_addlast(w, l), L \cup {w})
<1> DEFINE n == Len(s)
           t == Append(s, w)
           a == dq_addlast(w, l)
<1>1. /\ n \in Nat /\ s \in Seq(Works)
      /\ \A k \in 1..n : s[k] \in Works /\ s[k] # w
  BY DEF Spells, Has
<1>2. /\ t \in Seq(Works) /\ Len(t) = n + 1 /\ t[n + 1] = w
      /\ \A k \in 1..n : t[k] = s[k]
  BY <1>1
<1>3. Distinct(t)
  BY <1>1, <1>2 DEF Spells, Distinct
<1>4. \A x \in Works : Has(t, x) <=> x \in L \cup {w}
  <2>1. ASSUME NEW x \in Works, Has(t, x) PROVE x \in L \cup {w}
    BY <1>1, <1>2, <2>1 DEF Spells, Has
  <2>2. ASSUME NEW x \in Works, x \in L \cup {w} PROVE Has(t, x)
    <3>1. CASE x = w
      BY <1>1, <1>2, <3>1 DEF Has
    <3>2. CASE x # w
      <4>1. PICK k \in 1..n : s[k] = x
        BY <2>2, <3>2 DEF Spells, Has
      <4> QED
        BY <1>1, <1>2, <4>1 DEF Has
    <3> QED
      BY <3>1, <3>2
  <2> QED
    BY <2>1, <2>2
<1>5. NULL \notin Works
  BY Constants
<1>6. CASE n = 0
  <2>1. l.head = NULL /\ l.tail = NULL
    BY <1>6 DEF Spells
  <2>2. a = [head |-> w, tail |-> w, flink |-> [l.flink EXCEPT ![w] = NULL],
             blink |-> [l.blink EXCEPT ![w] = NULL]]
    BY <2>1 DEF dq_addlast
  <2>3. a \in Links
    BY <2>2 DEF Links
  <2>4. /\ a.head = w /\ a.tail = w
        /\ a.flink[w] = NULL /\ a.blink[w] = NULL
    BY <2>2 DEF Links
  <2> QED
    BY <1>1, <1>2, <1>3, <1>4, <1>6, <2>3, <2>4 DEF Spells
<1>7. CASE n # 0
  <2>1. n \in 1..n /\ l.head = s[1] /\ l.tail = s[n] /\ s[1] \in Works
    BY <1>1, <1>7 DEF Spells
  <2>2. a = [head |-> l.head, tail |-> w,
             blink |-> [l.blink EXCEPT ![w] = s[n]],
             flink |-> [[l.flink EXCEPT ![w] = NULL] EXCEPT ![s[n]] = w]]
    BY <1>5, <2>1 DEF dq_addlast
  <2>3. a \in Links
    BY <1>1, <2>1, <2>2 DEF Links
  <2>4. /\ a.head = s[1] /\ a.tail = w
        /\ a.flink[w] = NULL /\ a.blink[w] = s[n]
        /\ a.flink[s[n]] = w
        /\ \A x \in Works \ {w, s[n]} : a.flink[x] = l.flink[x]
        /\ \A x \in Works \ {w} : a.blink[x] = l.blink[x]
    BY <1>1, <2>1, <2>2 DEF Links
  <2> HIDE DEF a, t
  <2>5. ASSUME NEW k \in 1..(n + 1)
        PROVE  /\ a.flink[t[k]] = IF k = n + 1 THEN NULL ELSE t[k + 1]
               /\ a.blink[t[k]] = IF k = 1 THEN NULL ELSE t[k - 1]
    <3>1. CASE k = n + 1
      BY <1>1, <1>2, <1>7, <2>1, <2>4, <3>1
    <3>2. CASE k = n
      <4>1. l.blink[s[n]] = IF n = 1 THEN NULL ELSE s[n - 1]
        BY <2>1 DEF Spells
      <4> QED
        BY <1>1, <1>2, <1>7, <2>1, <2>4, <3>2, <4>1
    <3>3. CASE k < n
      <4>1. k \in 1..n /\ k + 1 \in 1..n /\ k # n
        BY <1>1, <3>3
      <4>2. s[k] # s[n]
        BY <2>1, <4>1 DEF Spells, Distinct
      <4>3. /\ l.flink[s[k]] = s[k + 1]
            /\ l.blink[s[k]] = IF k = 1 THEN NULL ELSE s[k - 1]
        BY <4>1 DEF Spells
      <4>4. a.flink[t[k]] = t[k + 1]
        BY <1>1, <1>2, <2>4, <4>1, <4>2, <4>3
      <4>5. a.blink[t[k]] = IF k = 1 THEN NULL ELSE t[k - 1]
        BY <1>1, <1>2, <2>4, <4>1, <4>3
      <4> QED
        BY <1>1, <4>1, <4>4, <4>5
    <3> QED
      BY <1>1, <3>1, <3>2, <3>3
  <2>6. t[1] = s[1] /\ Len(t) # 0
    BY <1>1, <1>2, <1>7
  <2>7. Spells(t, a, L \cup {w})
    BY <1>2, <1>3, <1>4, <2>4, <2>5, <2>6 DEF Spells
  <2> QED
    BY <2>3, <2>7 DEF a, t
<1> QED
  BY <1>6, <1>7

(* The links after a work with p before it and n behind it is taken out. *)
LEMMA RemLinks ==
  ASSUME NEW l \in Links, NEW w \in Works
  PROVE  /\ dq_rem(w, l) \in Links
         /\ dq_rem(w, l).head = IF l.blink[w] = NULL THEN l.flink[w] ELSE l.head
         /\ dq_rem(w, l).tail = IF l.flink[w] = NULL THEN l.blink[w] ELSE l.tail
         /\ \A x \in Works \ {w} :
              /\ dq_rem(w, l).flink[x] =
                   IF x = l.blink[w] THEN l.flink[w] ELSE l.flink[x]
              /\ dq_rem(w, l).blink[x] =
                   IF x = l.flink[w] THEN l.blink[w] ELSE l.blink[x]
<1> DEFINE p == l.blink[w]
           n == l.flink[w]
           u == Unlink(p, n, l)
<1>1. NULL \notin Works /\ p \in Works \cup {NULL} /\ n \in Works \cup {NULL}
  BY Constants DEF Links
<1> HIDE DEF p, n
<1>2. /\ u \in Links
      /\ u.head = IF p = NULL THEN n ELSE l.head
      /\ u.tail = IF n = NULL THEN p ELSE l.tail
  <2>1. (IF p = NULL THEN l.flink ELSE [l.flink EXCEPT ![p] = n])
          \in [Works -> Works \cup {NULL}]
    BY <1>1 DEF Links
  <2>2. (IF n = NULL THEN l.blink ELSE [l.blink EXCEPT ![n] = p])
          \in [Works -> Works \cup {NULL}]
    BY <1>1 DEF Links
  <2> QED
    BY <1>1, <2>1, <2>2 DEF Links, Unlink
<1>3. \A x \in Works :
        /\ u.flink[x] = IF x = p THEN n ELSE l.flink[x]
        /\ u.blink[x] = IF x = n THEN p ELSE l.blink[x]
  <2>1. ASSUME NEW x \in Works
        PROVE  u.flink[x] = IF x = p THEN n ELSE l.flink[x]
    BY <1>1 DEF Links, Unlink
  <2>2. ASSUME NEW x \in Works
        PROVE  u.blink[x] = IF x = n THEN p ELSE l.blink[x]
    BY <1>1 DEF Links, Unlink
  <2> QED
    BY <2>1, <2>2
<1> HIDE DEF u
<1>4. dq_rem(w, l) = [u EXCEPT !.flink[w] = NULL, !.blink[w] = NULL]
  BY DEF dq_rem, p, n, u
<1>5. dq_rem(w, l) = [head |-> u.head, tail |-> u.tail,
                      flink |-> [u.flink EXCEPT ![w] = NULL],
                      blink |-> [u.blink EXCEPT ![w] = NULL]]
  BY <1>2, <1>4 DEF Links
<1>6. dq_rem(w, l) \in Links
  BY <1>2, <1>5 DEF Links
<1>7. \A x \in Works \ {w} : /\ dq_rem(w, l).flink[x] = u.flink[x]
                             /\ dq_rem(w, l).blink[x] = u.blink[x]
  BY <1>2, <1>5 DEF Links
<1>8. dq_rem(w, l).head = u.head /\ dq_rem(w, l).tail = u.tail
  BY <1>5
<1> QED
  BY <1>2, <1>3, <1>6, <1>7, <1>8 DEF p, n

(* Leaving out the k-th work gives a list, one shorter. *)
LEMMA WithoutIs ==
  ASSUME NEW s \in Seq(Works), NEW k \in 1..Len(s)
  PROVE  /\ Without(s, k) \in Seq(Works)
         /\ Len(s) \in Nat /\ Len(Without(s, k)) = Len(s) - 1
         /\ \A j \in 1..(Len(s) - 1) :
              Without(s, k)[j] = IF j < k THEN s[j] ELSE s[j + 1]
<1> DEFINE t == Without(s, k)
<1>1. Len(s) \in Nat /\ Len(s) >= 1
  OBVIOUS
<1>2. \A j \in 1..(Len(s) - 1) : t[j] = IF j < k THEN s[j] ELSE s[j + 1]
  BY DEF Without
<1>3. \A j \in 1..(Len(s) - 1) : t[j] \in Works
  BY <1>1, <1>2
<1>4. t \in [1..(Len(s) - 1) -> Works]
  BY <1>3 DEF Without
<1>5. t \in Seq(Works) /\ Len(t) = Len(s) - 1
  BY <1>1, <1>4
<1> QED
  BY <1>1, <1>2, <1>5

(* dq_rem takes the k-th work out of the list. *)
LEMMA RemSpells ==
  ASSUME NEW l \in Links, NEW s, NEW L, Spells(s, l, L), NEW k \in 1..Len(s)
  PROVE  /\ dq_rem(s[k], l) \in Links
         /\ Spells(Without(s, k), dq_rem(s[k], l), L \ {s[k]})
<1> DEFINE n == Len(s)
           t == Without(s, k)
           w == s[k]
           r == dq_rem(w, l)
<1>1. /\ n \in Nat /\ s \in Seq(Works) /\ NULL \notin Works
      /\ \A j \in 1..n : s[j] \in Works
      /\ \A i, j \in 1..n : s[i] = s[j] => i = j
  BY Constants DEF Spells, Distinct
<1>2. /\ t \in Seq(Works) /\ Len(t) = n - 1
      /\ \A j \in 1..(n - 1) : t[j] = IF j < k THEN s[j] ELSE s[j + 1]
  BY <1>1, WithoutIs
<1>3. /\ w \in Works
      /\ l.flink[w] = IF k = n THEN NULL ELSE s[k + 1]
      /\ l.blink[w] = IF k = 1 THEN NULL ELSE s[k - 1]
  BY <1>1 DEF Spells
<1>4. /\ r \in Links
      /\ r.head = IF l.blink[w] = NULL THEN l.flink[w] ELSE l.head
      /\ r.tail = IF l.flink[w] = NULL THEN l.blink[w] ELSE l.tail
      /\ \A x \in Works \ {w} :
           /\ r.flink[x] = IF x = l.blink[w] THEN l.flink[w] ELSE l.flink[x]
           /\ r.blink[x] = IF x = l.flink[w] THEN l.blink[w] ELSE l.blink[x]
  BY <1>3, RemLinks
<1> HIDE DEF t, r
<1>5. \A j \in 1..(n - 1) :
        t[j] = s[IF j < k THEN j ELSE j + 1]
        /\ (IF j < k THEN j ELSE j + 1) \in (1..n) \ {k}
  BY <1>1, <1>2
<1>6. Distinct(t)
  BY <1>1, <1>2, <1>5 DEF Distinct
<1>7. \A x \in Works : Has(t, x) <=> x \in L \ {w}
  <2>1. ASSUME NEW x \in Works, Has(t, x) PROVE x \in L \ {w}
    <3>1. PICK j \in 1..(n - 1) : t[j] = x
      BY <1>2, <2>1 DEF Has
    <3>2. PICK i \in (1..n) \ {k} : x = s[i]
      BY <1>5, <3>1
    <3> QED
      BY <1>1, <3>2 DEF Spells, Has
  <2>2. ASSUME NEW x \in Works, x \in L \ {w} PROVE Has(t, x)
    <3>1. PICK i \in 1..n : s[i] = x
      BY <2>2 DEF Spells, Has
    <3>2. i # k
      BY <2>2, <3>1
    <3>3. CASE i < k
      BY <1>1, <1>2, <3>1, <3>3 DEF Has
    <3>4. CASE i > k
      <4>1. i - 1 \in 1..(n - 1) /\ ~(i - 1 < k) /\ (i - 1) + 1 = i
        BY <1>1, <3>4
      <4>2. t[i - 1] = x
        BY <1>2, <3>1, <4>1
      <4> QED
        BY <1>2, <4>1, <4>2 DEF Has
    <3> QED
      BY <1>1, <3>2, <3>3, <3>4
  <2> QED
    BY <2>1, <2>2
<1>8. r.head = IF Len(t) = 0 THEN NULL ELSE t[1]
  <2>1. CASE k = 1
    BY <1>1, <1>2, <1>3, <1>4, <2>1
  <2>2. CASE k # 1
    <3>1. k - 1 \in 1..n /\ 1 \in 1..(n - 1) /\ 1 < k
      BY <1>1, <2>2
    <3>2. l.blink[w] # NULL /\ l.head = s[1] /\ t[1] = s[1]
      BY <1>1, <1>2, <1>3, <2>2, <3>1 DEF Spells
    <3> QED
      BY <1>1, <1>2, <1>4, <3>1, <3>2
  <2> QED
    BY <2>1, <2>2
<1>9. r.tail = IF Len(t) = 0 THEN NULL ELSE t[Len(t)]
  <2>1. CASE k = n
    BY <1>1, <1>2, <1>3, <1>4, <2>1
  <2>2. CASE k # n
    <3>1. k + 1 \in 1..n /\ n - 1 \in 1..(n - 1) /\ ~(n - 1 < k) /\ (n - 1) + 1 = n
      BY <1>1, <2>2
    <3>2. l.flink[w] # NULL /\ l.tail = s[n] /\ t[n - 1] = s[n]
      BY <1>1, <1>2, <1>3, <2>2, <3>1 DEF Spells
    <3> QED
      BY <1>1, <1>2, <1>4, <3>1, <3>2
  <2> QED
    BY <2>1, <2>2
<1>10. ASSUME NEW j \in 1..(n - 1)
       PROVE  r.flink[t[j]] = IF j = n - 1 THEN NULL ELSE t[j + 1]
  <2> DEFINE i == IF j < k THEN j ELSE j + 1
  <2>1. t[j] = s[i] /\ i \in (1..n) \ {k} /\ s[i] \in Works \ {w}
    BY <1>1, <1>5
  <2>2. l.flink[s[i]] = IF i = n THEN NULL ELSE s[i + 1]
    BY <2>1 DEF Spells
  <2>3. CASE i = k - 1
    <3>1. r.flink[t[j]] = l.flink[w] /\ j = k - 1
      BY <1>1, <1>3, <1>4, <2>1, <2>3
    <3>2. j + 1 = k /\ ~(k < k)
      BY <1>1, <3>1
    <3> QED
      BY <1>1, <1>2, <1>3, <3>1, <3>2
  <2>4. CASE i # k - 1
    <3>1. s[i] # l.blink[w]
      BY <1>1, <1>3, <2>1, <2>4
    <3>2. r.flink[t[j]] = IF i = n THEN NULL ELSE s[i + 1]
      BY <1>4, <2>1, <2>2, <3>1
    <3>3. CASE j < k
      <4>1. i = j /\ j + 1 < k /\ j + 1 \in 1..(n - 1) /\ i # n /\ j # n - 1
        BY <1>1, <2>4, <3>3
      <4> QED
        BY <1>2, <3>2, <4>1
    <3>4. CASE ~(j < k)
      <4>1. i = j + 1 /\ ~(j + 1 < k) /\ (i = n <=> j = n - 1)
        BY <1>1, <3>4
      <4>2. CASE j = n - 1
        BY <3>2, <4>1, <4>2
      <4>3. CASE j # n - 1
        <5>1. j + 1 \in 1..(n - 1)
          BY <1>1, <4>3
        <5> QED
          BY <1>2, <3>2, <4>1, <4>3, <5>1
      <4> QED
        BY <4>2, <4>3
    <3> QED
      BY <3>3, <3>4
  <2> QED
    BY <2>3, <2>4
<1>11. ASSUME NEW j \in 1..(n - 1)
       PROVE  r.blink[t[j]] = IF j = 1 THEN NULL ELSE t[j - 1]
  <2> DEFINE i == IF j < k THEN j ELSE j + 1
  <2>1. t[j] = s[i] /\ i \in (1..n) \ {k} /\ s[i] \in Works \ {w}
    BY <1>1, <1>5
  <2>2. l.blink[s[i]] = IF i = 1 THEN NULL ELSE s[i - 1]
    BY <2>1 DEF Spells
  <2>3. CASE i = k + 1
    <3>1. r.blink[t[j]] = l.blink[w] /\ j = k
      BY <1>1, <1>3, <1>4, <2>1, <2>3
    <3>2. CASE k = 1
      BY <1>3, <3>1, <3>2
    <3>3. CASE k # 1
      <4>1. k - 1 \in 1..(n - 1) /\ k - 1 < k
        BY <1>1, <3>1, <3>3
      <4> QED
        BY <1>2, <1>3, <3>1, <3>3, <4>1
    <3> QED
      BY <3>2, <3>3
  <2>4. CASE i # k + 1
    <3>1. s[i] # l.flink[w]
      BY <1>1, <1>3, <2>1, <2>4
    <3>2. r.blink[t[j]] = IF i = 1 THEN NULL ELSE s[i - 1]
      BY <1>4, <2>1, <2>2, <3>1
    <3>3. CASE j < k
      <4>1. i = j
        BY <3>3
      <4>2. CASE j # 1
        <5>1. j - 1 \in 1..(n - 1) /\ j - 1 < k
          BY <1>1, <3>3, <4>2
        <5> QED
          BY <1>2, <3>2, <4>1, <4>2, <5>1
      <4> QED
        BY <3>2, <4>1, <4>2
    <3>4. CASE ~(j < k)
      <4>1. /\ i = j + 1 /\ j # 1 /\ j - 1 \in 1..(n - 1) /\ ~(j - 1 < k)
            /\ i # 1 /\ i - 1 = (j - 1) + 1
        BY <1>1, <2>4, <3>4
      <4> QED
        BY <1>2, <3>2, <4>1
    <3> QED
      BY <3>3, <3>4
  <2> QED
    BY <2>3, <2>4
<1>12. Spells(t, r, L \ {w})
  BY <1>2, <1>6, <1>7, <1>8, <1>9, <1>10, <1>11 DEF Spells
<1> QED
  BY <1>4, <1>12 DEF t, r

\* What defines Entry, which looks back one entry.
EntryStep(at) ==
  [k \in 0..N |-> IF k = 0 THEN q.head
                  ELSE IF at[k - 1] = NULL THEN NULL ELSE q.flink[at[k - 1]]]

(* The way of the thread leads through the list, and ends behind it. *)
LEMMA EntryIs ==
  ASSUME NEW s, NEW L, Spells(s, q, L)
  PROVE  Entry = [k \in 0..N |-> IF k < Len(s) THEN s[k + 1] ELSE NULL]
<1> DEFINE n == Len(s)
           f == [k \in 0..N |-> IF k < n THEN s[k + 1] ELSE NULL]
<1>1. /\ n \in Nat /\ N \in Nat /\ NULL \notin Works
      /\ \A k \in 1..n : s[k] \in Works
  BY Constants DEF Spells
<1>2. /\ q.head = IF n = 0 THEN NULL ELSE s[1]
      /\ \A k \in 1..n : q.flink[s[k]] = IF k = n THEN NULL ELSE s[k + 1]
  BY DEF Spells
<1>3. ASSUME NEW k \in 0..N, k # 0
      PROVE  f[k] = IF f[k - 1] = NULL THEN NULL ELSE q.flink[f[k - 1]]
  <2>1. k - 1 \in 0..N /\ (k - 1) + 1 = k
    BY <1>1, <1>3
  <2>2. CASE k - 1 < n
    <3>1. f[k - 1] = s[k] /\ k \in 1..n
      BY <1>1, <1>3, <2>1, <2>2
    <3>2. f[k - 1] # NULL /\ q.flink[f[k - 1]] = IF k = n THEN NULL ELSE s[k + 1]
      BY <1>1, <1>2, <3>1
    <3>3. k < n <=> k # n
      BY <1>1, <3>1
    <3> QED
      BY <3>2, <3>3
  <2>3. CASE ~(k - 1 < n)
    <3>1. f[k - 1] = NULL /\ ~(k < n)
      BY <1>1, <2>1, <2>3
    <3> QED
      BY <3>1
  <2> QED
    BY <2>2, <2>3
<1>4. f[0] = q.head
  BY <1>1, <1>2
<1>5. f = EntryStep(f)
  <2>1. \A k \in 0..N : f[k] = EntryStep(f)[k]
    BY <1>3, <1>4 DEF EntryStep
  <2> QED
    BY <2>1 DEF EntryStep
<1> HIDE DEF f
<1>6. Entry = CHOOSE at : at = EntryStep(at)
  BY DEF Entry, EntryStep, N
<1>7. Entry = EntryStep(Entry)
  BY <1>5, <1>6
<1> DEFINE T == {k \in 0..N : Entry[k] # f[k]}
<1>8. T = {}
  <2> SUFFICES ASSUME T # {} PROVE FALSE
    OBVIOUS
  <2>1. T \in SUBSET Nat
    BY <1>1
  <2>2. PICK k \in T : \A j \in T : k <= j
    BY <2>1, LeastNumber
  <2>3. CASE k = 0
    <3>1. Entry[0] = q.head
      BY <1>1, <1>7 DEF EntryStep
    <3> QED
      BY <1>4, <2>3, <3>1
  <2>4. CASE k # 0
    <3>1. k \in 0..N /\ k - 1 \in 0..N /\ ~(k <= k - 1)
      BY <1>1, <2>4
    <3>2. Entry[k - 1] = f[k - 1]
      BY <2>2, <3>1
    <3>3. Entry[k] = EntryStep(Entry)[k] /\ f[k] = EntryStep(f)[k]
      BY <1>5, <1>7
    <3>4. Entry[k] = f[k]
      BY <2>4, <3>1, <3>2, <3>3 DEF EntryStep
    <3> QED
      BY <3>4
  <2> QED
    BY <2>3, <2>4
<1>9. Entry = [k \in 0..N |-> Entry[k]]
  BY <1>7 DEF EntryStep
<1>10. Entry = [k \in 0..N |-> f[k]]
  BY <1>8, <1>9
<1> QED
  BY <1>10 DEF f

-----------------------------------------------------------------------------
(* The thread.                                                             *)

(* Division with remainder. *)
LEMMA Division ==
  ASSUME NEW a \in Nat, NEW b \in Nat \ {0}
  PROVE  /\ a \div b \in Nat
         /\ b * (a \div b) <= a /\ a < b * (a \div b) + b
  BY SMTT(30)

(* The types of the times. *)
LEMMA TimeTypes ==
  ASSUME TypeOK
  PROVE  /\ clock \in 0..(ClockRange - 1) /\ clock \in Nat
         /\ ran \in 0..MaxRun /\ next \in 0..WORKPERIOD
         /\ \A w \in Works :
              /\ qtime[w] \in 0..(ClockRange - 1) /\ qtime[w] \in Nat
              /\ age[w] \in 0..Far /\ age[w] \in Nat
              /\ delay[w] \in Delays \cup {0} /\ delay[w] \in Nat
<1>1. /\ clock \in 0..(ClockRange - 1) /\ qtime \in [Works -> 0..(ClockRange - 1)]
      /\ age \in [Works -> 0..Far] /\ delay \in [Works -> Delays \cup {0}]
      /\ ran \in 0..MaxRun /\ next \in 0..WORKPERIOD
  BY DEF TypeOK
<1>2. ClockRange \in Nat /\ Far = ClockRange /\ Delays \subseteq Nat
  BY Constants
<1>3. clock \in Nat
  BY <1>1, <1>2
<1>4. ASSUME NEW w \in Works
      PROVE  /\ qtime[w] \in 0..(ClockRange - 1) /\ qtime[w] \in Nat
             /\ age[w] \in 0..Far /\ age[w] \in Nat
             /\ delay[w] \in Delays \cup {0} /\ delay[w] \in Nat
  <2>1. qtime[w] \in 0..(ClockRange - 1) /\ age[w] \in 0..Far
        /\ delay[w] \in Delays \cup {0}
    BY <1>1
  <2>2. qtime[w] \in Nat
    BY <1>2, <2>1
  <2>3. age[w] \in Nat
    BY <1>2, <2>1 DEF Far
  <2>4. delay[w] \in Nat
    <3>1. delay[w] \in Delays \/ delay[w] = 0
      BY <2>1
    <3>2. Delays \subseteq Nat /\ 0 \in Nat
      BY Constants
    <3> QED
      BY <3>1, <3>2, Zenon
  <2> QED
    BY <2>1, <2>2, <2>3, <2>4
<1> QED
  BY <1>1, <1>3, <1>4

(* What Elapsed makes of the clock. *)
LEMMA ElapsedIs ==
  ASSUME TypeOK, NEW w \in Works
  PROVE  /\ clock \in Nat /\ qtime[w] \in Nat /\ delay[w] \in Nat
         /\ Elapsed(w) \in Nat /\ USEC_PER_TICK \div 2 \in Nat
         /\ clock - qtime[w] + USEC_PER_TICK \div 2 < 0 => Elapsed(w) = Far
         /\ clock - qtime[w] + USEC_PER_TICK \div 2 >= 0 =>
              /\ USEC_PER_TICK * Elapsed(w)
                   <= clock - qtime[w] + USEC_PER_TICK \div 2
              /\ clock - qtime[w] + USEC_PER_TICK \div 2
                   < USEC_PER_TICK * Elapsed(w) + USEC_PER_TICK
<1> DEFINE u == USEC_PER_TICK
           h == u \div 2
           sum == clock - qtime[w] + h
<1>1. u \in Nat \ {0} /\ ClockRange \in Nat \ {0} /\ Far = ClockRange
      /\ Delays \subseteq Nat
  BY Constants
<1>2. clock \in Nat /\ qtime[w] \in Nat /\ delay[w] \in Nat
  BY TimeTypes
<1>3. h \in Nat
  BY <1>1, Division
<1> HIDE DEF h
<1>4. sum \in Int
  BY <1>2, <1>3
<1>5. Elapsed(w) = IF sum < 0 THEN Far ELSE sum \div u
  BY DEF Elapsed, h
<1> HIDE DEF sum
<1>6. CASE sum < 0
  BY <1>1, <1>2, <1>3, <1>4, <1>5, <1>6 DEF sum, h
<1>7. CASE ~(sum < 0)
  <2>1. sum \in Nat /\ Elapsed(w) = sum \div u
    BY <1>4, <1>5, <1>7
  <2>2. /\ Elapsed(w) \in Nat
        /\ u * Elapsed(w) <= sum /\ sum < u * Elapsed(w) + u
    BY <1>1, <2>1, Division
  <2> QED
    BY <1>2, <1>3, <1>4, <1>7, <2>2 DEF sum, h
<1> QED
  BY <1>6, <1>7

(* The thread sleeps no longer than until the first of the works it passed. *)
LEMMA SoonestIs ==
  ASSUME TypeOK, NEW S \in SUBSET Works, \A w \in S : ~Ready(w)
  PROVE  /\ Soonest(S) \in 0..WORKPERIOD
         /\ \A w \in S : Remaining(w) \in Nat /\ Soonest(S) <= Remaining(w)
<1>1. next \in Nat /\ next <= WORKPERIOD /\ WORKPERIOD \in Nat
  BY Constants DEF TypeOK
<1>2. ASSUME NEW w \in S PROVE Remaining(w) \in Nat
  <2>1. USEC_PER_TICK \in Nat /\ delay[w] - Elapsed(w) \in Nat
    <3>1. Elapsed(w) \in Nat /\ delay[w] \in Nat /\ ~(Elapsed(w) >= delay[w])
      BY ElapsedIs DEF Ready
    <3> QED
      BY <3>1, Constants
  <2> QED
    BY <2>1, Times DEF Remaining
<1> DEFINE T == {next} \cup {Remaining(w) : w \in S}
<1>3. T \in SUBSET Nat /\ next \in T
  BY <1>1, <1>2
<1>4. Soonest(S) = Min(T)
  BY DEF Soonest
<1>5. Soonest(S) \in T /\ \A y \in T : Soonest(S) <= y
  BY <1>3, <1>4, MinIs
<1>6. Soonest(S) \in Nat /\ Soonest(S) <= next
  BY <1>3, <1>5
<1> QED
  BY <1>1, <1>2, <1>5, <1>6

(* The work that is taken out is the first of the list that is ready. *)
LEMMA ProcessTakes ==
  ASSUME TypeOK, NEW s, Spells(s, q, Listed),
         NEW k \in DOMAIN Entry, Process(k)
  PROVE  /\ k + 1 \in 1..Len(s) /\ Entry[k] = s[k + 1] /\ s[k + 1] \in Works
         /\ Ready(s[k + 1])
         /\ \A j \in 1..k : ~Ready(s[j])
         /\ next' \in 0..WORKPERIOD
<1>1. /\ N \in Nat /\ Len(s) \in Nat /\ s \in Seq(Works)
      /\ \A j \in 1..Len(s) : s[j] \in Works
  BY Constants DEF Spells
<1>2. Entry = [i \in 0..N |-> IF i < Len(s) THEN s[i + 1] ELSE NULL]
  BY EntryIs
<1>3. Len(s) <= N
  BY ShortList DEF Spells
<1>4. Entry[k] # NULL /\ Ready(Entry[k]) /\ \A j \in 0..(k - 1) : ~Ready(Entry[j])
  BY DEF Process, Due
<1>5. k \in 0..N /\ k < Len(s) /\ Entry[k] = s[k + 1] /\ k + 1 \in 1..Len(s)
  BY <1>1, <1>2, <1>4
<1>6. \A j \in 0..(k - 1) : Entry[j] = s[j + 1] /\ Entry[j] \in Works
  BY <1>1, <1>2, <1>3, <1>5
<1>7. \A j \in 1..k : ~Ready(s[j])
  <2> TAKE j \in 1..k
  <2>1. j - 1 \in 0..(k - 1) /\ (j - 1) + 1 = j
    BY <1>1, <1>5
  <2> QED
    BY <1>4, <1>6, <2>1
<1>8. /\ Passed(k) \in SUBSET Works
      /\ \A w \in Passed(k) : ~Ready(w)
  BY <1>4, <1>6 DEF Passed
<1>9. next' \in 0..WORKPERIOD
  <2>1. next' = Soonest(Passed(k))
    BY DEF Process
  <2> QED
    BY <1>8, <2>1, SoonestIs
<1> QED
  BY <1>1, <1>4, <1>5, <1>7, <1>9

(* The thread sleeps when none is ready, and not past the first. *)
LEMMA SleepPasses ==
  ASSUME TypeOK, NEW s, Spells(s, q, Listed), Sleep
  PROVE  /\ next' \in 0..WORKPERIOD
         /\ \A j \in 1..Len(s) :
              ~Ready(s[j]) /\ Remaining(s[j]) \in Nat /\ next' <= Remaining(s[j])
<1>1. /\ N \in Nat /\ Len(s) \in Nat /\ s \in Seq(Works) /\ NULL \notin Works
      /\ \A j \in 1..Len(s) : s[j] \in Works
  BY Constants DEF Spells
<1>2. Entry = [i \in 0..N |-> IF i < Len(s) THEN s[i + 1] ELSE NULL]
  BY EntryIs
<1>3. PICK k \in DOMAIN Entry :
        /\ Entry[k] = NULL
        /\ \A j \in 0..(k - 1) : Entry[j] # NULL /\ ~Ready(Entry[j])
        /\ next' = Soonest(Passed(k))
  BY DEF Sleep
<1>4. k \in 0..N /\ ~(k < Len(s))
  BY <1>1, <1>2, <1>3
<1>5. ASSUME NEW j \in 0..(k - 1) PROVE Entry[j] = s[j + 1] /\ Entry[j] \in Works
  <2>1. j \in 0..N /\ Entry[j] # NULL
    BY <1>1, <1>3, <1>4
  <2>2. Entry[j] = IF j < Len(s) THEN s[j + 1] ELSE NULL
    BY <1>2, <2>1
  <2>3. j < Len(s) /\ j + 1 \in 1..Len(s)
    BY <1>1, <2>1, <2>2
  <2> QED
    BY <1>1, <2>2, <2>3
<1>6. /\ Passed(k) \in SUBSET Works
      /\ \A w \in Passed(k) : ~Ready(w)
  BY <1>3, <1>5 DEF Passed
<1>7. ASSUME NEW j \in 1..Len(s) PROVE s[j] \in Passed(k)
  <2>1. j - 1 \in 0..(k - 1) /\ (j - 1) + 1 = j
    BY <1>1, <1>4
  <2> QED
    BY <1>5, <2>1 DEF Passed
<1>8. /\ next' \in 0..WORKPERIOD
      /\ \A w \in Passed(k) : Remaining(w) \in Nat /\ next' <= Remaining(w)
  BY <1>3, <1>6, SoonestIs
<1> QED
  BY <1>6, <1>7, <1>8

-----------------------------------------------------------------------------
(* How long works wait.                                                    *)

(* The bound of a delay is no less than the delay, or the period. *)
LEMMA LateIs ==
  ASSUME NEW d \in Nat
  PROVE  /\ Late(d) \in Nat /\ (USEC_PER_TICK - 1) \div 2 \in Nat
         /\ USEC_PER_TICK * d \in Nat
         /\ USEC_PER_TICK * d + (USEC_PER_TICK - 1) \div 2 <= Late(d)
         /\ WORKPERIOD \in Nat /\ WORKPERIOD <= Late(d)
<1> DEFINE h == (USEC_PER_TICK - 1) \div 2
           u == USEC_PER_TICK * d
           m == Max({u, WORKPERIOD})
<1>1. USEC_PER_TICK - 1 \in Nat /\ USEC_PER_TICK \in Nat /\ WORKPERIOD \in Nat
  BY Constants
<1>2. h \in Nat
  BY <1>1, Division
<1>3. u \in Nat
  BY <1>1, Times
<1> HIDE DEF h, u
<1>4. m \in Nat /\ u <= m /\ WORKPERIOD <= m
  BY <1>1, <1>3, MaxOfTwo
<1>5. Late(d) = m + h
  BY DEF Late, u, h
<1> HIDE DEF m
<1>6. Late(d) \in Nat /\ u + h <= Late(d) /\ WORKPERIOD <= Late(d)
  BY <1>1, <1>2, <1>3, <1>4, <1>5
<1> QED
  BY <1>1, <1>2, <1>3, <1>6 DEF u, h

(* More workers take more time. *)
LEMMA RunsIs ==
  ASSUME NEW n \in Nat
  PROVE  /\ Runs(n) \in Nat /\ Runs(n + 1) = Runs(n) + MaxRun
         /\ \A m \in 0..n : Runs(m) \in Nat /\ Runs(m) <= Runs(n)
<1>1. MaxRun \in Nat
  BY Constants
<1>2. Runs(n) \in Nat /\ Runs(n + 1) = Runs(n) + MaxRun
  BY <1>1, Times DEF Runs
<1>3. ASSUME NEW m \in 0..n PROVE Runs(m) \in Nat /\ Runs(m) <= Runs(n)
  <2>1. m \in Nat /\ m <= n
    OBVIOUS
  <2> QED
    BY <1>1, <2>1, Times, TimesGrows DEF Runs
<1> QED
  BY <1>2, <1>3

(* The thread is busy for a number of microseconds, no more than a worker *)
(* runs or the thread sleeps.                                              *)
LEMMA BusyIs ==
  ASSUME NEW pc, NEW r \in 0..MaxRun, NEW n \in 0..WORKPERIOD
  PROVE  /\ BusyAt(pc, r, n) \in Nat
         /\ BusyAt(pc, r, n) <= MaxRun \/ BusyAt(pc, r, n) <= WORKPERIOD
<1>1. MaxRun \in Nat /\ WORKPERIOD \in Nat
  BY Constants
<1>2. CASE pc = "run"
  BY <1>1, <1>2 DEF BusyAt
<1>3. CASE pc # "run"
  BY <1>1, <1>3 DEF BusyAt
<1> QED
  BY <1>2, <1>3

\* The thread looks at the list no later than it would have.
NoLater ==
  /\ Busy' <= Busy
  /\ tpc' = "sleep" => tpc = "sleep" /\ next' = next

SameTimes(w) == age'[w] = age[w] /\ qtime'[w] = qtime[w] /\ delay'[w] = delay[w]

(* A work that stays, or moves up, waits no longer. *)
LEMMA WaitsStill ==
  ASSUME TypeOK, TypeOK', NoLater, NEW w \in Works,
         age'[w] = age[w], delay'[w] = delay[w],
         NEW k \in Nat \ {0}, NEW j \in 1..k, Waits(w, k)
  PROVE  Waits(w, j)'
<1> DEFINE b == Busy
           c == Busy'
           R == Runs(N)
           F == Late(delay[w])
<1>1. b \in Nat
  BY BusyIs, TimeTypes DEF Busy
<1>2. c \in Nat
  BY BusyIs DEF Busy, TypeOK
<1>3. delay[w] \in Nat /\ age[w] \in Nat
  BY TimeTypes
<1>4. F \in Nat /\ R \in Nat
  BY <1>3, Constants, LateIs, RunsIs
<1>5. Runs(k - 1) \in Nat /\ Runs(j - 1) \in Nat /\ Runs(j - 1) <= Runs(k - 1)
  <2>1. k - 1 \in Nat /\ j - 1 \in 0..(k - 1)
    OBVIOUS
  <2> QED
    BY <2>1, RunsIs
<1>6. c <= b
  BY DEF NoLater
<1>7. age[w] + b + Runs(k - 1) <= F + R
  BY DEF Waits
<1> HIDE DEF b, c, R, F
<1>8. age[w] + c + Runs(j - 1) <= F + R
  BY <1>1, <1>2, <1>3, <1>4, <1>5, <1>6, <1>7
<1>9. age'[w] + Busy' + Runs(j - 1) <= Late(delay'[w]) + Runs(N)
  BY <1>8 DEF c, R, F
<1>10. tpc' = "sleep" => age'[w] + next' <= Late(delay'[w])
  BY DEF Waits, NoLater
<1> QED
  BY <1>9, <1>10 DEF Waits, Runs, N, Late

(* What is known of the listed works stays true where their times do.      *)
LEMMA AgesStay ==
  ASSUME AgeInv, clock' = clock, Listed' \subseteq Listed,
         \A w \in Listed' : SameTimes(w)
  PROVE  AgeInv'
  BY DEF AgeInv, SameTimes, Far

(* A step that leaves the list as it is. *)
LEMMA ListStays ==
  ASSUME TypeOK, TypeOK', ListInv, NoLater, q' = q, Listed' = Listed,
         \A w \in Listed : SameTimes(w)
  PROVE  ListInv'
<1>1. PICK s \in Seq(Works) : Spells(s, q, Listed) /\ (ClockIsLong => WaitInv(s))
  BY DEF ListInv
<1>2. Len(s) \in Nat /\ \A k \in 1..Len(s) : s[k] \in Works /\ s[k] \in Listed
  BY <1>1 DEF Spells, Has
<1>3. ASSUME ClockIsLong, NEW k \in 1..Len(s) PROVE Waits(s[k], k)'
  <2>1. s[k] \in Works /\ age'[s[k]] = age[s[k]] /\ delay'[s[k]] = delay[s[k]]
    BY <1>2 DEF SameTimes
  <2>2. Waits(s[k], k) /\ k \in Nat \ {0} /\ k \in 1..k
    BY <1>1, <1>2, <1>3 DEF WaitInv
  <2> QED
    BY <2>1, <2>2, WaitsStill
<1>4. Spells(s, q', Listed')
  BY <1>1
<1>5. ClockIsLong' => WaitInv(s)'
  BY <1>3 DEF WaitInv, ClockIsLong, Late, Runs, N
<1> QED
  BY <1>4, <1>5 DEF ListInv, Spells

(* A step that puts a work at the end of the list. *)
LEMMA ListGrows ==
  ASSUME TypeOK, TypeOK', q \in Links, ListInv, NoLater,
         NEW w \in Works, w \notin Listed, q' = dq_addlast(w, q),
         Listed' = Listed \cup {w}, age'[w] = 0,
         \A x \in Listed : SameTimes(x)
  PROVE  ListInv'
<1>1. PICK s \in Seq(Works) : Spells(s, q, Listed) /\ (ClockIsLong => WaitInv(s))
  BY DEF ListInv
<1> DEFINE n == Len(s)
           t == Append(s, w)
<1>2. n \in Nat /\ \A k \in 1..n : s[k] \in Works /\ s[k] \in Listed
  BY <1>1 DEF Spells, Has
<1>3. Spells(t, q', Listed')
  BY <1>1, AddlastSpells
<1>4. /\ t \in Seq(Works) /\ Len(t) = n + 1 /\ t[n + 1] = w
      /\ \A k \in 1..n : t[k] = s[k]
  BY <1>1, <1>2
<1>5. n + 1 <= N
  <2>1. Distinct(t)
    BY <1>3 DEF Spells
  <2> QED
    BY <1>4, <2>1, ShortList
<1>6. ASSUME ClockIsLong, NEW k \in 1..n PROVE Waits(s[k], k)'
  <2>1. s[k] \in Works /\ age'[s[k]] = age[s[k]] /\ delay'[s[k]] = delay[s[k]]
    BY <1>2 DEF SameTimes
  <2>2. Waits(s[k], k) /\ k \in Nat \ {0} /\ k \in 1..k
    BY <1>1, <1>2, <1>6 DEF WaitInv
  <2> QED
    BY <2>1, <2>2, WaitsStill
<1>7. Waits(w, n + 1)'
  <2> DEFINE b == Busy'
             F == Late(delay'[w])
             x == next'
  <2>1. b \in Nat /\ (b <= MaxRun \/ b <= WORKPERIOD)
    BY BusyIs DEF Busy, TypeOK
  <2>2. delay'[w] \in Delays \cup {0} /\ x \in 0..WORKPERIOD
    BY DEF TypeOK
  <2>3. delay'[w] \in Nat
    <3>1. Delays \subseteq Nat /\ 0 \in Nat
      BY Constants
    <3> QED
      BY <2>2, <3>1, Zenon
  <2>4. F \in Nat /\ WORKPERIOD \in Nat /\ WORKPERIOD <= F
    BY <2>3, LateIs
  <2>5. Runs(n) \in Nat /\ Runs(n + 1) = Runs(n) + MaxRun
    BY <1>2, RunsIs
  <2>6. MaxRun \in Nat /\ N \in Nat
    BY Constants
  <2>7. Runs(N) \in Nat /\ Runs(n + 1) <= Runs(N)
    <3>1. n + 1 \in 0..N
      BY <1>2, <1>5, <2>6
    <3> QED
      BY <2>6, <3>1, RunsIs
  <2> HIDE DEF b, F, x
  <2>8. 0 + b + Runs(n) <= F + Runs(N) /\ 0 + x <= F
    BY <2>1, <2>2, <2>4, <2>5, <2>6, <2>7
  <2>9. (n + 1) - 1 = n
    BY <1>2
  <2>10. /\ age'[w] + Busy' + Runs((n + 1) - 1) <= Late(delay'[w]) + Runs(N)
         /\ age'[w] + next' <= Late(delay'[w])
    BY <2>8, <2>9 DEF b, F, x
  <2> QED
    BY <2>10 DEF Waits, Runs, N, Late
<1> HIDE DEF t
<1>8. ASSUME ClockIsLong, NEW k \in 1..Len(t) PROVE Waits(t[k], k)'
  <2>1. CASE k = n + 1
    BY <1>4, <1>7, <2>1
  <2>2. CASE k # n + 1
    <3>1. k \in 1..n
      BY <1>2, <1>4, <2>2
    <3> QED
      BY <1>4, <1>6, <1>8, <3>1
  <2> QED
    BY <2>1, <2>2
<1>9. ClockIsLong' => WaitInv(t)'
  BY <1>8 DEF WaitInv, ClockIsLong, Late, Runs, N
<1> QED
  BY <1>3, <1>4, <1>9 DEF ListInv, Spells

(* A step that takes a work out of the list. *)
LEMMA ListShrinks ==
  ASSUME TypeOK, TypeOK', q \in Links, ListInv, NoLater,
         NEW w \in Works, w \in Listed, q' = dq_rem(w, q),
         Listed' = Listed \ {w}, \A x \in Listed' : SameTimes(x)
  PROVE  ListInv'
<1>1. PICK s \in Seq(Works) : Spells(s, q, Listed) /\ (ClockIsLong => WaitInv(s))
  BY DEF ListInv
<1> DEFINE n == Len(s)
<1>2. n \in Nat /\ \A k \in 1..n : s[k] \in Works /\ s[k] \in Listed
  BY <1>1 DEF Spells, Has
<1>3. PICK i \in 1..n : s[i] = w
  BY <1>1 DEF Spells, Has
<1> DEFINE t == Without(s, i)
<1>4. Spells(t, q', Listed')
  BY <1>1, <1>3, RemSpells
<1>5. /\ t \in Seq(Works) /\ Len(t) = n - 1
      /\ \A j \in 1..(n - 1) : t[j] = IF j < i THEN s[j] ELSE s[j + 1]
  BY <1>3, WithoutIs
<1> HIDE DEF t
<1>6. ASSUME ClockIsLong, NEW j \in 1..Len(t) PROVE Waits(t[j], j)'
  <2> DEFINE k == IF j < i THEN j ELSE j + 1
  <2>1. t[j] = s[k] /\ k \in 1..n /\ k \in Nat \ {0} /\ j \in 1..k
    BY <1>2, <1>3, <1>5
  <2> HIDE DEF k
  <2>2. t[j] \in Works /\ t[j] \in Listed'
    BY <1>2, <1>4, <2>1 DEF Spells, Has
  <2>3. age'[t[j]] = age[t[j]] /\ delay'[t[j]] = delay[t[j]]
    BY <2>2 DEF SameTimes
  <2>4. Waits(t[j], k)
    BY <1>1, <1>6, <2>1 DEF WaitInv
  <2> QED
    BY <2>1, <2>2, <2>3, <2>4, WaitsStill
<1>7. ClockIsLong' => WaitInv(t)'
  BY <1>6 DEF WaitInv, ClockIsLong, Late, Runs, N
<1> QED
  BY <1>4, <1>5, <1>7 DEF ListInv, Spells

(* The two halves of a tick. *)
LEMMA Halves ==
  ASSUME NEW u \in Nat \ {0}
  PROVE  u - 1 - u \div 2 = (u - 1) \div 2
  OBVIOUS

(* A product with a difference. *)
LEMMA TimesLess ==
  ASSUME NEW a \in Nat, NEW m \in Nat, NEW n \in Nat
  PROVE  a * (n - m) = a * n - a * m
  OBVIOUS

(* A work that is not ready is not late, even after what it has to wait. *)
LEMMA NotReady ==
  ASSUME TypeOK, ClockIsLong, NEW w \in Listed, w \in Works, AgeInv,
         NEW k \in Nat \ {0}, tpc = "process", Waits(w, k), ~Ready(w)
  PROVE  /\ age[w] \in Nat /\ Remaining(w) \in Nat /\ Late(delay[w]) \in Nat
         /\ age[w] + Remaining(w) <= Late(delay[w])
<1> DEFINE u == USEC_PER_TICK
           h == u \div 2
           g == (u - 1) \div 2
           e == Elapsed(w)
           d == delay[w]
           a == age[w]
           F == Late(d)
           R == Runs(N)
           r == Runs(k - 1)
           x == clock - qtime[w]
           ud == u * d
           ue == u * e
<1>1. /\ u \in Nat \ {0} /\ ClockRange \in Nat \ {0} /\ Far = ClockRange
      /\ N \in Nat
  BY Constants
<1>2. /\ a \in 0..Far /\ a \in Nat /\ d \in Nat /\ d \in Delays \cup {0}
      /\ clock \in Nat /\ qtime[w] \in Nat
  BY TimeTypes
<1>3. /\ F \in Nat /\ g \in Nat /\ ud \in Nat /\ ud + g <= F
  BY <1>2, LateIs
<1>4. R \in Nat /\ r \in Nat
  <2>1. k - 1 \in Nat
    OBVIOUS
  <2> QED
    BY <1>1, <2>1, RunsIs
<1>5. /\ e \in Nat /\ h \in Nat
      /\ x + h < 0 => e = Far
      /\ x + h >= 0 => ue <= x + h /\ x + h < ue + u
  BY ElapsedIs
<1>6. ue \in Nat /\ Remaining(w) = ud - ue
  <2>1. ue \in Nat
    BY <1>1, <1>5, Times
  <2>2. u * (d - e) = u * d - u * e
    BY <1>1, <1>2, <1>5, TimesLess
  <2> QED
    BY <2>1, <2>2 DEF Remaining
<1>7. e <= d
  BY <1>2, <1>5 DEF Ready
<1>8. ue <= ud
  BY <1>1, <1>2, <1>5, <1>7, TimesGrows
<1>9. a + 0 + r <= F + R /\ F + R + h < ClockRange
  BY <1>2 DEF Waits, Busy, BusyAt, ClockIsLong
<1>10. a = Far \/ x = a \/ x = a - ClockRange
  BY DEF AgeInv
<1>11. u - 1 - h = g
  BY <1>1, Halves
<1>12. x \in Int
  BY <1>2
<1>13. e = Far => a <= ue
  <2> SUFFICES ASSUME e = Far PROVE a <= ue
    OBVIOUS
  <2>1. e * 1 <= e * u /\ e * 1 = e /\ e * u = ue
    BY <1>1, <1>5, TimesGrows
  <2> QED
    BY <1>1, <1>2, <2>1
<1> HIDE DEF u, h, g, e, d, a, F, R, r, x, ud, ue
<1>14. a < ClockRange - h
  BY <1>1, <1>2, <1>3, <1>4, <1>5, <1>9
<1>15. CASE x + h < 0
  <2>1. a <= ue
    BY <1>5, <1>13, <1>15
  <2>2. Remaining(w) \in Nat /\ a + Remaining(w) <= F
    BY <1>2, <1>3, <1>6, <1>8, <2>1
  <2> QED
    BY <1>2, <1>3, <2>2 DEF a, F, d
<1>16. CASE ~(x + h < 0)
  <2>1. x = a
    BY <1>1, <1>2, <1>5, <1>10, <1>12, <1>14, <1>16
  <2>2. a + h < ue + u
    BY <1>5, <1>12, <1>16, <2>1
  <2>3. a <= ue + g
    BY <1>1, <1>2, <1>3, <1>5, <1>6, <1>11, <2>2
  <2>4. Remaining(w) \in Nat /\ a + Remaining(w) <= F
    BY <1>2, <1>3, <1>6, <1>8, <2>3
  <2> QED
    BY <1>2, <1>3, <2>4 DEF a, F, d
<1> QED
  BY <1>15, <1>16

(* The works before the one that is taken are not ready, and those behind  *)
(* it move up.                                                             *)
LEMMA ProcessKeepsList ==
  ASSUME TypeOK, TypeOK', q \in Links, AgeInv, ListInv,
         NEW k \in DOMAIN Entry, Process(k), NEW w \in Works, w = Entry[k],
         Listed' = Listed \ {w}, \A x \in Listed' : SameTimes(x)
  PROVE  ListInv'
<1>1. PICK s \in Seq(Works) : Spells(s, q, Listed) /\ (ClockIsLong => WaitInv(s))
  BY DEF ListInv
<1> DEFINE n == Len(s)
           i == k + 1
           t == Without(s, i)
<1>2. n \in Nat /\ \A j \in 1..n : s[j] \in Works /\ s[j] \in Listed
  BY <1>1 DEF Spells, Has
<1>3. i \in 1..n /\ w = s[i] /\ \A j \in 1..k : ~Ready(s[j])
  BY <1>1, ProcessTakes
<1>4. /\ k \in Nat /\ i = k + 1
      /\ tpc = "process" /\ tpc' = "run" /\ q' = dq_rem(w, q)
  <2>1. k \in 0..N
    BY <1>1, EntryIs
  <2> QED
    BY <2>1, Constants DEF Process
<1> HIDE DEF i
<1>5. Spells(t, q', Listed')
  BY <1>1, <1>3, <1>4, RemSpells
<1>6. /\ t \in Seq(Works) /\ Len(t) = n - 1
      /\ \A j \in 1..(n - 1) : t[j] = IF j < i THEN s[j] ELSE s[j + 1]
  BY <1>3, WithoutIs
<1> HIDE DEF t
<1>7. n <= N /\ N \in Nat /\ MaxRun \in Nat
  BY <1>1, Constants, ShortList DEF Spells
<1> DEFINE b == Busy'
<1>8. b \in Nat /\ b <= MaxRun
  <2> DEFINE r == ran'
  <2>1. r \in 0..MaxRun
    BY DEF TypeOK
  <2>2. b = MaxRun - r
    BY <1>4 DEF Busy, BusyAt
  <2> HIDE DEF r, b
  <2> QED
    BY <1>7, <2>1, <2>2
<1> HIDE DEF b
<1>9. ASSUME ClockIsLong, NEW j \in 1..Len(t) PROVE Waits(t[j], j)'
  <2> DEFINE x == t[j]
             F == Late(delay[x])
             a == age[x]
  <2>1. x \in Works /\ x \in Listed'
    BY <1>5, <1>6, <1>9 DEF Spells, Has
  <2>2. age'[x] = age[x] /\ delay'[x] = delay[x]
    BY <2>1 DEF SameTimes
  <2>3. j \in Nat /\ j - 1 \in Nat /\ (j - 1) + 1 = j /\ j + 1 \in Nat \ {0}
        /\ (j + 1) - 1 = j /\ j \in 1..(n - 1)
    BY <1>2, <1>6
  <2>4. Runs(j - 1) \in Nat /\ Runs(j) = Runs(j - 1) + MaxRun
    <3>1. Runs((j - 1) + 1) = Runs(j - 1) + MaxRun /\ Runs(j - 1) \in Nat
      BY <2>3, RunsIs
    <3> QED
      BY <2>3, <3>1
  <2>5. Runs(N) \in Nat /\ Runs(j) \in Nat /\ Runs(j) <= Runs(N)
    <3>1. j \in 0..N
      BY <1>2, <1>7, <2>3
    <3> QED
      BY <1>7, <3>1, RunsIs
  <2>6. F \in Nat /\ a \in Nat
    <3>1. delay[x] \in Nat /\ age[x] \in Nat
      BY <2>1, TimeTypes
    <3> QED
      BY <3>1, LateIs
  <2>7. a + b + Runs(j - 1) <= F + Runs(N)
    <3>1. CASE j < i
      <4>1. x = s[j] /\ j \in 1..k /\ j \in 1..n /\ j \in Nat \ {0}
        BY <1>2, <1>3, <1>4, <1>6, <2>3, <3>1
      <4>2. Waits(x, j) /\ ~Ready(x) /\ x \in Listed
        BY <1>1, <1>2, <1>3, <1>9, <4>1 DEF WaitInv
      <4>3. Remaining(x) \in Nat /\ a + Remaining(x) <= F
        BY <1>4, <1>9, <2>1, <4>1, <4>2, NotReady
      <4> HIDE DEF a, F, x
      <4> QED
        BY <1>7, <1>8, <2>4, <2>5, <2>6, <4>3
    <3>2. CASE ~(j < i)
      <4>1. x = s[j + 1] /\ j + 1 \in 1..n
        BY <1>2, <1>6, <2>3, <3>2
      <4>2. Waits(x, j + 1)
        BY <1>1, <1>9, <4>1 DEF WaitInv
      <4>3. a + 0 + Runs(j) <= F + Runs(N)
        BY <1>4, <2>3, <4>2 DEF Waits, Busy, BusyAt
      <4> HIDE DEF a, F, x
      <4> QED
        BY <1>7, <1>8, <2>4, <2>5, <2>6, <4>3
    <3> QED
      BY <3>1, <3>2
  <2>8. age'[x] + Busy' + Runs(j - 1) <= Late(delay'[x]) + Runs(N)
    BY <2>2, <2>7 DEF b
  <2> QED
    BY <1>4, <2>8 DEF Waits, Runs, N, Late
<1>10. ClockIsLong' => WaitInv(t)'
  BY <1>9 DEF WaitInv, ClockIsLong, Late, Runs, N
<1> QED
  BY <1>5, <1>6, <1>10 DEF ListInv, Spells

(* The thread sleeps no longer than the works of the list can wait. *)
LEMMA SleepKeepsList ==
  ASSUME TypeOK, TypeOK', AgeInv, ListInv, Sleep, Listed' = Listed
  PROVE  ListInv'
<1>1. PICK s \in Seq(Works) : Spells(s, q, Listed) /\ (ClockIsLong => WaitInv(s))
  BY DEF ListInv
<1>2. Len(s) \in Nat /\ \A j \in 1..Len(s) : s[j] \in Works /\ s[j] \in Listed
  BY <1>1 DEF Spells, Has
<1>3. /\ tpc = "process" /\ tpc' = "sleep" /\ q' = q
      /\ age' = age /\ delay' = delay
  BY DEF Sleep, workVars
<1> DEFINE y == next'
<1>4. /\ y \in 0..WORKPERIOD
      /\ \A j \in 1..Len(s) :
           ~Ready(s[j]) /\ Remaining(s[j]) \in Nat /\ y <= Remaining(s[j])
  BY <1>1, SleepPasses
<1>5. Busy' = y
  BY <1>3 DEF Busy, BusyAt
<1> HIDE DEF y
<1>6. Len(s) <= N /\ N \in Nat /\ WORKPERIOD \in Nat
  BY <1>1, Constants, ShortList DEF Spells
<1>7. ASSUME ClockIsLong, NEW j \in 1..Len(s) PROVE Waits(s[j], j)'
  <2> DEFINE x == s[j]
             F == Late(delay[x])
             a == age[x]
             m == Remaining(x)
  <2>1. x \in Works /\ x \in Listed /\ Waits(x, j) /\ j \in Nat \ {0} /\ ~Ready(x)
    BY <1>1, <1>2, <1>4, <1>7 DEF WaitInv
  <2>2. a \in Nat /\ m \in Nat /\ F \in Nat /\ a + m <= F
    BY <1>3, <1>7, <2>1, NotReady
  <2>3. y <= m /\ y \in Nat
    BY <1>4, <1>6
  <2>4. Runs(N) \in Nat /\ Runs(j - 1) \in Nat /\ Runs(j - 1) <= Runs(N)
    <3>1. j - 1 \in 0..N
      BY <1>2, <1>6
    <3> QED
      BY <1>6, <3>1, RunsIs
  <2> HIDE DEF a, F, m
  <2>5. a + y + Runs(j - 1) <= F + Runs(N) /\ a + y <= F
    BY <2>2, <2>3, <2>4
  <2>6. /\ age'[x] + Busy' + Runs(j - 1) <= Late(delay'[x]) + Runs(N)
        /\ age'[x] + next' <= Late(delay'[x])
    BY <1>3, <1>5, <2>5 DEF a, F, y
  <2> QED
    BY <2>6 DEF Waits, Runs, N, Late
<1>8. Spells(s, q', Listed')
  BY <1>1, <1>3
<1>9. ClockIsLong' => WaitInv(s)'
  BY <1>7 DEF WaitInv, ClockIsLong, Late, Runs, N
<1> QED
  BY <1>8, <1>9 DEF ListInv, Spells

(* The lesser of a number and the range of the ages. *)
LEMMA Capped ==
  ASSUME NEW a \in Nat, NEW b \in Nat
  PROVE  /\ Min({a, b}) \in Nat /\ Min({a, b}) <= a /\ Min({a, b}) <= b
         /\ Min({a, b}) = a \/ Min({a, b}) = b
<1>1. {a, b} \in SUBSET Nat /\ a \in {a, b}
  OBVIOUS
<1>2. Min({a, b}) \in {a, b} /\ \A y \in {a, b} : Min({a, b}) <= y
  BY <1>1, MinIs
<1> QED
  BY <1>2

(* A microsecond of waiting is one that the thread is not busy any more. *)
LEMMA TickKeepsList ==
  ASSUME TypeOK, TypeOK', ListInv, Tick, Listed' = Listed
  PROVE  ListInv'
<1>1. PICK s \in Seq(Works) : Spells(s, q, Listed) /\ (ClockIsLong => WaitInv(s))
  BY DEF ListInv
<1>2. Len(s) \in Nat /\ \A j \in 1..Len(s) : s[j] \in Works /\ s[j] \in Listed
  BY <1>1 DEF Spells, Has
<1>3. q' = q /\ tpc' = tpc /\ delay' = delay
  BY DEF Tick
<1> DEFINE b == Busy
           c == Busy'
           y == next'
<1>4. b \in Nat
  BY BusyIs, TimeTypes DEF Busy
<1>5. /\ ran \in 0..MaxRun /\ next \in 0..WORKPERIOD
      /\ MaxRun \in Nat /\ WORKPERIOD \in Nat
  BY TimeTypes, Constants
<1>6. c \in Nat /\ c = b - 1 /\ (tpc = "sleep" => y = next - 1)
  <2>1. CASE tpc = "run" /\ ran < MaxRun /\ ran' = ran + 1
    BY <1>3, <1>5, <2>1 DEF Busy, BusyAt
  <2>2. CASE tpc = "sleep" /\ next > 0 /\ next' = next - 1
    BY <1>3, <1>5, <2>2 DEF Busy, BusyAt
  <2> QED
    BY <2>1, <2>2 DEF Tick
<1> HIDE DEF b, c, y
<1>7. ASSUME ClockIsLong, NEW j \in 1..Len(s) PROVE Waits(s[j], j)'
  <2> DEFINE x == s[j]
             F == Late(delay[x])
             a == age[x]
             z == age'[x]
  <2>1. x \in Works /\ x \in Listed /\ Waits(x, j)
    BY <1>1, <1>2, <1>7 DEF WaitInv
  <2>2. a \in Nat /\ delay[x] \in Nat /\ Far \in Nat
    BY <2>1, TimeTypes, Constants
  <2>3. F \in Nat
    BY <2>2, LateIs
  <2>4. z \in Nat /\ z <= a + 1
    <3>1. z = Min({a + 1, Far})
      BY <2>1 DEF Tick, Listed
    <3>2. a + 1 \in Nat
      BY <2>2
    <3> HIDE DEF a, z
    <3> QED
      BY <2>2, <3>1, <3>2, Capped
  <2>5. Runs(N) \in Nat /\ Runs(j - 1) \in Nat
    <3>1. j - 1 \in Nat /\ N \in Nat
      BY <1>2, Constants
    <3> QED
      BY <3>1, RunsIs
  <2>6. a + b + Runs(j - 1) <= F + Runs(N) /\ (tpc = "sleep" => a + next <= F)
    BY <2>1 DEF Waits, b
  <2> HIDE DEF a, F, z
  <2>7. z + c + Runs(j - 1) <= F + Runs(N)
    BY <1>4, <1>6, <2>2, <2>3, <2>4, <2>5, <2>6
  <2>8. tpc = "sleep" => z + y <= F
    BY <1>5, <1>6, <2>2, <2>3, <2>4, <2>6
  <2>9. /\ age'[x] + Busy' + Runs(j - 1) <= Late(delay'[x]) + Runs(N)
        /\ tpc' = "sleep" => age'[x] + next' <= Late(delay'[x])
    BY <1>3, <2>7, <2>8 DEF z, c, y, F
  <2> QED
    BY <2>9 DEF Waits, Runs, N, Late
<1>8. Spells(s, q', Listed')
  BY <1>1, <1>3
<1>9. ClockIsLong' => WaitInv(s)'
  BY <1>7 DEF WaitInv, ClockIsLong, Late, Runs, N
<1> QED
  BY <1>8, <1>9 DEF ListInv, Spells

(* The clock and the ages go on together, through a wrap too. *)
LEMMA TickKeepsAges ==
  ASSUME TypeOK, AgeInv, Tick, Listed' = Listed
  PROVE  AgeInv'
<1> SUFFICES ASSUME NEW w \in Listed
             PROVE  \/ age'[w] = Far
                    \/ clock' - qtime'[w] = age'[w]
                    \/ clock' - qtime'[w] = age'[w] - ClockRange
  BY DEF AgeInv, Far
<1> DEFINE a == age[w]
           z == age'[w]
           c == clock'
           t == qtime[w]
           M == ClockRange
<1>1. w \in Works /\ w \in worker
  BY DEF Listed, TypeOK
<1>2. /\ a \in 0..Far /\ a \in Nat /\ clock \in 0..(M - 1) /\ t \in 0..(M - 1)
      /\ M \in Nat \ {0} /\ Far = M
  BY <1>1, TimeTypes, Constants
<1>3. /\ c = (clock + 1) % M
      /\ z = Min({a + 1, Far}) /\ qtime'[w] = t
  BY <1>1 DEF Tick
<1>4. c = IF clock = M - 1 THEN 0 ELSE clock + 1
  <2>1. CASE clock = M - 1
    <3>1. clock + 1 = M
      BY <1>2, <2>1
    <3>2. M % M = 0
      BY <1>2
    <3> QED
      BY <1>3, <2>1, <3>1, <3>2
  <2>2. CASE clock # M - 1
    <3>1. clock + 1 \in 0..(M - 1)
      BY <1>2, <2>2
    <3>2. (clock + 1) % M = clock + 1
      BY <1>2, <3>1
    <3> QED
      BY <1>3, <2>2, <3>2
  <2> QED
    BY <2>1, <2>2
<1>5. z \in Nat /\ z <= a + 1 /\ z <= M /\ (z = a + 1 \/ z = M)
  <2>1. a + 1 \in Nat /\ M \in Nat
    BY <1>2
  <2> HIDE DEF a, z, M
  <2> QED
    BY <1>2, <1>3, <2>1, Capped
<1>6. a = M \/ clock - t = a \/ clock - t = a - M
  BY <1>2 DEF AgeInv
<1> HIDE DEF a, z, c, t, M
<1>7. z = M \/ c - t = z \/ c - t = z - M
  BY <1>2, <1>4, <1>5, <1>6
<1> QED
  BY <1>2, <1>3, <1>7 DEF z, c, t, M

-----------------------------------------------------------------------------
(* The types, operation by operation.                                      *)

WorkTypes ==
  /\ worker \subseteq Works
  /\ delay \in [Works -> Delays \cup {0}]
  /\ qtime \in [Works -> 0..(ClockRange - 1)]
  /\ clock \in 0..(ClockRange - 1)
  /\ age \in [Works -> 0..Far]

ThreadTypes ==
  /\ tpc \in {"process", "run", "sleep"}
  /\ work \in Works \cup {NULL}
  /\ ran \in 0..MaxRun
  /\ next \in 0..WORKPERIOD

SaveTypes ==
  /\ autosave_scheduled \in BOOLEAN /\ autosave_disabled \in BOOLEAN
  /\ armed \in BOOLEAN /\ setting \in BOOLEAN
  /\ unsaved \in BOOLEAN /\ changed \in BOOLEAN
  /\ missed \in BOOLEAN /\ collided \in BOOLEAN
  /\ stage \in {"start", "requeue", "save"}
  /\ filling \subseteq Others

Types == q \in Links /\ WorkTypes /\ ThreadTypes /\ SaveTypes

(* The parts make up the type invariant. *)
LEMMA TypesOK == q \in Links => (TypeOK <=> Types)
  BY DEF Types, TypeOK, Links, WorkTypes, ThreadTypes, SaveTypes

(* Filling in a work. *)
LEMMA FillTypes ==
  ASSUME Types, NEW w \in Works, NEW d \in Delays, Fill(w, d)
  PROVE  WorkTypes' /\ ThreadTypes' /\ q' \in Links
<1>1. worker' \subseteq Works /\ delay' \in [Works -> Delays \cup {0}]
  BY DEF Types, WorkTypes, Fill
<1>2. qtime' = qtime /\ age' = age /\ clock' = clock /\ q' = q
  BY DEF Fill
<1>3. ThreadTypes'
  BY DEF Types, ThreadTypes, Fill, threadVars
<1> QED
  BY <1>1, <1>2, <1>3 DEF Types, WorkTypes, Far, Links

(* Queueing a work. *)
LEMMA QueueTypes ==
  ASSUME Types, NEW w \in Works, work_queue(w)
  PROVE  WorkTypes' /\ q' \in Links
<1>1. /\ worker' = worker /\ delay' = delay /\ clock' = clock
      /\ qtime' = [qtime EXCEPT ![w] = clock] /\ age' = [age EXCEPT ![w] = 0]
      /\ q' = dq_addlast(w, q)
  BY DEF work_queue
<1>2. 0 \in 0..Far
  BY Constants
<1>3. WorkTypes'
  BY <1>1, <1>2 DEF Types, WorkTypes, Far
<1>4. q' \in Links
  <2>1. q \in Links /\ NULL \notin Works
    BY Constants DEF Types
  <2>2. [q.flink EXCEPT ![w] = NULL] \in [Works -> Works \cup {NULL}]
        /\ [q.blink EXCEPT ![w] = q.tail] \in [Works -> Works \cup {NULL}]
        /\ q.head \in Works \cup {NULL}
        /\ [[q.flink EXCEPT ![w] = NULL] EXCEPT ![q.tail] = w]
             \in [Works -> Works \cup {NULL}]
    BY <2>1 DEF Links
  <2> QED
    BY <1>1, <2>2 DEF dq_addlast, Links
<1> QED
  BY <1>3, <1>4

(* Taking a work out. *)
LEMMA LeavesTypes ==
  ASSUME Types, NEW w \in Works, Leaves(w), clock' = clock
  PROVE  WorkTypes'
<1>1. /\ worker' = worker \ {w} /\ delay' = [delay EXCEPT ![w] = 0]
      /\ qtime' = [qtime EXCEPT ![w] = 0] /\ age' = [age EXCEPT ![w] = 0]
  BY DEF Leaves
<1>2. 0 \in 0..Far /\ 0 \in 0..(ClockRange - 1)
  BY Constants
<1> QED
  BY <1>1, <1>2 DEF Types, WorkTypes, Far

(* A worker that returns. *)
LEMMA ReturnTypes ==
  ASSUME Types, Return
  PROVE  ThreadTypes'
<1>1. 0 \in 0..MaxRun
  BY Constants
<1> QED
  BY <1>1 DEF Types, ThreadTypes, Return

(* A thread that stays where it is is no later, *)
LEMMA ThreadStays ==
  ASSUME Types, UNCHANGED threadVars
  PROVE  NoLater
<1>1. Busy \in Nat
  BY BusyIs DEF Busy, Types, ThreadTypes
<1>2. Busy' = Busy
  BY DEF Busy, threadVars
<1>3. Busy' <= Busy
  BY <1>1, <1>2
<1> QED
  BY <1>3 DEF NoLater, threadVars

(* nor is one that goes back to the list. *)
LEMMA ThreadReturns ==
  ASSUME Types, tpc' = "process"
  PROVE  NoLater
<1>1. Busy \in Nat
  BY BusyIs DEF Busy, Types, ThreadTypes
<1>2. Busy' = 0
  BY DEF Busy, BusyAt
<1>3. Busy' <= Busy
  BY <1>1, <1>2
<1> QED
  BY <1>3 DEF NoLater

(* The same for the next state. *)
LEMMA NextTypes ==
  ASSUME Types'
  PROVE  TypeOK' /\ q' \in Links /\ (q \in Links)'
  BY DEF Types, TypeOK, Links, WorkTypes, ThreadTypes, SaveTypes

-----------------------------------------------------------------------------
(* The invariant, action by action.                                        *)

\* What is known before a step.
Before == TypeOK /\ Types /\ PhaseInv /\ AgeInv /\ ListInv /\ ~collided

(* Before a meeting of two users, Inv gives Before. *)
LEMMA BeforeStep == Inv /\ ~collided => Before
  BY TypesOK DEF Inv, Before

(* What is to be shown of it. *)
LEMMA AfterStep ==
  ASSUME Types', ~collided' => PhaseInv' /\ AgeInv' /\ ListInv'
  PROVE  Inv'
<1>1. TypeOK' /\ (q \in Links)'
  BY NextTypes
<1> QED
  BY <1>1 DEF Inv

(* A step that leaves the list, and the times of what it holds. *)
LEMMA NothingListed ==
  ASSUME Before, Types', NoLater, q' = q, clock' = clock, Listed' = Listed,
         \A w \in Listed : SameTimes(w), ~collided' => PhaseInv'
  PROVE  Inv'
<1>1. TypeOK' /\ TypeOK /\ AgeInv /\ ListInv
  BY NextTypes DEF Before
<1>2. ListInv'
  BY <1>1, ListStays
<1>3. AgeInv'
  BY <1>1, AgesStay
<1> QED
  BY <1>2, <1>3, AfterStep

(* A change of a parameter, before its call of work_queue, keeps Inv. *)
LEMMA ParamAutosaveKeepsInv ==
  ASSUME Before, NEW d \in Delays, param_autosave(d)
  PROVE  Inv'
<1>1. /\ ~setting /\ unsaved' = TRUE
      /\ changed' = (changed \/ ~autosave_disabled)
      /\ missed' = (missed /\ autosave_disabled)
      /\ UNCHANGED <<autosave_disabled, armed, stage, filling, collided>>
  BY DEF param_autosave
<1>2. /\ autosave_work \in Works /\ autosave_work \notin Others
      /\ changed' \in BOOLEAN /\ missed' \in BOOLEAN
  BY <1>1, Constants
<1>3. CASE autosave_scheduled \/ autosave_disabled
  <2>1. UNCHANGED <<queueVars, autosave_scheduled, setting>>
    BY <1>3 DEF param_autosave
  <2>2. Types'
    BY <1>1, <1>2, <2>1 DEF Before, Types, WorkTypes, ThreadTypes, SaveTypes,
                            Links, queueVars, workVars, threadVars, Far
  <2>3. NoLater
    BY <2>1, ThreadStays DEF Before, queueVars
  <2>4. /\ q' = q /\ clock' = clock /\ Listed' = Listed
        /\ \A w \in Listed : SameTimes(w)
    BY <1>1, <2>1 DEF queueVars, workVars, Listed, SameTimes
  <2>5. PhaseInv'
    BY <1>1, <1>3, <2>1 DEF Before, PhaseInv, queueVars, workVars, threadVars
  <2> QED
    BY <2>2, <2>3, <2>4, <2>5, NothingListed
<1>4. CASE ~autosave_scheduled /\ ~autosave_disabled
  <2>1. autosave_scheduled' = TRUE /\ Fill(autosave_work, d) /\ setting' = TRUE
    BY <1>4 DEF param_autosave
  <2>2. /\ worker' = worker \cup {autosave_work}
        /\ delay' = [delay EXCEPT ![autosave_work] = d]
        /\ UNCHANGED <<q, qtime, age, clock>> /\ UNCHANGED threadVars
    BY <2>1 DEF Fill
  <2>3. autosave_work \notin worker /\ stage # "requeue"
    BY <1>4 DEF Before, PhaseInv
  <2>4. Types'
    <3>1. WorkTypes' /\ ThreadTypes' /\ q' \in Links
      BY <1>2, <2>1, FillTypes DEF Before
    <3>2. SaveTypes'
      BY <1>1, <1>2, <2>1 DEF Before, Types, SaveTypes
    <3> QED
      BY <3>1, <3>2 DEF Types, Links
  <2>5. NoLater
    BY <2>2, ThreadStays DEF Before
  <2>6. Listed' = Listed
    BY <1>1, <2>1, <2>2, <2>3 DEF Listed
  <2>7. \A w \in Listed : SameTimes(w)
    BY <2>2, <2>3 DEF Listed, SameTimes, Before, Types, WorkTypes
  <2>8. PhaseInv'
    BY <1>1, <2>1, <2>2, <2>3 DEF Before, PhaseInv, threadVars
  <2> QED
    BY <2>2, <2>4, <2>5, <2>6, <2>7, <2>8, NothingListed
<1> QED
  BY <1>3, <1>4

(* Enabling the autosave keeps Inv. *)
LEMMA EnableKeepsInv ==
  ASSUME Before, EnableAutosave
  PROVE  Inv'
<1>1. /\ autosave_disabled' = FALSE
      /\ UNCHANGED <<queueVars, autosave_scheduled, unsaved, changed, missed,
                     armed, setting, stage, filling, collided>>
  BY DEF EnableAutosave
<1>2. Types'
  <2>1. WorkTypes' /\ ThreadTypes' /\ q' \in Links
    BY <1>1 DEF Before, Types, WorkTypes, ThreadTypes, Links, queueVars,
                workVars, threadVars, Far
  <2>2. SaveTypes'
    BY <1>1 DEF Before, Types, SaveTypes
  <2> QED
    BY <2>1, <2>2 DEF Types, Links
<1>3. NoLater
  BY <1>1, ThreadStays DEF Before, queueVars
<1>4. /\ q' = q /\ clock' = clock /\ Listed' = Listed
      /\ \A w \in Listed : SameTimes(w)
  BY <1>1 DEF queueVars, workVars, Listed, SameTimes
<1>5. PhaseInv'
  BY <1>1 DEF Before, PhaseInv, queueVars, workVars, threadVars
<1> QED
  BY <1>2, <1>3, <1>4, <1>5, NothingListed

(* Arming and disarming keep Inv. *)
LEMMA ArmKeepsInv ==
  ASSUME Before, Arm
  PROVE  Inv'
<1>1. /\ armed' = ~armed
      /\ UNCHANGED <<queueVars, saveVars, setting, stage, filling, collided>>
  BY DEF Arm
<1>2. Types'
  <2>1. WorkTypes' /\ ThreadTypes' /\ q' \in Links
    BY <1>1 DEF Before, Types, WorkTypes, ThreadTypes, Links, queueVars,
                workVars, threadVars, Far
  <2>2. SaveTypes'
    BY <1>1 DEF Before, Types, SaveTypes, saveVars
  <2> QED
    BY <2>1, <2>2 DEF Types, Links
<1>3. NoLater
  BY <1>1, ThreadStays DEF Before, queueVars
<1>4. /\ q' = q /\ clock' = clock /\ Listed' = Listed
      /\ \A w \in Listed : SameTimes(w)
  BY <1>1 DEF queueVars, workVars, Listed, SameTimes
<1>5. PhaseInv'
  BY <1>1 DEF Before, PhaseInv, queueVars, workVars, threadVars, saveVars
<1> QED
  BY <1>2, <1>3, <1>4, <1>5, NothingListed

(* A step that queues a work. *)
LEMMA OneListed ==
  ASSUME Before, Types', NoLater, NEW w \in Works, w \notin Listed,
         work_queue(w), Listed' = Listed \cup {w}, ~collided' => PhaseInv'
  PROVE  Inv'
<1>1. TypeOK' /\ TypeOK /\ AgeInv /\ ListInv /\ q \in Links
  BY NextTypes DEF Before, Types
<1>2. /\ q' = dq_addlast(w, q) /\ clock' = clock /\ delay' = delay
      /\ age' = [age EXCEPT ![w] = 0] /\ qtime' = [qtime EXCEPT ![w] = clock]
  BY DEF work_queue
<1>3. age \in [Works -> 0..Far] /\ qtime \in [Works -> 0..(ClockRange - 1)]
      /\ Listed \subseteq Works
  BY DEF Before, Types, WorkTypes, Listed
<1>4. age'[w] = 0 /\ qtime'[w] = clock /\ \A x \in Listed : SameTimes(x)
  BY <1>2, <1>3 DEF SameTimes
<1>5. ListInv'
  BY <1>1, <1>2, <1>4, ListGrows
<1>6. AgeInv'
  <2>1. ASSUME NEW x \in Listed'
        PROVE  \/ age'[x] = Far
               \/ clock' - qtime'[x] = age'[x]
               \/ clock' - qtime'[x] = age'[x] - ClockRange
    <3>1. CASE x = w
      <4>1. clock - clock = 0
        BY <1>1, TimeTypes
      <4> QED
        BY <1>2, <1>4, <3>1, <4>1
    <3>2. CASE x # w
      BY <1>1, <1>2, <1>4, <2>1, <3>2 DEF AgeInv, SameTimes
    <3> QED
      BY <3>1, <3>2
  <2> QED
    BY <2>1 DEF AgeInv, Far
<1> QED
  BY <1>5, <1>6, AfterStep

(* A step that cancels a work in the list. *)
LEMMA OneCancelled ==
  ASSUME Before, Types', NoLater, NEW w \in Works, w \in Listed,
         q' = dq_rem(w, q), Leaves(w), clock' = clock, Listed' = Listed \ {w},
         ~collided' => PhaseInv'
  PROVE  Inv'
<1>1. TypeOK' /\ TypeOK /\ AgeInv /\ ListInv /\ q \in Links
  BY NextTypes DEF Before, Types
<1>2. \A x \in Listed' : SameTimes(x)
  BY DEF Leaves, SameTimes, Listed, Before, Types, WorkTypes
<1>3. ListInv'
  BY <1>1, <1>2, ListShrinks
<1>4. AgeInv'
  BY <1>1, <1>2, AgesStay
<1> QED
  BY <1>3, <1>4, AfterStep

(* param_autosave queues its work. *)
LEMMA AutosaveQueuesKeepsInv ==
  ASSUME Before, AutosaveQueues
  PROVE  Inv'
<1>1. /\ setting /\ work_queue(autosave_work) /\ setting' = FALSE
      /\ UNCHANGED <<threadVars, saveVars, armed, stage, filling, collided>>
  BY DEF AutosaveQueues
<1>2. autosave_work \in Works /\ autosave_work \notin Others
  BY Constants
<1>3. worker' = worker
  BY <1>1 DEF work_queue
<1>4. autosave_work \in worker /\ stage # "requeue"
      /\ autosave_work \notin filling
  BY <1>1, <1>2 DEF Before, PhaseInv, Types, SaveTypes
<1>5. Types'
  <2>1. WorkTypes' /\ q' \in Links
    BY <1>1, <1>2, QueueTypes DEF Before
  <2>2. ThreadTypes' /\ SaveTypes'
    BY <1>1 DEF Before, Types, ThreadTypes, SaveTypes, threadVars, saveVars
  <2> QED
    BY <2>1, <2>2 DEF Types, Links
<1>6. NoLater
  BY <1>1, ThreadStays DEF Before
<1>7. autosave_work \notin Listed /\ Listed' = Listed \cup {autosave_work}
  BY <1>1, <1>3, <1>4 DEF Listed
<1>8. PhaseInv'
  BY <1>1, <1>3, <1>4 DEF Before, PhaseInv, threadVars, saveVars
<1> QED
  BY <1>1, <1>2, <1>5, <1>6, <1>7, <1>8, OneListed

(* autosave_worker queues its own work again. *)
LEMMA WorkerRequeuesKeepsInv ==
  ASSUME Before, WorkerRequeues
  PROVE  Inv'
<1>1. /\ tpc = "run" /\ work = autosave_work /\ stage = "requeue"
      /\ work_queue(autosave_work) /\ Return /\ stage' = "start"
      /\ UNCHANGED <<saveVars, armed, setting, filling, collided>>
  BY DEF WorkerRequeues, Running
<1>2. autosave_work \in Works /\ autosave_work \notin Others
  BY Constants
<1>3. worker' = worker /\ tpc' = "process" /\ work' = NULL
  BY <1>1 DEF work_queue, Return
<1>4. autosave_work \in worker /\ ~setting /\ autosave_work \notin filling
      /\ autosave_scheduled
  BY <1>1, <1>2 DEF Before, PhaseInv, Types, SaveTypes
<1>5. Types'
  <2>1. WorkTypes' /\ q' \in Links
    BY <1>1, <1>2, QueueTypes DEF Before
  <2>2. ThreadTypes'
    BY <1>1, ReturnTypes DEF Before
  <2>3. SaveTypes'
    BY <1>1 DEF Before, Types, SaveTypes, saveVars
  <2> QED
    BY <2>1, <2>2, <2>3 DEF Types, Links
<1>6. NoLater
  BY <1>3, ThreadReturns DEF Before
<1>7. autosave_work \notin Listed /\ Listed' = Listed \cup {autosave_work}
  BY <1>1, <1>3, <1>4 DEF Listed
<1>8. PhaseInv'
  BY <1>1, <1>3, <1>4 DEF Before, PhaseInv, saveVars
<1> QED
  BY <1>1, <1>2, <1>5, <1>6, <1>7, <1>8, OneListed

(* The caller of another work queues it. *)
LEMMA OtherQueuesKeepsInv ==
  ASSUME Before, NEW w \in Others, OtherQueues(w)
  PROVE  Inv'
<1>1. /\ w \in filling /\ work_queue(w) /\ filling' = filling \ {w}
      /\ UNCHANGED <<threadVars, saveVars, armed, setting, stage, collided>>
  BY DEF OtherQueues
<1>2. w \in Works /\ w # autosave_work
  BY Constants
<1>3. worker' = worker
  BY <1>1 DEF work_queue
<1>4. w \in worker
  BY <1>1 DEF Before, PhaseInv
<1>5. Types'
  <2>1. WorkTypes' /\ q' \in Links
    BY <1>1, <1>2, QueueTypes DEF Before
  <2>2. ThreadTypes' /\ SaveTypes'
    BY <1>1 DEF Before, Types, ThreadTypes, SaveTypes, threadVars, saveVars
  <2> QED
    BY <2>1, <2>2 DEF Types, Links
<1>6. NoLater
  BY <1>1, ThreadStays DEF Before
<1>7. w \notin Listed /\ Listed' = Listed \cup {w}
  BY <1>1, <1>2, <1>3, <1>4 DEF Listed
<1>8. PhaseInv'
  BY <1>1, <1>3 DEF Before, PhaseInv, threadVars, saveVars
<1> QED
  BY <1>1, <1>2, <1>5, <1>6, <1>7, <1>8, OneListed

(* The caller of another work fills it in, which is not in the list. *)
LEMMA OtherFillsKeepsInv ==
  ASSUME Before, NEW w \in Others, NEW d \in Delays, OtherFills(w, d)
  PROVE  Inv'
<1>1. /\ w \notin worker /\ Fill(w, d) /\ filling' = filling \cup {w}
      /\ UNCHANGED <<saveVars, armed, setting, stage, collided>>
  BY DEF OtherFills
<1>2. w \in Works /\ w # autosave_work
  BY Constants
<1>3. /\ worker' = worker \cup {w} /\ delay' = [delay EXCEPT ![w] = d]
      /\ UNCHANGED <<q, qtime, age, clock>> /\ UNCHANGED threadVars
  BY <1>1 DEF Fill
<1>4. Types'
  <2>1. WorkTypes' /\ ThreadTypes' /\ q' \in Links
    BY <1>1, <1>2, FillTypes DEF Before
  <2>2. SaveTypes'
    BY <1>1 DEF Before, Types, SaveTypes, saveVars
  <2> QED
    BY <2>1, <2>2 DEF Types, Links
<1>5. NoLater
  BY <1>3, ThreadStays DEF Before
<1>6. Listed' = Listed
  BY <1>1, <1>3 DEF Listed
<1>7. \A x \in Listed : SameTimes(x)
  BY <1>1, <1>3 DEF Listed, SameTimes, Before, Types, WorkTypes
<1>8. PhaseInv'
  BY <1>1, <1>2, <1>3 DEF Before, PhaseInv, threadVars, saveVars
<1> QED
  BY <1>3, <1>4, <1>5, <1>6, <1>7, <1>8, NothingListed

(* The types after a cancel. *)
LEMMA CancelTypes ==
  ASSUME Types, NEW w \in Works, work_cancel(w)
  PROVE  WorkTypes' /\ ThreadTypes' /\ q' \in Links
<1>1. WorkTypes'
  BY LeavesTypes DEF work_cancel
<1>2. ThreadTypes'
  BY DEF work_cancel, threadVars, Types, ThreadTypes
<1>3. q \in Links /\ dq_rem(w, q) \in Links
  BY RemLinks DEF Types
<1>4. q' \in Links
  BY <1>3 DEF work_cancel
<1> QED
  BY <1>1, <1>2, <1>4

(* param_control_autosave(false) takes the work out if it is in the list. *)
LEMMA DisableKeepsInv ==
  ASSUME Before, DisableAutosave
  PROVE  Inv'
<1>1. /\ ~setting /\ autosave_scheduled' = FALSE /\ autosave_disabled' = TRUE
      /\ changed' = FALSE /\ missed' = TRUE
      /\ collided' = (collided \/ (autosave_scheduled /\ stage = "requeue"))
      /\ UNCHANGED <<unsaved, armed, setting, stage, filling>>
  BY DEF DisableAutosave, Unschedule
<1>2. autosave_work \in Works /\ autosave_work \notin Others
  BY Constants
<1>3. autosave_work \notin filling
  BY <1>2 DEF Before, Types, SaveTypes
<1>4. SaveTypes'
  BY <1>1 DEF Before, Types, SaveTypes
<1>5. CASE autosave_scheduled
  <2>1. work_cancel(autosave_work)
    BY <1>5 DEF DisableAutosave
  <2>2. /\ Leaves(autosave_work) /\ worker' = worker \ {autosave_work}
        /\ clock' = clock /\ UNCHANGED threadVars
        /\ q' = IF autosave_work \in worker THEN dq_rem(autosave_work, q) ELSE q
    BY <2>1 DEF work_cancel, Leaves
  <2>3. Types'
    <3>1. WorkTypes' /\ ThreadTypes' /\ q' \in Links
      BY <1>2, <2>1, CancelTypes DEF Before
    <3> QED
      BY <1>4, <3>1 DEF Types, Links
  <2>4. NoLater
    BY <2>2, ThreadStays DEF Before
  <2>5. CASE stage = "requeue"
    BY <1>1, <1>5, <2>3, <2>5, AfterStep
  <2>6. CASE stage # "requeue"
    <3>1. PhaseInv'
      BY <1>1, <1>3, <2>2, <2>6 DEF Before, PhaseInv, threadVars
    <3>2. Listed' = Listed \ {autosave_work}
      BY <1>1, <2>2 DEF Listed
    <3>3. CASE autosave_work \in worker
      <4>1. autosave_work \in Listed
        BY <1>1, <1>3, <2>6, <3>3 DEF Listed
      <4>2. q' = dq_rem(autosave_work, q)
        BY <2>2, <3>3
      <4> QED
        BY <1>2, <2>2, <2>3, <2>4, <3>1, <3>2, <4>1, <4>2, OneCancelled
    <3>4. CASE autosave_work \notin worker
      <4>1. Listed' = Listed /\ q' = q
        BY <2>2, <3>2, <3>4 DEF Listed
      <4>2. \A x \in Listed : SameTimes(x)
        BY <2>2, <3>4 DEF Leaves, Listed, SameTimes, Before, Types, WorkTypes
      <4> QED
        BY <2>2, <2>3, <2>4, <3>1, <4>1, <4>2, NothingListed
    <3> QED
      BY <3>3, <3>4
  <2> QED
    BY <2>5, <2>6
<1>6. CASE ~autosave_scheduled
  <2>1. UNCHANGED queueVars
    BY <1>6 DEF DisableAutosave
  <2>2. Types'
    BY <1>4, <2>1 DEF Before, Types, WorkTypes, ThreadTypes, Links,
                      queueVars, workVars, threadVars, Far
  <2>3. NoLater
    BY <2>1, ThreadStays DEF Before, queueVars
  <2>4. /\ q' = q /\ clock' = clock /\ Listed' = Listed
        /\ \A w \in Listed : SameTimes(w)
    BY <1>1, <2>1 DEF queueVars, workVars, Listed, SameTimes
  <2>5. PhaseInv'
    BY <1>1, <1>6, <2>1 DEF Before, PhaseInv, queueVars, workVars, threadVars
  <2> QED
    BY <2>2, <2>3, <2>4, <2>5, NothingListed
<1> QED
  BY <1>5, <1>6

(* A cancel of another work, which finds it in the list or not at all. *)
LEMMA OtherCancelsKeepsInv ==
  ASSUME Before, NEW w \in Others, OtherCancels(w)
  PROVE  Inv'
<1>1. /\ w \notin filling /\ work_cancel(w)
      /\ UNCHANGED <<saveVars, armed, setting, stage, filling, collided>>
  BY DEF OtherCancels
<1>2. w \in Works /\ w # autosave_work
  BY Constants
<1>3. /\ Leaves(w) /\ worker' = worker \ {w}
      /\ clock' = clock /\ UNCHANGED threadVars
      /\ q' = IF w \in worker THEN dq_rem(w, q) ELSE q
  BY <1>1 DEF work_cancel, Leaves
<1>4. Types'
  <2>1. WorkTypes' /\ ThreadTypes' /\ q' \in Links
    BY <1>1, <1>2, CancelTypes DEF Before
  <2>2. SaveTypes'
    BY <1>1 DEF Before, Types, SaveTypes, saveVars
  <2> QED
    BY <2>1, <2>2 DEF Types, Links
<1>5. NoLater
  BY <1>3, ThreadStays DEF Before
<1>6. PhaseInv'
  BY <1>1, <1>2, <1>3 DEF Before, PhaseInv, threadVars, saveVars
<1>7. Listed' = Listed \ {w}
  BY <1>1, <1>3 DEF Listed
<1>8. CASE w \in worker
  <2>1. w \in Listed
    BY <1>1, <1>2, <1>8 DEF Listed
  <2>2. q' = dq_rem(w, q)
    BY <1>3, <1>8
  <2> QED
    BY <1>2, <1>3, <1>4, <1>5, <1>6, <1>7, <2>1, <2>2, OneCancelled
<1>9. CASE w \notin worker
  <2>1. Listed' = Listed /\ q' = q
    BY <1>3, <1>7, <1>9 DEF Listed
  <2>2. \A x \in Listed : SameTimes(x)
    BY <1>3, <1>9 DEF Leaves, Listed, SameTimes, Before, Types, WorkTypes
  <2> QED
    BY <1>3, <1>4, <1>5, <1>6, <2>1, <2>2, NothingListed
<1> QED
  BY <1>8, <1>9

(* autosave_worker puts itself off: its work is out of the list, or it has *)
(* collided with a caller.                                                 *)
LEMMA WorkerDefersKeepsInv ==
  ASSUME Before, NEW d \in Delays, WorkerDefers(d)
  PROVE  Inv'
<1>1. /\ tpc = "run" /\ work = autosave_work /\ stage = "start"
      /\ collided' = (collided \/ ~autosave_scheduled \/ autosave_work \in worker)
      /\ Fill(autosave_work, d) /\ stage' = "requeue"
      /\ UNCHANGED <<saveVars, armed, setting, filling>>
  BY DEF WorkerDefers, Running
<1>2. autosave_work \in Works /\ autosave_work \notin Others
  BY Constants
<1>3. /\ worker' = worker \cup {autosave_work}
      /\ delay' = [delay EXCEPT ![autosave_work] = d]
      /\ UNCHANGED <<q, qtime, age, clock>> /\ UNCHANGED threadVars
  BY <1>1 DEF Fill
<1>4. Types'
  <2>1. WorkTypes' /\ ThreadTypes' /\ q' \in Links
    BY <1>1, <1>2, FillTypes DEF Before
  <2>2. SaveTypes'
    <3>1. collided' \in BOOLEAN
      BY <1>1
    <3> QED
      BY <1>1, <3>1 DEF Before, Types, SaveTypes, saveVars
  <2> QED
    BY <2>1, <2>2 DEF Types, Links
<1>5. CASE collided'
  BY <1>4, <1>5, AfterStep
<1>6. CASE ~collided'
  <2>1. autosave_scheduled /\ autosave_work \notin worker
    BY <1>1, <1>6
  <2>2. ~setting
    BY <2>1 DEF Before, PhaseInv
  <2>3. NoLater
    BY <1>3, ThreadStays DEF Before
  <2>4. Listed' = Listed
    BY <1>1, <1>3, <2>1 DEF Listed
  <2>5. \A x \in Listed : SameTimes(x)
    BY <1>3, <2>1 DEF Listed, SameTimes, Before, Types, WorkTypes
  <2>6. PhaseInv'
    BY <1>1, <1>3, <2>1, <2>2 DEF Before, PhaseInv, threadVars, saveVars
  <2> QED
    BY <1>3, <1>4, <2>3, <2>4, <2>5, <2>6, NothingListed
<1> QED
  BY <1>5, <1>6

(* autosave_worker takes back the schedule. *)
LEMMA WorkerRecordsKeepsInv ==
  ASSUME Before, WorkerRecords
  PROVE  Inv'
<1>1. /\ tpc = "run" /\ work = autosave_work /\ stage = "start" /\ ~setting
      /\ autosave_scheduled' = FALSE /\ changed' = FALSE
      /\ missed' = (missed /\ autosave_disabled)
      /\ collided' = (collided \/ autosave_work \in worker)
      /\ UNCHANGED <<q, workVars, clock, autosave_disabled, unsaved, armed,
                     setting, filling>>
  BY DEF WorkerRecords, Running, Unschedule
<1>2. \/ autosave_disabled /\ Return /\ stage' = stage
      \/ ~autosave_disabled /\ stage' = "save" /\ UNCHANGED threadVars
  BY DEF WorkerRecords
<1>3. Types'
  <2>1. WorkTypes' /\ q' \in Links
    BY <1>1 DEF Before, Types, WorkTypes, workVars, Links, Far
  <2>2. ThreadTypes'
    BY <1>2, ReturnTypes DEF Before, Types, ThreadTypes, threadVars
  <2>3. SaveTypes'
    <3>1. stage' \in {"start", "requeue", "save"}
      BY <1>1, <1>2
    <3>2. collided' \in BOOLEAN /\ missed' \in BOOLEAN
      BY <1>1
    <3> QED
      BY <1>1, <3>1, <3>2 DEF Before, Types, SaveTypes
  <2> QED
    BY <2>1, <2>2, <2>3 DEF Types, Links
<1>4. NoLater
  <2>1. CASE Return
    BY <2>1, ThreadReturns DEF Before, Return
  <2>2. CASE UNCHANGED threadVars
    BY <2>2, ThreadStays DEF Before
  <2> QED
    BY <1>2, <2>1, <2>2
<1>5. /\ q' = q /\ clock' = clock /\ Listed' = Listed
      /\ \A w \in Listed : SameTimes(w)
  BY <1>1, <1>2 DEF workVars, Listed, SameTimes
<1>6. ASSUME ~collided' PROVE PhaseInv'
  <2>1. autosave_work \notin worker /\ worker' = worker
    BY <1>1, <1>6 DEF workVars
  <2>2. CASE autosave_disabled /\ Return /\ stage' = stage
    BY <1>1, <2>1, <2>2 DEF Before, PhaseInv, Return
  <2>3. CASE ~autosave_disabled /\ stage' = "save" /\ UNCHANGED threadVars
    BY <1>1, <2>1, <2>3 DEF Before, PhaseInv, threadVars
  <2> QED
    BY <1>2, <2>2, <2>3
<1> QED
  BY <1>3, <1>4, <1>5, <1>6, NothingListed

(* autosave_worker saves, or fails to, and returns. *)
LEMMA WorkerSavesKeepsInv ==
  ASSUME Before, NEW ok \in BOOLEAN, WorkerSaves(ok)
  PROVE  Inv'
<1>1. /\ tpc = "run" /\ work = autosave_work /\ stage = "save"
      /\ unsaved' = (unsaved /\ ~ok) /\ missed' = (missed \/ ~ok)
      /\ stage' = "start" /\ Return
      /\ UNCHANGED <<q, workVars, clock, autosave_scheduled, autosave_disabled,
                     changed, armed, setting, filling, collided>>
  BY DEF WorkerSaves, param_save_default, Running
<1>2. Types'
  <2>1. WorkTypes' /\ q' \in Links
    BY <1>1 DEF Before, Types, WorkTypes, workVars, Links, Far
  <2>2. ThreadTypes'
    BY <1>1, ReturnTypes DEF Before
  <2>3. SaveTypes'
    <3>1. unsaved' \in BOOLEAN /\ missed' \in BOOLEAN
      BY <1>1
    <3> QED
      BY <1>1, <3>1 DEF Before, Types, SaveTypes
  <2> QED
    BY <2>1, <2>2, <2>3 DEF Types, Links
<1>3. NoLater
  BY <1>1, ThreadReturns DEF Before, Return
<1>4. /\ q' = q /\ clock' = clock /\ Listed' = Listed
      /\ \A w \in Listed : SameTimes(w)
  BY <1>1 DEF workVars, Listed, SameTimes
<1>5. PhaseInv'
  BY <1>1 DEF Before, PhaseInv, Return, workVars
<1> QED
  BY <1>2, <1>3, <1>4, <1>5, NothingListed

(* Another worker returns. *)
LEMMA OtherReturnsKeepsInv ==
  ASSUME Before, OtherReturns
  PROVE  Inv'
<1>1. /\ tpc = "run" /\ work \in Others /\ Return
      /\ UNCHANGED <<q, workVars, clock, saveVars, armed, setting, stage,
                     filling, collided>>
  BY DEF OtherReturns
<1>2. work # autosave_work
  BY <1>1, Constants
<1>3. Types'
  <2>1. WorkTypes' /\ q' \in Links
    BY <1>1 DEF Before, Types, WorkTypes, workVars, Links, Far
  <2>2. ThreadTypes'
    BY <1>1, ReturnTypes DEF Before
  <2>3. SaveTypes'
    BY <1>1 DEF Before, Types, SaveTypes, saveVars
  <2> QED
    BY <2>1, <2>2, <2>3 DEF Types, Links
<1>4. NoLater
  BY <1>1, ThreadReturns DEF Before, Return
<1>5. /\ q' = q /\ clock' = clock /\ Listed' = Listed
      /\ \A w \in Listed : SameTimes(w)
  BY <1>1 DEF workVars, Listed, SameTimes
<1>6. PhaseInv'
  BY <1>1, <1>2 DEF Before, PhaseInv, Return, workVars, saveVars
<1> QED
  BY <1>3, <1>4, <1>5, <1>6, NothingListed

(* The thread takes out the first work that is ready. *)
LEMMA ProcessKeepsInv ==
  ASSUME Before, NEW k \in DOMAIN Entry, Process(k),
         UNCHANGED <<saveVars, armed, setting, stage, filling, collided>>
  PROVE  Inv'
<1> DEFINE w == Entry[k]
<1>1. PICK s \in Seq(Works) : Spells(s, q, Listed)
  BY DEF Before, ListInv
<1>2. /\ k + 1 \in 1..Len(s) /\ w = s[k + 1] /\ w \in Works
      /\ next' \in 0..WORKPERIOD
  BY <1>1, ProcessTakes DEF Before
<1>3. w \in Listed
  BY <1>1, <1>2 DEF Spells, Has
<1>4. /\ tpc = "process" /\ q' = dq_rem(w, q) /\ Leaves(w)
      /\ worker' = worker \ {w} /\ work' = w /\ tpc' = "run"
      /\ clock' = clock /\ ran' = ran
  BY DEF Process, Leaves
<1> HIDE DEF w
<1>5. w # NULL /\ w \in worker /\ w \notin filling
      /\ (w = autosave_work => ~setting /\ stage # "requeue")
  BY <1>2, <1>3, Constants DEF Listed
<1>6. Types'
  <2>1. WorkTypes'
    BY <1>2, <1>4, LeavesTypes DEF Before
  <2>2. q' \in Links
    BY <1>2, <1>4, RemLinks DEF Before, Types
  <2>3. ThreadTypes'
    BY <1>2, <1>4 DEF Before, Types, ThreadTypes
  <2>4. SaveTypes'
    BY DEF Before, Types, SaveTypes, saveVars
  <2> QED
    BY <2>1, <2>2, <2>3, <2>4 DEF Types, Links
<1>7. Listed' = Listed \ {w}
  BY <1>4 DEF Listed
<1>8. \A x \in Listed' : SameTimes(x)
  BY <1>4 DEF Leaves, Listed, SameTimes, Before, Types, WorkTypes
<1>9. TypeOK' /\ TypeOK /\ AgeInv /\ ListInv /\ q \in Links
  BY <1>6, NextTypes DEF Before, Types
<1>10. ListInv'
  BY <1>2, <1>7, <1>8, <1>9, ProcessKeepsList DEF w
<1>11. AgeInv'
  BY <1>4, <1>7, <1>8, <1>9, AgesStay
<1>12. PhaseInv'
  <2>1. stage = "start" /\ work = NULL /\ autosave_work # NULL
    BY <1>4, Constants DEF Before, PhaseInv
  <2> QED
    BY <1>4, <1>5, <2>1 DEF Before, PhaseInv, saveVars
<1> QED
  BY <1>6, <1>10, <1>11, <1>12, AfterStep

(* The thread goes to sleep, *)
LEMMA SleepKeepsInv ==
  ASSUME Before, Sleep,
         UNCHANGED <<saveVars, armed, setting, stage, filling, collided>>
  PROVE  Inv'
<1>1. PICK s \in Seq(Works) : Spells(s, q, Listed)
  BY DEF Before, ListInv
<1>2. next' \in 0..WORKPERIOD
  BY <1>1, SleepPasses DEF Before
<1>3. /\ tpc = "process" /\ tpc' = "sleep"
      /\ UNCHANGED <<q, workVars, clock, work, ran>>
  BY DEF Sleep
<1>4. Types'
  <2>1. WorkTypes' /\ q' \in Links
    BY <1>3 DEF Before, Types, WorkTypes, workVars, Links, Far
  <2>2. ThreadTypes'
    BY <1>2, <1>3 DEF Before, Types, ThreadTypes
  <2>3. SaveTypes'
    BY DEF Before, Types, SaveTypes, saveVars
  <2> QED
    BY <2>1, <2>2, <2>3 DEF Types, Links
<1>5. Listed' = Listed /\ \A w \in Listed : SameTimes(w)
  BY <1>3 DEF Listed, SameTimes, workVars
<1>6. TypeOK' /\ TypeOK /\ AgeInv /\ ListInv
  BY <1>4, NextTypes DEF Before
<1>7. ListInv'
  BY <1>5, <1>6, SleepKeepsList
<1>8. AgeInv'
  BY <1>3, <1>5, <1>6, AgesStay
<1>9. PhaseInv'
  BY <1>3 DEF Before, PhaseInv, workVars, saveVars
<1> QED
  BY <1>4, <1>7, <1>8, <1>9, AfterStep

(* and wakes. *)
LEMMA WakeKeepsInv ==
  ASSUME Before, Wake,
         UNCHANGED <<saveVars, armed, setting, stage, filling, collided>>
  PROVE  Inv'
<1>1. /\ tpc = "sleep" /\ tpc' = "process" /\ next' = WORKPERIOD
      /\ UNCHANGED <<q, workVars, clock, work, ran>>
  BY DEF Wake
<1>2. WORKPERIOD \in 0..WORKPERIOD
  BY Constants
<1>3. Types'
  <2>1. WorkTypes' /\ q' \in Links
    BY <1>1 DEF Before, Types, WorkTypes, workVars, Links, Far
  <2>2. ThreadTypes'
    BY <1>1, <1>2 DEF Before, Types, ThreadTypes
  <2>3. SaveTypes'
    BY DEF Before, Types, SaveTypes, saveVars
  <2> QED
    BY <2>1, <2>2, <2>3 DEF Types, Links
<1>4. NoLater
  BY <1>1, ThreadReturns DEF Before
<1>5. /\ q' = q /\ clock' = clock /\ Listed' = Listed
      /\ \A w \in Listed : SameTimes(w)
  BY <1>1 DEF Listed, SameTimes, workVars
<1>6. PhaseInv'
  BY <1>1 DEF Before, PhaseInv, workVars, saveVars
<1> QED
  BY <1>3, <1>4, <1>5, <1>6, NothingListed

(* A microsecond passes. *)
LEMMA TimeKeepsInv ==
  ASSUME Before, TimePasses
  PROVE  Inv'
<1>1. /\ Tick
      /\ UNCHANGED <<saveVars, armed, setting, stage, filling, collided>>
      /\ UNCHANGED <<q, worker, delay, qtime, tpc, work>>
  BY DEF TimePasses, Tick
<1>2. ran' \in 0..MaxRun /\ next' \in 0..WORKPERIOD
  <2>1. ran \in 0..MaxRun /\ next \in 0..WORKPERIOD
    BY DEF Before, Types, ThreadTypes
  <2>2. MaxRun \in Nat /\ WORKPERIOD \in Nat
    BY Constants
  <2>3. CASE ran < MaxRun /\ ran' = ran + 1 /\ next' = next
    BY <2>1, <2>2, <2>3
  <2>4. CASE next > 0 /\ next' = next - 1 /\ ran' = ran
    BY <2>1, <2>2, <2>4
  <2> QED
    BY <1>1, <2>3, <2>4 DEF Tick
<1>3. clock' \in 0..(ClockRange - 1)
  <2>1. clock + 1 \in Nat /\ ClockRange \in Nat \ {0}
    BY TimeTypes, Constants DEF Before
  <2>2. (clock + 1) % ClockRange \in 0..(ClockRange - 1)
    BY <2>1
  <2> QED
    BY <1>1, <2>2 DEF Tick
<1>4. age' \in [Works -> 0..Far]
  <2>1. ASSUME NEW w \in Works
        PROVE  (IF w \in worker THEN Min({age[w] + 1, Far}) ELSE 0) \in 0..Far
    <3>1. age[w] + 1 \in Nat /\ Far \in Nat /\ 0 \in 0..Far
      BY TimeTypes, Constants DEF Before
    <3>2. Min({age[w] + 1, Far}) \in 0..Far
      BY <3>1, Capped
    <3> QED
      BY <3>1, <3>2
  <2> QED
    BY <1>1, <2>1 DEF Tick
<1>5. Types'
  <2>1. WorkTypes' /\ q' \in Links
    BY <1>1, <1>3, <1>4 DEF Before, Types, WorkTypes, Links, Far
  <2>2. ThreadTypes'
    BY <1>1, <1>2 DEF Before, Types, ThreadTypes
  <2>3. SaveTypes'
    BY <1>1 DEF Before, Types, SaveTypes, saveVars
  <2> QED
    BY <2>1, <2>2, <2>3 DEF Types, Links
<1>6. Listed' = Listed
  BY <1>1 DEF Listed
<1>7. TypeOK' /\ TypeOK /\ AgeInv /\ ListInv
  BY <1>5, NextTypes DEF Before
<1>8. ListInv'
  BY <1>1, <1>6, <1>7, TickKeepsList
<1>9. AgeInv'
  BY <1>1, <1>6, <1>7, TickKeepsAges
<1>10. PhaseInv'
  BY <1>1 DEF Before, PhaseInv, saveVars
<1> QED
  BY <1>5, <1>8, <1>9, <1>10, AfterStep

-----------------------------------------------------------------------------
(* The theorems.                                                           *)

(* Everything is empty at first. *)
LEMMA InitInv == Init => Inv
<1> SUFFICES ASSUME Init PROVE Inv
  OBVIOUS
<1>1. /\ 0 \in 0..Far /\ 0 \in 0..(ClockRange - 1) /\ 0 \in 0..MaxRun
      /\ WORKPERIOD \in 0..WORKPERIOD
  BY Constants
<1>2. q \in Links
  BY DEF Init, QueueInit, Links
<1>3. Types
  <2>1. WorkTypes
    BY <1>1 DEF Init, QueueInit, WorkTypes
  <2>2. ThreadTypes
    BY <1>1 DEF Init, QueueInit, ThreadTypes
  <2>3. SaveTypes
    BY DEF Init, SaveTypes
  <2> QED
    BY <1>2, <2>1, <2>2, <2>3 DEF Types
<1>4. Listed = {}
  BY DEF Init, QueueInit, Listed
<1>5. PhaseInv
  BY Constants DEF Init, QueueInit, PhaseInv
<1>6. AgeInv
  BY <1>4 DEF AgeInv
<1>7. ListInv
  <2> DEFINE s == <<>>
  <2>1. s \in Seq(Works) /\ Len(s) = 0
    OBVIOUS
  <2>2. Spells(s, q, Listed) /\ WaitInv(s)
    BY <1>4, <2>1 DEF Spells, WaitInv, Distinct, Has, Init, QueueInit
  <2> QED
    BY <2>1, <2>2 DEF ListInv
<1> QED
  BY <1>2, <1>3, <1>5, <1>6, <1>7, TypesOK DEF Inv

(* Every step keeps the invariant, and so does doing nothing. *)
LEMMA NextKeepsInv ==
  ASSUME Inv, [Next]_vars
  PROVE  Inv'
<1>1. CASE UNCHANGED vars
  <2>1. /\ TypeOK' <=> TypeOK
        /\ q' = q /\ collided' = collided
        /\ PhaseInv' <=> PhaseInv
    BY <1>1 DEF TypeOK, PhaseInv, vars, queueVars, workVars, threadVars,
                saveVars, Far, Links
  <2>2. AgeInv' <=> AgeInv
    BY <1>1 DEF AgeInv, Listed, vars, queueVars, workVars, threadVars,
                saveVars, Far
  <2>3. ListInv' <=> ListInv
    BY <1>1 DEF ListInv, WaitInv, Waits, Busy, BusyAt, ClockIsLong, Late, Runs,
                N, Spells, Listed, vars, queueVars, workVars, threadVars,
                saveVars
  <2> QED
    BY <2>1, <2>2, <2>3 DEF Inv, Links
<1>2. CASE Next
  <2>1. Before /\ Step
    BY <1>2, BeforeStep DEF Next
  <2>2. ASSUME NEW d \in Delays, param_autosave(d) PROVE Inv'
    BY <2>1, <2>2, ParamAutosaveKeepsInv
  <2>3. CASE AutosaveQueues
    BY <2>1, <2>3, AutosaveQueuesKeepsInv
  <2>4. CASE DisableAutosave
    BY <2>1, <2>4, DisableKeepsInv
  <2>5. CASE EnableAutosave
    BY <2>1, <2>5, EnableKeepsInv
  <2>6. CASE Arm
    BY <2>1, <2>6, ArmKeepsInv
  <2>7. ASSUME NEW w \in Others, NEW d \in Delays, OtherFills(w, d) PROVE Inv'
    BY <2>1, <2>7, OtherFillsKeepsInv
  <2>8. ASSUME NEW w \in Others, OtherQueues(w) PROVE Inv'
    BY <2>1, <2>8, OtherQueuesKeepsInv
  <2>9. ASSUME NEW w \in Others, OtherCancels(w) PROVE Inv'
    BY <2>1, <2>9, OtherCancelsKeepsInv
  <2>10. CASE Workers
    BY <2>1, <2>10, WorkerDefersKeepsInv, WorkerRequeuesKeepsInv,
       WorkerRecordsKeepsInv, WorkerSavesKeepsInv, OtherReturnsKeepsInv
       DEF Workers
  <2>11. CASE Thread
    BY <2>1, <2>11, ProcessKeepsInv, SleepKeepsInv, WakeKeepsInv DEF Thread
  <2>12. CASE TimePasses
    BY <2>1, <2>12, TimeKeepsInv
  <2> QED
    BY <2>1, <2>2, <2>3, <2>4, <2>5, <2>6, <2>7, <2>8, <2>9, <2>10, <2>11,
       <2>12 DEF Step
<1> QED
  BY <1>1, <1>2

(* The invariant holds in every reachable state. *)
THEOREM Invariance == Spec => []Inv
<1>1. Inv /\ [Next]_vars => Inv'
  BY NextKeepsInv
<1> QED
  BY <1>1, InitInv, PTL DEF Spec

(* The variables have their types. *)
THEOREM TypeCorrect == Spec => []TypeOK
<1>1. Inv => TypeOK
  BY DEF Inv
<1> QED
  BY <1>1, Invariance, PTL

(* A list that is spelled by a sequence is sound. *)
LEMMA SpelledIsSound == Inv => ListIsSound
<1> SUFFICES ASSUME Inv, ~collided
             PROVE  /\ {Entry[k] : k \in DOMAIN Entry} = Listed \cup {NULL}
                    /\ \A w \in Listed :
                         /\ q.blink[w] = NULL <=> q.head = w
                         /\ q.flink[w] = NULL <=> q.tail = w
                         /\ q.flink[w] # NULL => q.blink[q.flink[w]] = w
  BY DEF ListIsSound
<1>1. PICK s \in Seq(Works) : Spells(s, q, Listed)
  BY DEF Inv, ListInv
<1> DEFINE n == Len(s)
<1>2. /\ n \in Nat /\ n <= N /\ N \in Nat /\ NULL \notin Works
      /\ Listed \subseteq Works
  BY <1>1, ShortList, Constants DEF Spells, Listed, Inv, TypeOK
<1>3. /\ \A k \in 1..n : s[k] \in Works /\ s[k] \in Listed
      /\ \A w \in Listed : \E k \in 1..n : s[k] = w
      /\ \A j, k \in 1..n : s[j] = s[k] => j = k
  BY <1>1, <1>2 DEF Spells, Has, Distinct
<1>4. /\ q.head = IF n = 0 THEN NULL ELSE s[1]
      /\ q.tail = IF n = 0 THEN NULL ELSE s[n]
      /\ \A k \in 1..n :
           /\ q.flink[s[k]] = IF k = n THEN NULL ELSE s[k + 1]
           /\ q.blink[s[k]] = IF k = 1 THEN NULL ELSE s[k - 1]
  BY <1>1 DEF Spells
<1>5. Entry = [k \in 0..N |-> IF k < n THEN s[k + 1] ELSE NULL]
  BY <1>1, EntryIs
<1>6. {Entry[k] : k \in DOMAIN Entry} = Listed \cup {NULL}
  <2>1. ASSUME NEW k \in 0..N PROVE Entry[k] \in Listed \cup {NULL}
    <3>1. CASE k < n
      <4>1. k + 1 \in 1..n
        BY <1>2, <3>1
      <4> QED
        BY <1>3, <1>5, <3>1, <4>1
    <3>2. CASE ~(k < n)
      BY <1>5, <3>2
    <3> QED
      BY <3>1, <3>2
  <2>2. ASSUME NEW w \in Listed PROVE \E k \in 0..N : Entry[k] = w
    <3>1. PICK k \in 1..n : s[k] = w
      BY <1>3
    <3>2. k - 1 \in 0..N /\ k - 1 < n /\ (k - 1) + 1 = k
      BY <1>2
    <3>3. Entry[k - 1] = w
      BY <1>5, <3>1, <3>2
    <3> QED
      BY <3>2, <3>3
  <2>3. n \in 0..N /\ Entry[n] = NULL
    BY <1>2, <1>5
  <2>4. DOMAIN Entry = 0..N
    BY <1>5
  <2> HIDE DEF n
  <2> QED
    BY <2>1, <2>2, <2>3, <2>4
<1>7. ASSUME NEW w \in Listed
      PROVE  /\ q.blink[w] = NULL <=> q.head = w
             /\ q.flink[w] = NULL <=> q.tail = w
             /\ q.flink[w] # NULL => q.blink[q.flink[w]] = w
  <2>1. PICK k \in 1..n : s[k] = w
    BY <1>3
  <2>2. n # 0 /\ 1 \in 1..n /\ n \in 1..n
    BY <1>2
  <2>3. q.blink[w] = NULL <=> q.head = w
    <3>1. k # 1 => k - 1 \in 1..n
      BY <1>2
    <3> QED
      BY <1>2, <1>3, <1>4, <2>1, <2>2, <3>1
  <2>4. k # n => k + 1 \in 1..n /\ k + 1 # 1 /\ (k + 1) - 1 = k
    BY <1>2
  <2>5. q.flink[w] = NULL <=> q.tail = w
    BY <1>2, <1>3, <1>4, <2>1, <2>2, <2>4
  <2>6. q.flink[w] # NULL => q.blink[q.flink[w]] = w
    BY <1>4, <2>1, <2>4
  <2> QED
    BY <2>3, <2>5, <2>6
<1> QED
  BY <1>6, <1>7

(***************************************************************************)
(* The list of the work queue is sound for any number of works, however    *)
(* dq_addlast and dq_rem are called by workers, callers and cancels.       *)
(***************************************************************************)
THEOREM ListSound == Spec => []ListIsSound
  BY Invariance, SpelledIsSound, PTL

(***************************************************************************)
(* A changed parameter is pending: autosave_scheduled, the work and the    *)
(* worker's stage never lose a change between them, whether saves succeed  *)
(* or fail, and what is not stored has met a failed save or a disabled one *)
(* if no save is ahead of it.                                              *)
(***************************************************************************)
THEOREM ChangePending == Spec => []ChangeIsPending
<1>1. Inv => ChangeIsPending
  <2> SUFFICES ASSUME Inv, ~collided
               PROVE  /\ changed =>
                           /\ autosave_scheduled
                           /\ autosave_work \in worker \/ Running("start")
                      /\ unsaved => changed \/ missed \/ Running("save")
    BY DEF ChangeIsPending
  <2>1. PhaseInv /\ autosave_work # NULL
    BY Constants DEF Inv
  <2> QED
    BY <2>1 DEF PhaseInv, Running
<1> QED
  BY <1>1, Invariance, PTL

(***************************************************************************)
(* The thread never sleeps past a work, if the clock is long enough to     *)
(* tell a late work from a new one.                                        *)
(***************************************************************************)
THEOREM SleepShort ==
  ASSUME ClockIsLong
  PROVE  Spec => []SleepIsShort
<1>1. Inv => SleepIsShort
  <2> SUFFICES ASSUME Inv, tpc = "sleep", ~collided, NEW w \in Listed
               PROVE  age[w] + next <= Late(delay[w])
    BY DEF SleepIsShort, Late
  <2>1. PICK s \in Seq(Works) : Spells(s, q, Listed) /\ WaitInv(s)
    BY DEF Inv, ListInv
  <2>2. w \in Works
    BY DEF Inv, TypeOK, Listed
  <2>3. PICK k \in 1..Len(s) : s[k] = w
    BY <2>1, <2>2 DEF Spells, Has
  <2> QED
    BY <2>1, <2>3 DEF WaitInv, Waits
<1> QED
  BY <1>1, Invariance, PTL

\* No work is in the list longer than the thread may sleep past it and all
\* works together run.
WaitIsBounded ==
  ~collided => \A w \in Listed : age[w] <= Late(delay[w]) + MaxRun * N

(***************************************************************************)
(* A work waits for a bounded time, since the thread starts again at the   *)
(* head of the list after every worker, and what is queued meanwhile is    *)
(* put behind it.                                                          *)
(***************************************************************************)
THEOREM WaitBounded ==
  ASSUME ClockIsLong
  PROVE  Spec => []WaitIsBounded
<1>1. Inv => WaitIsBounded
  <2> SUFFICES ASSUME Inv, ~collided, NEW w \in Listed
               PROVE  age[w] <= Late(delay[w]) + Runs(N)
    BY DEF WaitIsBounded, Runs
  <2>1. PICK s \in Seq(Works) : Spells(s, q, Listed) /\ WaitInv(s)
    BY DEF Inv, ListInv
  <2>2. w \in Works /\ TypeOK
    BY DEF Inv, TypeOK, Listed
  <2>3. PICK k \in 1..Len(s) : s[k] = w
    BY <2>1, <2>2 DEF Spells, Has
  <2>4. age[w] + Busy + Runs(k - 1) <= Late(delay[w]) + Runs(N)
    BY <2>1, <2>3 DEF WaitInv, Waits
  <2>5. Busy \in Nat /\ age[w] \in Nat /\ delay[w] \in Nat
    BY <2>2, BusyIs, TimeTypes DEF Busy
  <2>6. Runs(k - 1) \in Nat /\ Late(delay[w]) \in Nat /\ Runs(N) \in Nat
    <3>1. k - 1 \in Nat /\ N \in Nat
      BY Constants
    <3> QED
      BY <2>5, <3>1, RunsIs, LateIs
  <2> QED
    BY <2>4, <2>5, <2>6
<1> QED
  BY <1>1, Invariance, PTL

(* A work that is taken out is ready, and its age tells how long it waited. *)
LEMMA TakenIsDue ==
  ASSUME Inv, [Next]_vars, NEW w \in Works,
         tpc = "process", work' = w, ~collided
  PROVE  \/ age[w] + USEC_PER_TICK \div 2 >= USEC_PER_TICK * delay[w]
         \/ clock < qtime[w]
<1>1. work = NULL /\ w # NULL /\ TypeOK /\ AgeInv
  BY Constants DEF Inv, PhaseInv
<1>2. PICK k \in DOMAIN Entry : Process(k)
  <2>1. ASSUME UNCHANGED work PROVE FALSE
    BY <1>1, <2>1
  <2>2. Step
    BY <2>1 DEF Next, vars, queueVars, threadVars
  <2>3. ASSUME UNCHANGED threadVars \/ tpc = "run" PROVE FALSE
    BY <2>1, <2>3 DEF threadVars
  <2>4. ASSUME NEW d \in Delays, param_autosave(d) PROVE FALSE
    BY <2>3, <2>4 DEF param_autosave, Fill, queueVars
  <2>5. CASE AutosaveQueues \/ DisableAutosave \/ EnableAutosave \/ Arm
    BY <2>3, <2>5 DEF AutosaveQueues, DisableAutosave, EnableAutosave, Arm,
                      work_cancel, queueVars
  <2>6. ASSUME NEW x \in Others, NEW d \in Delays, OtherFills(x, d) PROVE FALSE
    BY <2>3, <2>6 DEF OtherFills, Fill
  <2>7. ASSUME NEW x \in Others, OtherQueues(x) \/ OtherCancels(x) PROVE FALSE
    BY <2>3, <2>7 DEF OtherQueues, OtherCancels, work_cancel
  <2>8. CASE Workers
    BY <2>3, <2>8 DEF Workers, WorkerDefers, WorkerRequeues, WorkerRecords,
                      WorkerSaves, OtherReturns, Running
  <2>9. CASE Sleep \/ Wake \/ TimePasses
    BY <2>1, <2>9 DEF Sleep, Wake, TimePasses, Tick
  <2> QED
    BY <2>2, <2>4, <2>5, <2>6, <2>7, <2>8, <2>9 DEF Step, Thread
<1>3. PICK s \in Seq(Works) : Spells(s, q, Listed)
  BY DEF Inv, ListInv
<1>4. Entry[k] = s[k + 1] /\ k + 1 \in 1..Len(s) /\ Ready(s[k + 1])
  BY <1>1, <1>2, <1>3, ProcessTakes
<1>5. work' = s[k + 1]
  BY <1>2, <1>4 DEF Process
<1>6. w \in Listed /\ Ready(w)
  BY <1>3, <1>4, <1>5 DEF Spells, Has
<1> DEFINE u == USEC_PER_TICK
           h == u \div 2
           e == Elapsed(w)
           d == delay[w]
           a == age[w]
           t == qtime[w]
           ud == u * d
           ue == u * e
<1>7. /\ a \in Nat /\ d \in Nat /\ clock \in 0..(ClockRange - 1)
      /\ clock \in Nat /\ t \in Nat
  BY <1>1, TimeTypes
<1>8. /\ e \in Nat /\ h \in Nat
      /\ clock - t + h >= 0 => ue <= clock - t + h
  BY <1>1, ElapsedIs
<1>9. u \in Nat /\ ClockRange \in Nat /\ Far = ClockRange
  BY Constants
<1>10. d <= e
  BY <1>6, <1>7, <1>8 DEF Ready
<1>11. ud <= ue /\ ud \in Nat /\ ue \in Nat
  BY <1>7, <1>8, <1>9, <1>10, Times, TimesGrows
<1>12. a = Far \/ clock - t = a \/ clock - t = a - ClockRange
  BY <1>1, <1>6 DEF AgeInv
<1> HIDE DEF u, h, e, d, a, t, ud, ue
<1>13. CASE clock < t
  BY <1>13 DEF t
<1>14. CASE ~(clock < t)
  <2>1. clock - t <= a
    BY <1>7, <1>9, <1>12, <1>14
  <2>2. ud <= clock - t + h
    BY <1>7, <1>8, <1>11, <1>14
  <2>3. a + h >= ud
    BY <1>7, <1>8, <1>11, <2>1, <2>2
  <2> QED
    BY <2>3 DEF a, h, ud, u, d
<1> QED
  BY <1>13, <1>14

(***************************************************************************)
(* No work runs early, whatever the ranges of the clock and the delays,    *)
(* except after a wrap of the clock.                                       *)
(***************************************************************************)
THEOREM RunsNoWorkEarly == Spec => NeverEarly
<1> DEFINE A == \A w \in Works :
                  (tpc = "process" /\ work' = w /\ ~collided) =>
                    \/ age[w] + USEC_PER_TICK \div 2 >= USEC_PER_TICK * delay[w]
                    \/ clock < qtime[w]
<1>1. Inv /\ [Next]_vars => [A]_vars
  BY TakenIsDue
<1> HIDE DEF A
<1>2. Spec => [][A]_vars
  BY <1>1, Invariance, PTL DEF Spec
<1> QED
  BY <1>2 DEF NeverEarly, A
=============================================================================
