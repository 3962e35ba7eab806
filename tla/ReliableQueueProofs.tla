------------------------ MODULE ReliableQueueProofs ------------------------
(***************************************************************************)
(* Proofs about the ACK queue, for any finite set of tokens and any limit. *)
(*                                                                         *)
(* LedgerCountsHeld and HeldStaysListed are not inductive alone: a purge   *)
(* would take a held token whose score lies before the cutoff, and the     *)
(* expiry of the index would strand one that outlives it.  CustodyFacts    *)
(* and CountedFacts add the relations between the clocks that rule it out. *)
(* Both speak of indexed tokens only, so the ZREM of a drain and the DELs  *)
(* of an account deletion, which look at one structure, keep them too.     *)
(*                                                                         *)
(* The byte limit is about a sum, which the community modules define by    *)
(* recursion over the set.  What is needed of sums is proved first, by     *)
(* induction; the property to be shown by induction is stated as a set.    *)
(***************************************************************************)
EXTENDS ReliableQueue, FiniteSetTheorems, WellFoundedInduction, TLAPS

-----------------------------------------------------------------------------
(* Sums over finite sets.                                                  *)

\* Induction over the natural numbers, with a set for the property.
LEMMA SetInduction ==
    ASSUME NEW S, 0 \in S, \A n \in Nat : n \in S => n + 1 \in S
    PROVE  Nat \subseteq S
<1> SUFFICES ASSUME Nat \ S # {} PROVE FALSE
  OBVIOUS
<1>1. PICK x \in Nat \ S : \A y \in Nat \ S : ~(<<y, x>> \in OpToRel(<, Nat))
  <2>1. Nat \ S \subseteq Nat
    OBVIOUS
  <2> QED
    BY <2>1, NatLessThanWellFounded, WFMin, Zenon
<1>2. x \in Nat \ {0}
  BY <1>1
<1>3. x - 1 \in Nat /\ x - 1 < x /\ (x - 1) + 1 = x
  BY <1>2
<1>4. <<x - 1, x>> \in OpToRel(<, Nat)
  BY <1>2, <1>3, Zenon DEF OpToRel
<1>5. x - 1 \in S
  BY <1>1, <1>3, <1>4
<1> QED
  BY <1>1, <1>3, <1>5

\* The element MapThenSumSet takes out of a set next, and what it makes of
\* the rest.
First(s) == CHOOSE x \in s : TRUE
Term(f, sums, s) == IF s = {} THEN 0 ELSE f[First(s)] + sums[s \ {First(s)}]
Sums(f, T) == CHOOSE sums : sums = [s \in SUBSET T |-> Term(f, sums, s)]

\* SumOver is defined by this recursion.
LEMMA SumIsLast ==
    ASSUME NEW f, NEW T
    PROVE  SumOver(f, T) = Sums(f, T)[T]
BY DEF SumOver, MapThenSumSet, MapThenFoldSet, Sums, Term, First

\* Taking the first element out of a finite set makes it smaller.
LEMMA RestFacts ==
    ASSUME NEW T, IsFiniteSet(T), NEW s \in SUBSET T, s # {}
    PROVE  /\ First(s) \in s /\ First(s) \in T
           /\ s \ {First(s)} \in SUBSET T
           /\ Cardinality(s) \in Nat
           /\ Cardinality(s \ {First(s)}) = Cardinality(s) - 1
<1>1. First(s) \in s
  BY DEF First
<1>2. IsFiniteSet(s)
  BY FS_Subset
<1> QED
  BY <1>1, <1>2, FS_RemoveElement, FS_CardinalityType

\* The recursion defines a function.
LEMMA SumsExist ==
    ASSUME NEW T, IsFiniteSet(T), NEW f \in [T -> Nat]
    PROVE  \E sums : sums = [s \in SUBSET T |-> Term(f, sums, s)]
<1> DEFINE Upto(g, n) ==
              \A s \in SUBSET T : Cardinality(s) <= n => g[s] = Term(f, g, s)
           S == {n \in Nat : \E g \in [SUBSET T -> Nat] : Upto(g, n)}
<1>0. \A s \in SUBSET T : Cardinality(s) \in Nat /\ (Cardinality(s) = 0 <=> s = {})
  BY FS_Subset, FS_CardinalityType, FS_EmptySet
<1>1. 0 \in S
  <2>1. [s \in SUBSET T |-> 0] \in [SUBSET T -> Nat]
    OBVIOUS
  <2>2. Upto([s \in SUBSET T |-> 0], 0)
    BY <1>0 DEF Term
  <2> QED
    BY <2>1, <2>2
<1>2. ASSUME NEW n \in Nat, n \in S
      PROVE  n + 1 \in S
  <2>1. PICK g \in [SUBSET T -> Nat] : Upto(g, n)
    BY <1>2
  <2>2. \A s \in SUBSET T : Term(f, g, s) \in Nat
    BY RestFacts DEF Term
  <2>3. PICK h : h = [s \in SUBSET T |-> IF Cardinality(s) <= n THEN g[s] ELSE Term(f, g, s)]
    OBVIOUS
  <2>4. h \in [SUBSET T -> Nat]
    BY <2>2, <2>3
  <2>5. ASSUME NEW s \in SUBSET T, Cardinality(s) <= n + 1
        PROVE  h[s] = Term(f, h, s)
    <3>1. h[s] = Term(f, g, s)
      BY <2>1, <2>3
    <3>2. CASE s = {}
      BY <3>1, <3>2 DEF Term
    <3>3. CASE s # {}
      <4>1. /\ s \ {First(s)} \in SUBSET T
            /\ Cardinality(s) \in Nat
            /\ Cardinality(s \ {First(s)}) = Cardinality(s) - 1
        BY <3>3, RestFacts
      <4>2. Cardinality(s \ {First(s)}) <= n
        BY <2>5, <4>1
      <4>3. h[s \ {First(s)}] = g[s \ {First(s)}]
        BY <2>3, <4>1, <4>2
      <4> QED
        BY <3>1, <3>3, <4>3 DEF Term
    <3> QED
      BY <3>2, <3>3
  <2> QED
    BY <2>4, <2>5
<1> HIDE DEF S
<1>3. Nat \subseteq S
  BY <1>1, <1>2, SetInduction
<1>4. Cardinality(T) \in S
  BY <1>3, FS_CardinalityType
<1>5. PICK g \in [SUBSET T -> Nat] : Upto(g, Cardinality(T))
  BY <1>4 DEF S
<1>6. \A s \in SUBSET T : Cardinality(s) <= Cardinality(T)
  BY FS_Subset
<1>7. \A s \in SUBSET T : g[s] = Term(f, g, s)
  BY <1>5, <1>6
<1>8. g = [s \in SUBSET T |-> Term(f, g, s)]
  BY <1>5, <1>7
<1> QED
  BY <1>8

\* So every sum follows from a smaller one.
LEMMA SumsFacts ==
    ASSUME NEW T, IsFiniteSet(T), NEW f \in [T -> Nat]
    PROVE  \A s \in SUBSET T : Sums(f, T)[s] = Term(f, Sums(f, T), s)
<1>1. Sums(f, T) = [s \in SUBSET T |-> Term(f, Sums(f, T), s)]
  BY SumsExist DEF Sums
<1> QED
  BY <1>1

\* A property of sums over the subsets of T by induction over their size.
LEMMA SubsetInduction ==
    ASSUME NEW T, IsFiniteSet(T), NEW P \in SUBSET SUBSET T, {} \in P,
           \A s \in SUBSET T : s # {} /\ s \ {First(s)} \in P => s \in P
    PROVE  SUBSET T \subseteq P
<1> DEFINE S == {n \in Nat : \A s \in SUBSET T : Cardinality(s) = n => s \in P}
<1>1. 0 \in S
  BY FS_Subset, FS_EmptySet
<1>2. ASSUME NEW n \in Nat, n \in S
      PROVE  n + 1 \in S
  <2>1. ASSUME NEW s \in SUBSET T, Cardinality(s) = n + 1
        PROVE  s \in P
    <3>1. s # {}
      BY <2>1, FS_EmptySet
    <3>2. /\ s \ {First(s)} \in SUBSET T
          /\ Cardinality(s \ {First(s)}) = (n + 1) - 1
      BY <2>1, <3>1, RestFacts
    <3>3. s \ {First(s)} \in P
      BY <1>2, <3>2
    <3> QED
      BY <3>1, <3>3
  <2> QED
    BY <2>1
<1> HIDE DEF S
<1>3. Nat \subseteq S
  BY <1>1, <1>2, SetInduction
<1>4. \A s \in SUBSET T : Cardinality(s) \in S
  BY <1>3, FS_Subset, FS_CardinalityType
<1> QED
  BY <1>4 DEF S

\* Sums of naturals are naturals.
LEMMA SumsType ==
    ASSUME NEW T, IsFiniteSet(T), NEW f \in [T -> Nat]
    PROVE  \A s \in SUBSET T : Sums(f, T)[s] \in Nat
<1> DEFINE P == {s \in SUBSET T : Sums(f, T)[s] \in Nat}
<1>1. {} \in P
  BY SumsFacts DEF Term
<1>2. ASSUME NEW s \in SUBSET T, s # {}, s \ {First(s)} \in P
      PROVE  s \in P
  BY <1>2, SumsFacts, RestFacts DEF Term
<1>3. P \in SUBSET SUBSET T
  OBVIOUS
<1> HIDE DEF P
<1>4. SUBSET T \subseteq P
  BY <1>1, <1>2, <1>3, SubsetInduction
<1> QED
  BY <1>4 DEF P

\* A function that is larger at one point, by at most d, has a sum that is
\* larger by at most d.
LEMMA SumGrows ==
    ASSUME NEW T, IsFiniteSet(T), NEW f \in [T -> Nat], NEW h \in [T -> Nat],
           NEW t, NEW d \in Nat, \A u \in T : h[u] <= f[u] + (IF u = t THEN d ELSE 0)
    PROVE  /\ SumOver(h, T) \in Nat /\ SumOver(f, T) \in Nat
           /\ SumOver(h, T) <= SumOver(f, T) + d
<1> DEFINE More(s) == IF t \in s THEN d ELSE 0
           P == {s \in SUBSET T : Sums(h, T)[s] <= Sums(f, T)[s] + More(s)}
<1>0. \A s \in SUBSET T : Sums(h, T)[s] \in Nat /\ Sums(f, T)[s] \in Nat
  BY SumsType
<1>1. {} \in P
  <2>1. Sums(h, T)[{}] = 0 /\ Sums(f, T)[{}] = 0
    BY SumsFacts DEF Term
  <2> QED
    BY <2>1
<1>2. ASSUME NEW s \in SUBSET T, s # {}, s \ {First(s)} \in P
      PROVE  s \in P
  <2>1. PICK x, r : x = First(s) /\ r = s \ {x}
    OBVIOUS
  <2>2. x \in T /\ x \in s /\ r \in SUBSET T
    BY <1>2, <2>1, RestFacts
  <2>3. /\ Sums(h, T)[s] = h[x] + Sums(h, T)[r]
        /\ Sums(f, T)[s] = f[x] + Sums(f, T)[r]
    BY <1>2, <2>1, SumsFacts DEF Term
  <2>4. Sums(h, T)[r] <= Sums(f, T)[r] + More(r)
    BY <1>2, <2>1
  <2>5. h[x] \in Nat /\ f[x] \in Nat /\ h[x] <= f[x] + (IF x = t THEN d ELSE 0)
    BY <2>2
  <2>6. (IF x = t THEN d ELSE 0) + More(r) <= More(s)
    BY <2>1, <2>2
  <2>7. Sums(h, T)[s] <= Sums(f, T)[s] + More(s)
    BY <1>0, <2>2, <2>3, <2>4, <2>5, <2>6
  <2> QED
    BY <2>7
<1>3. P \in SUBSET SUBSET T
  OBVIOUS
<1> HIDE DEF P
<1>4. SUBSET T \subseteq P
  BY <1>1, <1>2, <1>3, SubsetInduction
<1>5. Sums(h, T)[T] <= Sums(f, T)[T] + More(T)
  BY <1>4 DEF P
<1> QED
  BY <1>0, <1>5, SumIsLast

-----------------------------------------------------------------------------
(* What holds of a queue.                                                  *)

\* A held token was scored, if it is scored at all, no earlier than it was
\* accepted; its deadline is ahead and at most one retention away.
CustodyFacts(queue, clock) ==
    \A t \in Token : queue.item[t].size # 0 =>
        /\ queue.index[t] # 0 => (queue.item[t].exp - TTL) * ScoreTick <= queue.index[t]
        /\ clock < queue.item[t].exp
        /\ queue.item[t].exp <= clock + TTL

\* The deadline of an absent item reads as 0.
AbsentFacts(queue) ==
    \A t \in Token : queue.item[t].size = 0 => queue.item[t] = Absent

\* A held token in the index is counted, and the index outlives it.
CountedFacts(queue) ==
    \A t \in Token : queue.item[t].size # 0 /\ queue.index[t] # 0 =>
        /\ queue.meta[t] = queue.item[t].size
        /\ queue.item[t].exp <= queue.keysExp

\* The last score handed out is the largest in the index.
OrderFacts(queue) == \A t \in Token : queue.index[t] <= queue.order

\* What module Delivery needs of the items, and all that holds of the queue.
KeptQueue(queue, clock) ==
    queue \in QueueType /\ CustodyFacts(queue, clock) /\ AbsentFacts(queue)
GoodQueue(queue, clock) ==
    KeptQueue(queue, clock) /\ CountedFacts(queue) /\ OrderFacts(queue)

\* The inductive invariant of the queue.
QueueInv == now \in Nat \ {0} /\ GoodQueue(q, now)

\* A token held and indexed before, and held after, is indexed after.
KeepsListed(before, after) ==
    \A t \in Token :
        before.item[t].size # 0 /\ before.index[t] # 0 /\ after.item[t].size # 0
        => after.index[t] # 0

-----------------------------------------------------------------------------
(* What the scripts do to a queue that satisfies the facts.                *)

\* Scores compare as the clock readings they were made from.
LEMMA ScoreMonotone ==
    ASSUME NEW a \in Int, NEW b \in Int, a * ScoreTick <= b * ScoreTick
    PROVE  a <= b
  BY ScoreAssumption, SMTT(30)

\* No held token is at or before a cutoff read from a clock not ahead of ours.
LEMMA HeldNotExpired ==
    ASSUME NEW queue \in QueueType, NEW clock \in Nat, CustodyFacts(queue, clock),
           NEW cutoff \in Int, cutoff <= clock - TTL,
           NEW t \in Token, queue.item[t].size # 0
    PROVE  t \notin Expired(queue, cutoff)
<1>1. SUFFICES ASSUME queue.index[t] # 0, queue.index[t] <= cutoff * ScoreTick PROVE FALSE
  BY DEF Expired, Members
<1> DEFINE e == queue.item[t].exp
           x == (e - TTL) * ScoreTick
           y == cutoff * ScoreTick
<1>2. e \in Nat /\ queue.index[t] \in Nat
  BY DEF QueueType, ItemType
<1>3. x <= queue.index[t] /\ clock < e
  BY <1>1 DEF CustodyFacts
<1>4. e - TTL \in Int /\ x \in Int /\ y \in Int
  BY <1>2, TTLAssumption, ScoreAssumption
<1>5. x <= y
  <2>1. queue.index[t] <= y
    BY <1>1
  <2> HIDE DEF x, y
  <2> QED BY <2>1, <1>2, <1>3, <1>4
<1>6. e - TTL <= cutoff
  BY <1>4, <1>5, ScoreMonotone
<1> QED BY <1>2, <1>3, <1>6, TTLAssumption

\* PURGE_EXPIRED_FRAGMENT touches no held item.
LEMMA PurgeExpiredKept ==
    ASSUME NEW queue, NEW clock \in Nat, KeptQueue(queue, clock),
           NEW cutoff \in Int, cutoff <= clock - TTL
    PROVE  /\ KeptQueue(PurgeExpired(queue, cutoff), clock)
           /\ PurgeExpired(queue, cutoff).item = queue.item
           /\ \A t \in Token : PurgeExpired(queue, cutoff).index[t] \in {0, queue.index[t]}
<1> DEFINE p == PurgeExpired(queue, cutoff)
<1>1. queue \in QueueType /\ CustodyFacts(queue, clock)
  BY DEF KeptQueue
<1>2. \A t \in Token : queue.item[t].size # 0 => t \notin Expired(queue, cutoff)
  BY <1>1, HeldNotExpired
<1>3. \A t \in Token : t \in Expired(queue, cutoff) => queue.item[t] = Absent
  BY <1>2 DEF KeptQueue, AbsentFacts
<1>4. p.item = queue.item
  BY <1>1, <1>3 DEF PurgeExpired, QueueType
<1>5. \A t \in Token : p.index[t] \in {0, queue.index[t]}
  BY <1>1 DEF PurgeExpired, QueueType
<1>6. p \in QueueType
  BY <1>1, <1>3 DEF PurgeExpired, QueueType, ItemType, Absent
<1>7. CustodyFacts(p, clock) /\ AbsentFacts(p)
  BY <1>1, <1>4, <1>5 DEF KeptQueue, CustodyFacts, AbsentFacts
<1> QED BY <1>4, <1>5, <1>6, <1>7 DEF KeptQueue

\* It keeps the index and the ledger in step too.
LEMMA PurgeExpiredGood ==
    ASSUME NEW queue, NEW clock \in Nat, GoodQueue(queue, clock),
           NEW cutoff \in Int, cutoff <= clock - TTL
    PROVE  /\ GoodQueue(PurgeExpired(queue, cutoff), clock)
           /\ KeepsListed(queue, PurgeExpired(queue, cutoff))
<1> DEFINE p == PurgeExpired(queue, cutoff)
<1>0. KeptQueue(queue, clock) /\ queue \in QueueType
  BY DEF GoodQueue, KeptQueue
<1>1. KeptQueue(p, clock) /\ p.item = queue.item
      /\ \A t \in Token : p.index[t] \in {0, queue.index[t]}
  BY <1>0, PurgeExpiredKept
<1>2. \A t \in Token : queue.item[t].size # 0 => t \notin Expired(queue, cutoff)
  BY <1>0, HeldNotExpired DEF KeptQueue
<1>3. /\ p.index = [t \in Token |-> IF t \in Expired(queue, cutoff) THEN 0 ELSE queue.index[t]]
      /\ p.meta = [t \in Token |-> IF t \in Expired(queue, cutoff) THEN 0 ELSE queue.meta[t]]
      /\ p.order = queue.order /\ p.keysExp = queue.keysExp
  BY <1>0 DEF PurgeExpired, QueueType
<1>4. CountedFacts(p)
  BY <1>1, <1>2, <1>3 DEF GoodQueue, CountedFacts
<1>5. OrderFacts(p)
  BY <1>0, <1>3 DEF GoodQueue, OrderFacts, QueueType
<1>6. KeepsListed(queue, p)
  BY <1>1, <1>2, <1>3 DEF KeepsListed
<1> QED BY <1>1, <1>4, <1>5, <1>6 DEF GoodQueue

\* Deleting the keys of an empty index leaves items and index alone.
LEMMA DropEmptyKeysKept ==
    ASSUME NEW queue, NEW clock \in Nat, KeptQueue(queue, clock)
    PROVE  /\ KeptQueue(DropEmptyKeys(queue), clock)
           /\ DropEmptyKeys(queue).item = queue.item
           /\ DropEmptyKeys(queue).index = queue.index
<1> DEFINE d == DropEmptyKeys(queue)
<1>1. d.item = queue.item /\ d.index = queue.index /\ d \in QueueType
  BY DEF DropEmptyKeys, KeptQueue, QueueType
<1> HIDE DEF d
<1>2. CustodyFacts(d, clock) /\ AbsentFacts(d)
  BY <1>1 DEF KeptQueue, CustodyFacts, AbsentFacts
<1> QED BY <1>1, <1>2 DEF KeptQueue, d

\* Nothing is indexed when it happens, so no indexed token loses its field.
LEMMA DropEmptyKeysGood ==
    ASSUME NEW queue, NEW clock \in Nat, GoodQueue(queue, clock)
    PROVE  GoodQueue(DropEmptyKeys(queue), clock)
<1>1. CASE Members(queue) # {}
  BY <1>1 DEF DropEmptyKeys
<1>2. CASE Members(queue) = {}
  <2> DEFINE d == DropEmptyKeys(queue)
  <2>1. \A t \in Token : queue.index[t] = 0
    BY <1>2 DEF Members
  <2>3. KeptQueue(d, clock) /\ d.item = queue.item /\ d.index = queue.index
    BY DropEmptyKeysKept DEF GoodQueue
  <2>4. d.order = 0
    BY <1>2 DEF DropEmptyKeys, GoodQueue, KeptQueue, QueueType
  <2> HIDE DEF d
  <2>5. CountedFacts(d) /\ OrderFacts(d)
    BY <2>1, <2>3, <2>4 DEF CountedFacts, OrderFacts
  <2> QED BY <2>3, <2>5 DEF GoodQueue, d
<1> QED BY <1>1, <1>2

\* The score handed out is a positive number beyond the last one.
LEMMA NextScoreFacts ==
    ASSUME NEW queue \in QueueType, NEW clock \in Nat \ {0}
    PROVE  /\ NextScore(queue, clock) \in Nat \ {0}
           /\ NextScore(queue, clock) > queue.order
           /\ clock * ScoreTick <= NextScore(queue, clock)
<1> DEFINE c == clock * ScoreTick
<1>1. c \in Nat \ {0}
  BY ScoreAssumption
<1>2. queue.order \in Nat
  BY DEF QueueType
<1>3. NextScore(queue, clock) = IF c <= queue.order THEN queue.order + 1 ELSE c
  BY DEF NextScore
<1> HIDE DEF c
<1>4. /\ NextScore(queue, clock) \in Nat \ {0}
      /\ NextScore(queue, clock) > queue.order
      /\ c <= NextScore(queue, clock)
  BY <1>1, <1>2, <1>3
<1> QED BY <1>4 DEF c

\* The writes of an accepted ciphertext keep the facts.
LEMMA WriteItemKept ==
    ASSUME NEW queue, NEW clock \in Nat \ {0}, KeptQueue(queue, clock),
           NEW t \in Token, NEW size \in Nat \ {0}
    PROVE  KeptQueue(WriteItem(queue, t, size, clock), clock)
<1> DEFINE w == WriteItem(queue, t, size, clock)
           n == NextScore(queue, clock)
           c == clock * ScoreTick
<1>0. queue \in QueueType
  BY DEF KeptQueue
<1>1. n \in Nat \ {0} /\ n > queue.order /\ c <= n
  BY <1>0, NextScoreFacts
<1>2. clock + TTL \in Nat /\ clock < clock + TTL /\ (clock + TTL) - TTL = clock
  BY TTLAssumption
<1>3. /\ w.item = [queue.item EXCEPT ![t] = [size |-> size, exp |-> clock + TTL]]
      /\ w.index = [queue.index EXCEPT ![t] = n]
  BY DEF WriteItem
<1>4. w \in QueueType
  BY <1>0, <1>1, <1>2 DEF WriteItem, QueueType, ItemType
<1> HIDE DEF w, n, c
<1>5. CustodyFacts(w, clock)
  <2>1. SUFFICES ASSUME NEW u \in Token, w.item[u].size # 0
                 PROVE  /\ w.index[u] # 0 =>
                              (w.item[u].exp - TTL) * ScoreTick <= w.index[u]
                        /\ clock < w.item[u].exp
                        /\ w.item[u].exp <= clock + TTL
    BY DEF CustodyFacts
  <2>2. CASE u = t
    <3>1. w.item[u] = [size |-> size, exp |-> clock + TTL] /\ w.index[u] = n
      BY <2>2, <1>0, <1>3 DEF QueueType
    <3>2. (w.item[u].exp - TTL) * ScoreTick = c
      BY <3>1, <1>2 DEF c
    <3> QED BY <3>1, <3>2, <1>1, <1>2
  <2>3. CASE u # t
    <3>1. w.item[u] = queue.item[u] /\ w.index[u] = queue.index[u]
      BY <2>3, <1>0, <1>3 DEF QueueType
    <3> QED BY <3>1, <2>1 DEF KeptQueue, CustodyFacts
  <2> QED BY <2>2, <2>3
<1>6. AbsentFacts(w)
  BY <1>0, <1>3 DEF KeptQueue, AbsentFacts, QueueType
<1> QED BY <1>4, <1>5, <1>6 DEF KeptQueue, w

LEMMA WriteItemGood ==
    ASSUME NEW queue, NEW clock \in Nat \ {0}, GoodQueue(queue, clock),
           NEW t \in Token, NEW size \in Nat \ {0}
    PROVE  GoodQueue(WriteItem(queue, t, size, clock), clock)
<1> DEFINE w == WriteItem(queue, t, size, clock)
           n == NextScore(queue, clock)
<1>0. queue \in QueueType /\ KeptQueue(queue, clock)
  BY DEF GoodQueue, KeptQueue
<1>1. n \in Nat \ {0} /\ n > queue.order
  BY <1>0, NextScoreFacts
<1>2. KeptQueue(w, clock)
  BY <1>0, WriteItemKept
<1>3. /\ w.item = [queue.item EXCEPT ![t] = [size |-> size, exp |-> clock + TTL]]
      /\ w.index = [queue.index EXCEPT ![t] = n]
      /\ w.meta = [queue.meta EXCEPT ![t] = size]
      /\ w.order = n /\ w.keysExp = clock + TTL
  BY DEF WriteItem
<1> HIDE DEF w, n
<1>4. CountedFacts(w)
  <2>1. \A u \in Token \ {t} : /\ w.item[u] = queue.item[u] /\ w.index[u] = queue.index[u]
                               /\ w.meta[u] = queue.meta[u]
    BY <1>0, <1>3 DEF QueueType
  <2>2. /\ w.item[t] = [size |-> size, exp |-> clock + TTL]
        /\ w.index[t] = n /\ w.meta[t] = size
    BY <1>0, <1>3 DEF QueueType
  <2>3. \A u \in Token : queue.item[u].size # 0 => queue.item[u].exp <= clock + TTL
    BY <1>0 DEF KeptQueue, CustodyFacts
  <2>4. clock + TTL <= clock + TTL
    BY TTLAssumption
  <2> QED BY <1>1, <1>3, <2>1, <2>2, <2>3, <2>4 DEF GoodQueue, CountedFacts
<1>5. OrderFacts(w)
  BY <1>0, <1>1, <1>3 DEF GoodQueue, OrderFacts, QueueType
<1> QED BY <1>2, <1>4, <1>5 DEF GoodQueue, w

\* The items are the same, or t, which had none, has one until the deadline.
SameOrAdded(before, after, t, size, deadline) ==
    \/ after = before
    \/ /\ before[t] = Absent
       /\ after = [before EXCEPT ![t] = [size |-> size, exp |-> deadline]]

\* ENQUEUE_RELIABLE_SCRIPT touches no other item, and that of t only when
\* there was none.
LEMMA EnqueueKept ==
    ASSUME NEW queue, NEW clock \in Nat \ {0}, KeptQueue(queue, clock),
           NEW t \in Token, NEW size \in Nat \ {0},
           NEW cutoff \in Int, cutoff <= clock - TTL
    PROVE  LET e == EnqueueScript(queue, t, size, clock, cutoff)
           IN  /\ KeptQueue(e, clock)
               /\ SameOrAdded(queue.item, e.item, t, size, clock + TTL)
<1> DEFINE p == PurgeExpired(queue, cutoff)
           w == WriteItem(p, t, size, clock)
           e == EnqueueScript(queue, t, size, clock, cutoff)
<1>1. /\ KeptQueue(p, clock) /\ p.item = queue.item
      /\ \A u \in Token : p.index[u] \in {0, queue.index[u]}
  BY PurgeExpiredKept
<1>2. CASE e = queue
  BY <1>2 DEF SameOrAdded
<1>3. CASE e = p
  BY <1>1, <1>3 DEF SameOrAdded
<1>4. CASE queue.item[t].size = 0 /\ e = w
  <2>1. KeptQueue(w, clock)
    BY <1>1, WriteItemKept
  <2>2. /\ w.item = [queue.item EXCEPT ![t] = [size |-> size, exp |-> clock + TTL]]
        /\ w.index = [p.index EXCEPT ![t] = NextScore(p, clock)]
    BY <1>1 DEF WriteItem
  <2>3. queue.item[t] = Absent
    BY <1>4 DEF KeptQueue, AbsentFacts
  <2> QED BY <1>4, <2>1, <2>2, <2>3 DEF SameOrAdded
<1>5. e = queue \/ e = p \/ (queue.item[t].size = 0 /\ e = w)
  BY DEF EnqueueScript
<1> QED BY <1>2, <1>3, <1>4, <1>5

\* It scores no token but t, and t only when it reports it as stored.
LEMMA EnqueueScores ==
    ASSUME NEW queue, NEW clock \in Nat \ {0}, KeptQueue(queue, clock),
           NEW t \in Token, NEW size \in Nat \ {0},
           NEW cutoff \in Int, cutoff <= clock - TTL,
           NEW u \in Token, u # t \/ ~EnqueueAccepts(queue, t, size, cutoff)
    PROVE  EnqueueScript(queue, t, size, clock, cutoff).index[u] \in {0, queue.index[u]}
<1> DEFINE p == PurgeExpired(queue, cutoff)
           w == WriteItem(p, t, size, clock)
           e == EnqueueScript(queue, t, size, clock, cutoff)
<1>1. KeptQueue(p, clock) /\ p.index[u] \in {0, queue.index[u]}
  BY PurgeExpiredKept
<1>2. CASE e = queue
  BY <1>2
<1>3. CASE e = p
  BY <1>1, <1>3
<1>4. CASE EnqueueAccepts(queue, t, size, cutoff) /\ e = w
  <2>1. w.index = [p.index EXCEPT ![t] = NextScore(p, clock)]
    BY DEF WriteItem
  <2>2. w.index[u] = p.index[u]
    BY <1>1, <1>4, <2>1 DEF KeptQueue, QueueType
  <2> QED BY <1>1, <1>4, <2>2
<1>5. e = queue \/ e = p \/ (EnqueueAccepts(queue, t, size, cutoff) /\ e = w)
  BY DEF EnqueueScript, EnqueueAccepts
<1> QED BY <1>2, <1>3, <1>4, <1>5

\* It keeps index and ledger in step and what is listed listed, and a token it
\* scores comes last.
LEMMA EnqueueGood ==
    ASSUME NEW queue, NEW clock \in Nat \ {0}, GoodQueue(queue, clock),
           NEW t \in Token, NEW size \in Nat \ {0},
           NEW cutoff \in Int, cutoff <= clock - TTL
    PROVE  LET e == EnqueueScript(queue, t, size, clock, cutoff)
           IN  /\ GoodQueue(e, clock)
               /\ KeepsListed(queue, e)
               /\ \A u \in Token : e.index[u] \notin {0, queue.index[u]} =>
                     \A v \in Token \ {u} : e.index[v] < e.index[u]
<1> DEFINE p == PurgeExpired(queue, cutoff)
           w == WriteItem(p, t, size, clock)
           e == EnqueueScript(queue, t, size, clock, cutoff)
<1>0. KeptQueue(queue, clock)
  BY DEF GoodQueue
<1>1. /\ GoodQueue(p, clock) /\ KeepsListed(queue, p) /\ p.item = queue.item
      /\ \A u \in Token : p.index[u] \in {0, queue.index[u]}
  BY <1>0, PurgeExpiredGood, PurgeExpiredKept
<1>2. CASE e = queue
  BY <1>2 DEF KeepsListed
<1>3. CASE e = p
  BY <1>1, <1>3
<1>4. CASE e = w
  <2>1. p \in QueueType /\ \A v \in Token : p.index[v] <= p.order
    BY <1>1 DEF GoodQueue, KeptQueue, OrderFacts
  <2>2. NextScore(p, clock) > p.order /\ NextScore(p, clock) \in Nat \ {0}
    BY <2>1, NextScoreFacts
  <2>3. w.index = [p.index EXCEPT ![t] = NextScore(p, clock)]
    BY DEF WriteItem
  <2>4. \A u \in Token \ {t} : w.index[u] = p.index[u] /\ w.index[u] \in {0, queue.index[u]}
    BY <1>1, <2>1, <2>3 DEF QueueType
  <2>5. w.index[t] = NextScore(p, clock)
    BY <2>1, <2>3 DEF QueueType
  <2>6. \A v \in Token \ {t} : w.index[v] < w.index[t]
    BY <2>1, <2>2, <2>4, <2>5 DEF QueueType
  <2>7. GoodQueue(w, clock)
    BY <1>1, WriteItemGood
  <2>8. \A u \in Token \ {t} : w.index[u] = p.index[u]
    BY <2>1, <2>3 DEF QueueType
  <2>9. KeepsListed(queue, w)
    BY <1>1, <2>2, <2>5, <2>8 DEF KeepsListed
  <2> QED BY <1>4, <2>4, <2>6, <2>7, <2>9
<1>5. e = queue \/ e = p \/ e = w
  BY DEF EnqueueScript
<1> QED BY <1>2, <1>3, <1>4, <1>5

\* ACK_RELIABLE_SCRIPT removes exactly the acknowledged item.
LEMMA AckKept ==
    ASSUME NEW queue, NEW clock \in Nat, KeptQueue(queue, clock), NEW t \in Token
    PROVE  /\ KeptQueue(AckScript(queue, t), clock)
           /\ AckScript(queue, t).item = [queue.item EXCEPT ![t] = Absent]
           /\ \A u \in Token : AckScript(queue, t).index[u] \in {0, queue.index[u]}
           /\ KeepsListed(queue, AckScript(queue, t))
           /\ GoodQueue(queue, clock) => GoodQueue(AckScript(queue, t), clock)
<1> DEFINE r == [queue EXCEPT !.item[t] = Absent, !.index[t] = 0, !.meta[t] = 0]
<1>0. queue \in QueueType
  BY DEF KeptQueue
<1>1. /\ r.item = [queue.item EXCEPT ![t] = Absent]
      /\ r.index = [queue.index EXCEPT ![t] = 0]
      /\ r.meta = [queue.meta EXCEPT ![t] = 0]
      /\ r.order = queue.order /\ r.keysExp = queue.keysExp
      /\ r \in QueueType
  BY <1>0 DEF QueueType, ItemType, Absent
<1>2. AckScript(queue, t) = DropEmptyKeys(r)
  BY DEF AckScript
<1> HIDE DEF r
<1>3. CustodyFacts(r, clock) /\ AbsentFacts(r)
  BY <1>0, <1>1 DEF KeptQueue, CustodyFacts, AbsentFacts, QueueType, Absent
<1>4. KeptQueue(r, clock)
  BY <1>1, <1>3 DEF KeptQueue
<1>5. ASSUME GoodQueue(queue, clock) PROVE GoodQueue(AckScript(queue, t), clock)
  <2>1. CountedFacts(r)
    BY <1>0, <1>1, <1>5 DEF GoodQueue, CountedFacts, QueueType, Absent
  <2>2. OrderFacts(r)
    BY <1>0, <1>1, <1>5 DEF GoodQueue, OrderFacts, QueueType
  <2> QED BY <1>2, <1>4, <2>1, <2>2, DropEmptyKeysGood DEF GoodQueue
<1>6. DropEmptyKeys(r).index = r.index /\ DropEmptyKeys(r).item = r.item
      /\ KeptQueue(DropEmptyKeys(r), clock)
  BY <1>4, DropEmptyKeysKept
<1>7. \A u \in Token : u # t => r.index[u] = queue.index[u]
  BY <1>0, <1>1 DEF QueueType
<1>8. r.item[t].size = 0
  BY <1>0, <1>1 DEF QueueType, Absent
<1>9. KeepsListed(queue, AckScript(queue, t))
  BY <1>2, <1>6, <1>7, <1>8 DEF KeepsListed
<1> QED BY <1>0, <1>1, <1>2, <1>5, <1>6, <1>9 DEF QueueType

\* PURGE_RELIABLE_SCRIPT touches no held item.
LEMMA PurgeKept ==
    ASSUME NEW queue, NEW clock \in Nat, KeptQueue(queue, clock),
           NEW cutoff \in Int, cutoff <= clock - TTL
    PROVE  /\ KeptQueue(PurgeScript(queue, cutoff), clock)
           /\ PurgeScript(queue, cutoff).item = queue.item
           /\ \A u \in Token : PurgeScript(queue, cutoff).index[u] \in {0, queue.index[u]}
           /\ GoodQueue(queue, clock) => /\ GoodQueue(PurgeScript(queue, cutoff), clock)
                                         /\ KeepsListed(queue, PurgeScript(queue, cutoff))
<1> DEFINE p == PurgeExpired(queue, cutoff)
<1>1. /\ KeptQueue(p, clock) /\ p.item = queue.item
      /\ \A u \in Token : p.index[u] \in {0, queue.index[u]}
  BY PurgeExpiredKept
<1>2. DropEmptyKeys(p).index = p.index /\ DropEmptyKeys(p).item = p.item
      /\ KeptQueue(DropEmptyKeys(p), clock)
  BY <1>1, DropEmptyKeysKept
<1>3. GoodQueue(queue, clock) => /\ GoodQueue(DropEmptyKeys(p), clock)
                                 /\ KeepsListed(queue, DropEmptyKeys(p))
  BY <1>2, PurgeExpiredGood, DropEmptyKeysGood DEF KeepsListed
<1> QED BY <1>1, <1>2, <1>3 DEF PurgeScript

\* One tick removes the items whose deadline it reaches and no other.
LEMMA ExpireKept ==
    ASSUME NEW queue, NEW clock \in Nat, KeptQueue(queue, clock)
    PROVE  LET x == ExpireAt(queue, clock + 1)
           IN  /\ KeptQueue(x, clock + 1)
               /\ x.item = [t \in Token |-> IF queue.item[t].exp <= clock + 1
                                            THEN Absent ELSE queue.item[t]]
               /\ \A u \in Token : x.index[u] \in {0, queue.index[u]}
               /\ GoodQueue(queue, clock) => GoodQueue(x, clock + 1) /\ KeepsListed(queue, x)
<1> DEFINE x == ExpireAt(queue, clock + 1)
           items == [t \in Token |-> IF queue.item[t].exp <= clock + 1
                                     THEN Absent ELSE queue.item[t]]
<1>0. queue \in QueueType /\ clock + 1 \in Nat
  BY DEF KeptQueue
<1>1. items \in [Token -> ItemType]
  BY <1>0 DEF QueueType, ItemType, Absent
<1>2. x.item = items /\ x \in QueueType
  BY <1>0, <1>1 DEF ExpireAt, QueueType
<1>3. \A t \in Token : items[t].size # 0 =>
         /\ items[t] = queue.item[t]
         /\ clock + 1 < queue.item[t].exp
         /\ queue.item[t].size # 0
  BY <1>0 DEF QueueType, ItemType, Absent
<1>4. \A t \in Token : items[t].size = 0 => items[t] = Absent
  BY DEF KeptQueue, AbsentFacts
<1>5. \A t \in Token : x.index[t] \in {0, queue.index[t]}
  BY <1>0 DEF ExpireAt, QueueType
<1>6. IF queue.keysExp <= clock + 1
      THEN x.index = [t \in Token |-> 0] /\ x.order = 0
      ELSE /\ x.index = queue.index /\ x.order = queue.order
           /\ x.meta = queue.meta /\ x.keysExp = queue.keysExp
  BY <1>0 DEF ExpireAt, QueueType
<1> HIDE DEF x, items
<1>7. CustodyFacts(x, clock + 1)
  BY <1>0, <1>2, <1>3, <1>5, TTLAssumption DEF KeptQueue, CustodyFacts, QueueType, ItemType
<1>8. AbsentFacts(x)
  BY <1>2, <1>4 DEF AbsentFacts
<1>9. ASSUME GoodQueue(queue, clock)
      PROVE  CountedFacts(x) /\ OrderFacts(x) /\ KeepsListed(queue, x)
  <2>1. CASE queue.keysExp <= clock + 1
    <3>1. \A t \in Token : items[t].size # 0 => queue.index[t] = 0
      BY <1>0, <1>3, <1>9, <2>1 DEF GoodQueue, CountedFacts, QueueType, ItemType
    <3> QED BY <1>2, <1>6, <2>1, <3>1 DEF CountedFacts, OrderFacts, KeepsListed
  <2>2. CASE ~(queue.keysExp <= clock + 1)
    BY <1>2, <1>3, <1>6, <1>9, <2>2 DEF GoodQueue, CountedFacts, OrderFacts, KeepsListed
  <2> QED BY <2>1, <2>2
<1> QED BY <1>2, <1>5, <1>7, <1>8, <1>9 DEF KeptQueue, GoodQueue, x, items

\* The ZREM of one token.
LEMMA UnlistKept ==
    ASSUME NEW queue, NEW clock \in Nat, KeptQueue(queue, clock), NEW t \in Token
    PROVE  LET z == [queue EXCEPT !.index[t] = 0]
           IN  /\ KeptQueue(z, clock) /\ z.item = queue.item /\ z.meta = queue.meta
               /\ z.index = [queue.index EXCEPT ![t] = 0]
               /\ GoodQueue(queue, clock) => GoodQueue(z, clock)
<1> DEFINE z == [queue EXCEPT !.index[t] = 0]
<1>0. queue \in QueueType
  BY DEF KeptQueue
<1>1. /\ z \in QueueType /\ z.item = queue.item /\ z.meta = queue.meta
      /\ z.index = [queue.index EXCEPT ![t] = 0]
      /\ z.order = queue.order /\ z.keysExp = queue.keysExp
  BY <1>0 DEF QueueType
<1> HIDE DEF z
<1>2. \A u \in Token : z.index[u] \in {0, queue.index[u]}
  BY <1>0, <1>1 DEF QueueType
<1>3. CustodyFacts(z, clock) /\ AbsentFacts(z)
  BY <1>1, <1>2 DEF KeptQueue, CustodyFacts, AbsentFacts
<1>4. ASSUME GoodQueue(queue, clock) PROVE CountedFacts(z) /\ OrderFacts(z)
  BY <1>0, <1>1, <1>2, <1>4 DEF GoodQueue, CountedFacts, OrderFacts, QueueType
<1> QED BY <1>1, <1>3, <1>4 DEF KeptQueue, GoodQueue, z

\* The DEL of some items.
LEMMA DeleteItemsKept ==
    ASSUME NEW queue, NEW clock \in Nat, KeptQueue(queue, clock), NEW gone \in SUBSET Token,
           NEW items, items = [t \in Token |-> IF t \in gone THEN Absent ELSE queue.item[t]]
    PROVE  LET z == [queue EXCEPT !.item = items]
           IN  /\ KeptQueue(z, clock) /\ z.item = items
               /\ z.index = queue.index /\ z.meta = queue.meta
               /\ GoodQueue(queue, clock) => GoodQueue(z, clock)
<1> DEFINE z == [queue EXCEPT !.item = items]
<1>0. queue \in QueueType
  BY DEF KeptQueue
<1>1. items \in [Token -> ItemType]
  BY <1>0 DEF QueueType, ItemType, Absent
<1>2. /\ z \in QueueType /\ z.item = items /\ z.index = queue.index
      /\ z.meta = queue.meta /\ z.order = queue.order /\ z.keysExp = queue.keysExp
  BY <1>0, <1>1 DEF QueueType
<1>3. \A t \in Token : items[t] \in {Absent, queue.item[t]}
  OBVIOUS
<1> HIDE DEF z
<1>4. CustodyFacts(z, clock) /\ AbsentFacts(z)
  BY <1>2, <1>3 DEF KeptQueue, CustodyFacts, AbsentFacts, Absent
<1>5. ASSUME GoodQueue(queue, clock) PROVE CountedFacts(z) /\ OrderFacts(z)
  BY <1>2, <1>3, <1>5 DEF GoodQueue, CountedFacts, OrderFacts, Absent
<1> QED BY <1>2, <1>4, <1>5 DEF KeptQueue, GoodQueue, z

\* The DEL of the keys.
LEMMA DeleteKeysGood ==
    ASSUME NEW queue, NEW clock \in Nat, GoodQueue(queue, clock)
    PROVE  LET z == [EmptyQueue EXCEPT !.item = queue.item]
           IN  /\ GoodQueue(z, clock) /\ z.item = queue.item
               /\ \A t \in Token : z.index[t] = 0 /\ z.meta[t] = 0
<1> DEFINE z == [EmptyQueue EXCEPT !.item = queue.item]
<1>0. queue \in QueueType
  BY DEF GoodQueue, KeptQueue
<1>1. /\ z \in QueueType /\ z.item = queue.item
      /\ \A t \in Token : z.index[t] = 0 /\ z.meta[t] = 0
      /\ z.order = 0
  BY <1>0 DEF EmptyQueue, QueueType
<1> HIDE DEF z
<1>2. CustodyFacts(z, clock) /\ AbsentFacts(z) /\ CountedFacts(z) /\ OrderFacts(z)
  BY <1>0, <1>1 DEF GoodQueue, KeptQueue, CustodyFacts, AbsentFacts, CountedFacts, OrderFacts
<1> QED BY <1>1, <1>2 DEF KeptQueue, GoodQueue, z

-----------------------------------------------------------------------------
(* The queue under everything that writes it.                              *)

LEMMA CutoffFacts ==
    ASSUME now \in Nat, NEW cutoff \in Cutoffs
    PROVE  cutoff \in Int /\ cutoff <= now - TTL
  BY LagAssumption, TTLAssumption DEF Cutoffs

LEMMA QueueInvInit == QueueInit => QueueInv
<1>1. EmptyQueue \in QueueType
  BY DEF EmptyQueue, QueueType, ItemType, Absent
<1>2. /\ CustodyFacts(EmptyQueue, 1) /\ AbsentFacts(EmptyQueue)
      /\ CountedFacts(EmptyQueue) /\ OrderFacts(EmptyQueue)
  BY DEF EmptyQueue, Absent, CustodyFacts, AbsentFacts, CountedFacts, OrderFacts
<1> QED BY <1>1, <1>2 DEF QueueInit, QueueInv, GoodQueue, KeptQueue

\* What a step does to items and scores, besides keeping the invariant.
StepPromise ==
    /\ QueueInv'
    /\ \A t \in Token : Held(t) /\ Held(t)' => q.item'[t] = q.item[t]
    /\ \A t \in Token : Held(t) /\ ~Held(t)' =>
          \/ q.item[t].exp <= now' \/ q' = AckScript(q, t)
          \/ Discard(t)
          \/ \E listed \in SUBSET Token : t \in listed /\ DeleteItems(listed)
    /\ \A t \in Token : Held(t) /\ Indexed(t) /\ Held(t)' /\ ~Indexed(t)' =>
          Unlist(t) \/ DeleteKeys
    /\ \A t \in Token : q.index'[t] \notin {0, q.index[t]} =>
          \A u \in Token \ {t} : q.index'[u] < q.index'[t]

\* Every step keeps the promise.
LEMMA QueueStep == QueueInv /\ [QueueNext]_queueVars => StepPromise
<1> SUFFICES ASSUME QueueInv, [QueueNext]_queueVars PROVE StepPromise
  OBVIOUS
<1>0. now \in Nat \ {0} /\ GoodQueue(q, now) /\ KeptQueue(q, now) /\ q \in QueueType
  BY DEF QueueInv, GoodQueue, KeptQueue
<1>1. ASSUME NEW t \in Token, NEW size \in Sizes, NEW cutoff \in Cutoffs,
             Enqueue(t, size, cutoff)
      PROVE  StepPromise
  <2>1. cutoff \in Int /\ cutoff <= now - TTL /\ size \in Nat \ {0}
    BY <1>0, CutoffFacts, SizesAssumption
  <2>2. q' = EnqueueScript(q, t, size, now, cutoff) /\ now' = now
    BY <1>1 DEF Enqueue
  <2>0. SameOrAdded(q.item, q'.item, t, size, now + TTL)
    BY <1>0, <2>1, <2>2, EnqueueKept
  <2>3. /\ GoodQueue(q', now) /\ KeepsListed(q, q')
        /\ \A u \in Token : q'.index[u] \notin {0, q.index[u]} =>
              \A v \in Token \ {u} : q'.index[v] < q'.index[u]
    BY <1>0, <2>1, <2>2, EnqueueGood
  <2>4. QueueInv'
    BY <1>0, <2>2, <2>3 DEF QueueInv
  <2>5. \A u \in Token : Held(u) => q.item'[u] = q.item[u]
    BY <1>0, <2>0 DEF SameOrAdded, Held, Absent, QueueType
  <2> QED BY <2>3, <2>4, <2>5 DEF Held, Indexed, KeepsListed, StepPromise
<1>2. ASSUME NEW t \in Token, Ack(t)
      PROVE  StepPromise
  <2>1. q' = AckScript(q, t) /\ now' = now
    BY <1>2 DEF Ack
  <2>2. /\ GoodQueue(q', now) /\ KeepsListed(q, q')
        /\ q'.item = [q.item EXCEPT ![t] = Absent]
        /\ \A u \in Token : q'.index[u] \in {0, q.index[u]}
    BY <1>0, <2>1, AckKept
  <2>3. QueueInv'
    BY <1>0, <2>1, <2>2 DEF QueueInv
  <2>4. \A u \in Token \ {t} : q.item'[u] = q.item[u]
    BY <1>0, <2>2 DEF QueueType
  <2>5. ~Held(t)'
    BY <1>0, <2>2 DEF Held, Absent, QueueType
  <2> QED BY <2>1, <2>2, <2>3, <2>4, <2>5 DEF Held, Indexed, KeepsListed, StepPromise
<1>3. ASSUME NEW cutoff \in Cutoffs, Purge(cutoff)
      PROVE  StepPromise
  <2>1. cutoff \in Int /\ cutoff <= now - TTL
    BY <1>0, CutoffFacts
  <2>2. q' = PurgeScript(q, cutoff) /\ now' = now
    BY <1>3 DEF Purge
  <2>3. /\ GoodQueue(q', now) /\ KeepsListed(q, q')
        /\ q'.item = q.item
        /\ \A u \in Token : q'.index[u] \in {0, q.index[u]}
    BY <1>0, <2>1, <2>2, PurgeKept
  <2> QED BY <1>0, <2>2, <2>3 DEF QueueInv, Held, Indexed, KeepsListed, StepPromise
<1>4. ASSUME Tick
      PROVE  StepPromise
  <2>1. now' = now + 1 /\ q' = ExpireAt(q, now + 1) /\ now' \in Nat \ {0}
    BY <1>0, <1>4 DEF Tick
  <2>2. /\ GoodQueue(q', now + 1) /\ KeepsListed(q, q')
        /\ q'.item = [t \in Token |-> IF q.item[t].exp <= now + 1
                                       THEN Absent ELSE q.item[t]]
        /\ \A u \in Token : q'.index[u] \in {0, q.index[u]}
    BY <1>0, <2>1, ExpireKept
  <2>3. QueueInv'
    BY <2>1, <2>2 DEF QueueInv
  <2>4. \A t \in Token : q.item[t].exp <= now' \/ q.item'[t] = q.item[t]
    BY <2>1, <2>2
  <2>5. \A t \in Token : q.item[t].exp <= now' => ~Held(t)'
    BY <2>1, <2>2 DEF Held, Absent
  <2> QED BY <2>2, <2>3, <2>4, <2>5 DEF Held, Indexed, KeepsListed, StepPromise
<1>5. CASE UNCHANGED queueVars
  BY <1>5 DEF queueVars, QueueInv, Held, Indexed, StepPromise
<1>6. ASSUME NEW t \in Token, Unlist(t)
      PROVE  StepPromise
  <2>1. q' = [q EXCEPT !.index[t] = 0] /\ now' = now
    BY <1>6 DEF Unlist
  <2>2. /\ GoodQueue(q', now) /\ q'.item = q.item
        /\ q'.index = [q.index EXCEPT ![t] = 0]
    BY <1>0, <2>1, UnlistKept
  <2>3. \A u \in Token : q'.index[u] = IF u = t THEN 0 ELSE q.index[u]
    BY <1>0, <2>2 DEF QueueType
  <2> QED BY <1>0, <1>6, <2>1, <2>2, <2>3 DEF QueueInv, Held, Indexed, StepPromise
<1>7. ASSUME NEW gone \in SUBSET Token, now' = now, NEW items,
             items = [t \in Token |-> IF t \in gone THEN Absent ELSE q.item[t]],
             q' = [q EXCEPT !.item = items],
             \A t \in gone : \/ Discard(t)
                             \/ \E listed \in SUBSET Token : t \in listed /\ DeleteItems(listed)
      PROVE  StepPromise
  <2>1. GoodQueue(q', now) /\ q'.index = q.index /\ q'.item = items
    BY <1>0, <1>7, DeleteItemsKept
  <2>2. \A t \in Token : IF t \in gone THEN ~Held(t)' ELSE q.item'[t] = q.item[t]
    BY <1>7, <2>1 DEF Held, Absent
  <2>3. QueueInv'
    BY <1>0, <1>7, <2>1 DEF QueueInv
  <2>4. \A t \in Token : Held(t) /\ ~Held(t)' => t \in gone
    BY <2>2 DEF Held
  <2> QED BY <1>7, <2>1, <2>2, <2>3, <2>4 DEF Held, Indexed, StepPromise
<1>8. ASSUME NEW t \in Token, Discard(t)
      PROVE  StepPromise
  <2>1. PICK items : items = [u \in Token |-> IF u \in {t} THEN Absent ELSE q.item[u]]
    OBVIOUS
  <2>2. items = [q.item EXCEPT ![t] = Absent]
    BY <1>0, <2>1 DEF QueueType
  <2>3. q' = [q EXCEPT !.item = items] /\ now' = now
    BY <1>8, <2>2 DEF Discard
  <2>4. {t} \in SUBSET Token /\ \A u \in {t} : Discard(u)
    BY <1>8
  <2> QED BY <1>7, <2>1, <2>3, <2>4
<1>9. ASSUME NEW listed \in SUBSET Token, DeleteItems(listed)
      PROVE  StepPromise
  <2>1. PICK items : items = [u \in Token |-> IF u \in listed THEN Absent ELSE q.item[u]]
    OBVIOUS
  <2>2. q' = [q EXCEPT !.item = items] /\ now' = now
    BY <1>9, <2>1 DEF DeleteItems
  <2>3. \A u \in listed : \E some \in SUBSET Token : u \in some /\ DeleteItems(some)
    BY <1>9
  <2> QED BY <1>7, <2>1, <2>2, <2>3
<1>10. CASE DeleteKeys
  <2>1. q' = [EmptyQueue EXCEPT !.item = q.item] /\ now' = now
    BY <1>10 DEF DeleteKeys
  <2>2. /\ GoodQueue(q', now) /\ q'.item = q.item
        /\ \A t \in Token : q'.index[t] = 0
    BY <1>0, <2>1, DeleteKeysGood
  <2> QED BY <1>0, <1>10, <2>1, <2>2 DEF QueueInv, Held, StepPromise
<1> QED BY <1>1, <1>2, <1>3, <1>4, <1>5, <1>6, <1>8, <1>9, <1>10 DEF QueueNext

\* In every reachable state of the queue its variables have their types and
\* every ciphertext a drain would find is counted by the ledger at its true
\* size, whatever the limits, sizes and clock lag, and although the ZREM of a
\* drain and an account deletion write one structure at a time.
THEOREM LedgerSafe == QueueSpec => [](QueueTypeOK /\ LedgerCountsHeld)
<1>1. QueueInit => QueueInv
  BY QueueInvInit
<1>2. QueueInv /\ [QueueNext]_queueVars => QueueInv'
  BY QueueStep DEF StepPromise
<1>3. QueueInv => QueueTypeOK /\ LedgerCountsHeld
  BY DEF QueueInv, GoodQueue, KeptQueue, CountedFacts, QueueTypeOK, LedgerCountsHeld, Held, Indexed
<1> QED BY <1>1, <1>2, <1>3, PTL DEF QueueSpec

\* The queue's variables have their types whatever commands have run.
THEOREM QueueTypes == QueueSpec => []QueueTypeOK
BY LedgerSafe, PTL

\* No script and no expiry strands a ciphertext in custody outside the index:
\* only a drain's ZREM of that very token and an account deletion do.
THEOREM HeldStaysListedSafe == QueueSpec => HeldStaysListed
<1>1. QueueInv /\ [QueueNext]_queueVars =>
        /\ QueueInv'
        /\ [\A t \in Token :
               Held(t) /\ Indexed(t) /\ Held(t)' /\ ~Indexed(t)'
               => Unlist(t) \/ DeleteKeys]_queueVars
  BY QueueStep DEF StepPromise
<1> QED BY <1>1, QueueInvInit, PTL DEF QueueSpec, HeldStaysListed

\* Overflow, purges and retries never cost or change a ciphertext in custody:
\* it stays as it is until its own deadline, its own ACK, an envelope that does
\* not open or the deletion of the account ends it.
THEOREM NeverSacrificedSafe == QueueSpec => NeverSacrificed
<1>1. QueueInv /\ [QueueNext]_queueVars =>
        /\ QueueInv'
        /\ [\A t \in Token : Held(t) /\ q.item'[t] # q.item[t] =>
               /\ ~Held(t)'
               /\ \/ q.item[t].exp <= now' \/ q' = AckScript(q, t)
                  \/ Discard(t)
                  \/ \E listed \in SUBSET Token : t \in listed /\ DeleteItems(listed)]_queueVars
  BY QueueStep DEF StepPromise
<1> QED BY <1>1, QueueInvInit, PTL DEF QueueSpec, NeverSacrificed

\* Redelivery order is acceptance order.
THEOREM OrderPreservedSafe == QueueSpec => OrderPreserved
<1>1. QueueInv /\ [QueueNext]_queueVars =>
        /\ QueueInv'
        /\ [\A t, u \in Token :
               /\ q.index'[t] \notin {0, q.index[t]}
               /\ u # t /\ q.index'[u] # 0
               => q.index'[t] > q.index'[u]]_queueVars
  BY QueueStep DEF StepPromise, QueueInv, GoodQueue, KeptQueue, QueueType
<1> QED BY <1>1, QueueInvInit, PTL DEF QueueSpec, OrderPreserved

-----------------------------------------------------------------------------
(* The byte limit.                                                         *)

\* What the scripts measure: the sizes in the ledger.
LedgerBounded(queue) == SumOver(queue.meta, Token) <= MaxBytes

\* A ledger whose fields are each at most what they were.
LEMMA LedgerShrinks ==
    ASSUME NEW queue \in QueueType, NEW after \in QueueType, LedgerBounded(queue),
           \A t \in Token : after.meta[t] <= queue.meta[t]
    PROVE  LedgerBounded(after)
<1>1. PICK f, h : f = queue.meta /\ h = after.meta
  OBVIOUS
<1>2. f \in [Token -> Nat] /\ h \in [Token -> Nat]
  BY <1>1 DEF QueueType
<1>4. \A u \in Token : h[u] <= f[u] + (IF u = 0 THEN 0 ELSE 0)
  BY <1>1, <1>2
<1>5. /\ SumOver(h, Token) \in Nat /\ SumOver(f, Token) \in Nat
      /\ SumOver(h, Token) <= SumOver(f, Token) + 0
  BY <1>2, <1>4, SumGrows, TokenAssumption
<1>6. SumOver(f, Token) <= MaxBytes
  BY <1>1 DEF LedgerBounded
<1> QED
  BY <1>1, <1>5, <1>6, LimitsAssumption DEF LedgerBounded

\* PURGE_EXPIRED_FRAGMENT, DEL, ACK and the expiry of keys only take fields
\* out of the ledger.
LEMMA LedgerAfterPurge ==
    ASSUME NEW queue \in QueueType, NEW cutoff
    PROVE  \A t \in Token : PurgeExpired(queue, cutoff).meta[t] <= queue.meta[t]
  BY DEF PurgeExpired, QueueType

LEMMA LedgerAfterDrop ==
    ASSUME NEW queue \in QueueType
    PROVE  \A t \in Token : DropEmptyKeys(queue).meta[t] <= queue.meta[t]
  BY DEF DropEmptyKeys, QueueType

LEMMA LedgerAfterAck ==
    ASSUME NEW queue \in QueueType, NEW t \in Token
    PROVE  \A u \in Token : AckScript(queue, t).meta[u] <= queue.meta[u]
<1>1. PICK r : r = [queue EXCEPT !.item[t] = Absent, !.index[t] = 0, !.meta[t] = 0]
  OBVIOUS
<1>2. r \in QueueType
  BY <1>1 DEF QueueType, ItemType, Absent
<1>3. r.meta = [queue.meta EXCEPT ![t] = 0]
  BY <1>1 DEF QueueType
<1>4. \A u \in Token : r.meta[u] <= queue.meta[u] /\ r.meta[u] \in Nat
  BY <1>3 DEF QueueType
<1>5. AckScript(queue, t) = DropEmptyKeys(r)
  BY <1>1 DEF AckScript
<1>6. \A u \in Token : DropEmptyKeys(r).meta[u] \in {0, r.meta[u]}
  BY <1>2 DEF DropEmptyKeys, QueueType
<1> QED
  BY <1>4, <1>5, <1>6 DEF QueueType

LEMMA LedgerAfterExpiry ==
    ASSUME NEW queue \in QueueType, NEW clock
    PROVE  \A t \in Token : ExpireAt(queue, clock).meta[t] <= queue.meta[t]
  BY DEF ExpireAt, QueueType

\* ENQUEUE_RELIABLE_SCRIPT adds a size to the ledger after asking for room.
LEMMA EnqueueBounded ==
    ASSUME NEW queue \in QueueType, LedgerBounded(queue), NEW t \in Token,
           NEW size \in Nat, NEW clock, NEW cutoff,
           PurgeExpired(queue, cutoff) \in QueueType
    PROVE  LedgerBounded(EnqueueScript(queue, t, size, clock, cutoff))
<1>1. PICK p : p = PurgeExpired(queue, cutoff)
  OBVIOUS
<1>2. p \in QueueType /\ LedgerBounded(p)
  BY <1>1, LedgerAfterPurge, LedgerShrinks
<1>3. CASE EnqueueScript(queue, t, size, clock, cutoff) \in {queue, p}
  BY <1>2, <1>3
<1>4. CASE /\ EnqueueScript(queue, t, size, clock, cutoff) = WriteItem(p, t, size, clock)
           /\ HasRoom(p, size)
  <2>1. PICK f, h : f = p.meta /\ h = WriteItem(p, t, size, clock).meta
    OBVIOUS
  <2>2. f \in [Token -> Nat] /\ h = [f EXCEPT ![t] = size]
    BY <1>2, <2>1 DEF QueueType, WriteItem
  <2>3. /\ f \in [Token -> Nat] /\ h \in [Token -> Nat]
        /\ \A u \in Token : h[u] <= f[u] + (IF u = t THEN size ELSE 0)
    BY <2>2
  <2>4. /\ SumOver(h, Token) \in Nat /\ SumOver(f, Token) \in Nat
        /\ SumOver(h, Token) <= SumOver(f, Token) + size
    BY <2>3, SumGrows, TokenAssumption
  <2>5. SumOver(f, Token) + size <= MaxBytes
    BY <1>4, <2>1 DEF HasRoom
  <2> QED
    BY <1>4, <2>1, <2>4, <2>5, LimitsAssumption DEF LedgerBounded
<1> QED
  BY <1>1, <1>3, <1>4 DEF EnqueueScript

\* The ledger starts empty.
LEMMA LedgerInit == QueueInit => LedgerBounded(q)
<1> SUFFICES ASSUME QueueInit PROVE LedgerBounded(q)
  OBVIOUS
<1>1. PICK f : f = [t \in Token |-> 0]
  OBVIOUS
<1>2. f \in [Token -> Nat] /\ q.meta = f
  BY <1>1 DEF QueueInit, EmptyQueue
<1> DEFINE P == {s \in SUBSET Token : Sums(f, Token)[s] = 0}
<1>3. {} \in P
  BY <1>2, SumsFacts, TokenAssumption DEF Term
<1>4. ASSUME NEW s \in SUBSET Token, s # {}, s \ {First(s)} \in P
      PROVE  s \in P
  <2>1. PICK x, r : x = First(s) /\ r = s \ {x}
    OBVIOUS
  <2>2. x \in Token
    BY <1>4, <2>1, RestFacts, TokenAssumption
  <2>3. Sums(f, Token)[s] = f[x] + Sums(f, Token)[r]
    BY <1>2, <1>4, <2>1, SumsFacts, TokenAssumption DEF Term
  <2>4. f[x] = 0 /\ Sums(f, Token)[r] = 0
    BY <1>1, <1>4, <2>1, <2>2
  <2> QED
    BY <2>3, <2>4
<1>5. P \in SUBSET SUBSET Token
  OBVIOUS
<1> HIDE DEF P
<1>6. SUBSET Token \subseteq P
  BY <1>3, <1>4, <1>5, SubsetInduction, TokenAssumption
<1>7. SumOver(f, Token) = 0
  BY <1>6, SumIsLast DEF P
<1> QED
  BY <1>2, <1>7, LimitsAssumption DEF LedgerBounded

\* No step takes the ledger past the limit.
LEMMA LedgerStep ==
    ASSUME QueueInv, QueueInv', LedgerBounded(q), [QueueNext]_queueVars
    PROVE  LedgerBounded(q')
<1>0. /\ now \in Nat /\ KeptQueue(q, now) /\ q \in QueueType /\ q' \in QueueType
  BY DEF QueueInv, GoodQueue, KeptQueue
<1>1. ASSUME NEW t \in Token, NEW size \in Sizes, NEW cutoff \in Cutoffs,
             Enqueue(t, size, cutoff)
      PROVE  LedgerBounded(q')
  <2>1. cutoff \in Int /\ cutoff <= now - TTL /\ size \in Nat
    BY <1>0, CutoffFacts, SizesAssumption
  <2>2. PurgeExpired(q, cutoff) \in QueueType
    BY <1>0, <2>1, PurgeExpiredKept DEF KeptQueue
  <2>3. LedgerBounded(EnqueueScript(q, t, size, now, cutoff))
    BY <1>0, <2>1, <2>2, EnqueueBounded
  <2> QED
    BY <1>1, <2>3 DEF Enqueue
<1>2. ASSUME NEW t \in Token, Ack(t)
      PROVE  LedgerBounded(q')
  <2>1. \A u \in Token : q'.meta[u] <= q.meta[u]
    BY <1>0, <1>2, LedgerAfterAck DEF Ack
  <2> QED
    BY <1>0, <2>1, LedgerShrinks
<1>3. ASSUME NEW cutoff \in Cutoffs, Purge(cutoff)
      PROVE  LedgerBounded(q')
  <2>1. cutoff \in Int /\ cutoff <= now - TTL
    BY <1>0, CutoffFacts
  <2>2. PICK p : p = PurgeExpired(q, cutoff)
    OBVIOUS
  <2>3. p \in QueueType
    BY <1>0, <2>1, <2>2, PurgeExpiredKept DEF KeptQueue
  <2>4. \A u \in Token : p.meta[u] <= q.meta[u]
    BY <1>0, <2>2, LedgerAfterPurge
  <2>5. LedgerBounded(p)
    BY <1>0, <2>3, <2>4, LedgerShrinks
  <2>6. q' = DropEmptyKeys(p)
    BY <1>3, <2>2 DEF Purge, PurgeScript
  <2>7. \A u \in Token : q'.meta[u] <= p.meta[u]
    BY <2>3, <2>6, LedgerAfterDrop
  <2> QED
    BY <1>0, <2>3, <2>5, <2>7, LedgerShrinks
<1>4. CASE Tick
  <2>1. q' = ExpireAt(q, now')
    BY <1>4 DEF Tick
  <2>2. \A u \in Token : q'.meta[u] <= q.meta[u]
    BY <1>0, <2>1, LedgerAfterExpiry
  <2> QED
    BY <1>0, <2>2, LedgerShrinks
<1>5. CASE UNCHANGED queueVars
  BY <1>5 DEF queueVars
<1>6. ASSUME q'.meta = q.meta
      PROVE  LedgerBounded(q')
  BY <1>6 DEF LedgerBounded
<1>7. CASE \/ \E t \in Token : Unlist(t) \/ Discard(t)
           \/ \E listed \in SUBSET Token : DeleteItems(listed)
  <2>1. q'.meta = q.meta
    BY <1>0, <1>7 DEF Unlist, Discard, DeleteItems, QueueType
  <2> QED
    BY <1>6, <2>1
<1>8. CASE DeleteKeys
  <2>1. \A u \in Token : q'.meta[u] <= q.meta[u]
    BY <1>0, <1>8 DEF DeleteKeys, EmptyQueue, QueueType
  <2> QED
    BY <1>0, <2>1, LedgerShrinks
<1> QED
  BY <1>1, <1>2, <1>3, <1>4, <1>5, <1>7, <1>8 DEF QueueNext

\* The payloads a drain would load for a recipient never exceed the byte
\* limit, however items, ledger and index expire apart and whichever index
\* entries drains and account deletions take: a payload found in the index is
\* counted at its size, and the script adds only while there is room.
THEOREM BytesSafe == QueueSpec => []BytesBounded
<1>1. QueueInit => QueueInv /\ LedgerBounded(q)
  BY QueueInvInit, LedgerInit
<1>2. QueueInv /\ LedgerBounded(q) /\ [QueueNext]_queueVars =>
         QueueInv' /\ LedgerBounded(q)'
  BY QueueStep, LedgerStep DEF StepPromise
<1>3. QueueInv /\ LedgerBounded(q) => BytesBounded
  <2> SUFFICES ASSUME QueueInv, LedgerBounded(q) PROVE BytesBounded
    OBVIOUS
  <2>1. PICK f, h : /\ f = q.meta
                    /\ h = [t \in Token |-> IF Indexed(t) THEN q.item[t].size ELSE 0]
    OBVIOUS
  <2>2. q \in QueueType /\ CountedFacts(q)
    BY DEF QueueInv, GoodQueue, KeptQueue
  <2>3. f \in [Token -> Nat] /\ h \in [Token -> Nat]
    BY <2>1, <2>2 DEF QueueType, ItemType
  <2>4. \A u \in Token : h[u] <= f[u] + (IF u = 0 THEN 0 ELSE 0)
    BY <2>1, <2>2, <2>3 DEF CountedFacts, Indexed
  <2>5. /\ SumOver(h, Token) \in Nat /\ SumOver(f, Token) \in Nat
        /\ SumOver(h, Token) <= SumOver(f, Token) + 0
    BY <2>3, <2>4, SumGrows, TokenAssumption
  <2>6. SumOver(f, Token) <= MaxBytes
    BY <2>1 DEF LedgerBounded
  <2> QED
    BY <2>1, <2>5, <2>6, LimitsAssumption DEF BytesBounded
<1> QED
  BY <1>1, <1>2, <1>3, PTL DEF QueueSpec

=============================================================================
