------------------------- MODULE StripedTableProofs -------------------------
(***************************************************************************)
(* Proofs about StripedTable, for any number of threads and keys, any hash  *)
(* function and any sizes: the table implements a set with atomic           *)
(* operations (KeySet) although it is resized meanwhile, its element count  *)
(* is exact, and a user list is complete.                                   *)
(*                                                                          *)
(* The inductive invariant IInv is in StripedTable.  First come facts about *)
(* remainders and chains, then what a thread that holds a lock knows, then  *)
(* one lemma per action.                                                    *)
(***************************************************************************)
EXTENDS StripedTable, SequenceTheorems, FiniteSetTheorems, TLAPS

-----------------------------------------------------------------------------
(* Remainders.                                                              *)

LEMMA ModRange ==
    ASSUME NEW a \in Nat, NEW n \in Nat \ {0}
    PROVE  a % n \in 0..n - 1
OBVIOUS

LEMMA DivMod ==
    ASSUME NEW a \in Nat, NEW n \in Nat \ {0}
    PROVE  a = n * (a \div n) + (a % n) /\ a % n \in 0..n - 1 /\ a \div n \in Nat
OBVIOUS

LEMMA ModOfMultiple ==
    ASSUME NEW n \in Nat \ {0}, NEW m \in Nat
    PROVE  (n * m) % n = 0 /\ (n * m) \div n = m
OBVIOUS

\* A size that is doubled modulo a multiple of the stripe still has whole stripes.
LEMMA WholeStripes ==
    ASSUME NEW n \in Nat \ {0}, NEW a \in Nat, NEW g \in Nat, NEW w \in Nat \ {0},
           a % n = 0, w % n = 0
    PROVE  ((a * g) % w) % n = 0
<1> DEFINE q == a \div n
           v == w \div n
           x == a * g
           e == x \div w
<1>1. a = n * q /\ q \in Nat /\ w = n * v /\ v \in Nat
  BY DivMod
<1>2. x \in Nat
  OBVIOUS
<1> HIDE DEF x
<1>3. x = w * e + (x % w) /\ e \in Nat /\ x % w \in Nat
  BY <1>2, DivMod
<1> HIDE DEF q, v, e
<1>4. x = n * (q * g) /\ w * e = n * (v * e)
  BY <1>1, <1>3 DEF x
<1>5. q * g \in Nat /\ v * e \in Nat
  BY <1>1, <1>3
<1>6. x % w = n * (q * g - v * e)
  BY <1>3, <1>4, <1>5
<1>7. q * g - v * e \in Nat
  BY <1>3, <1>5, <1>6
<1>8. (x % w) % n = 0
  BY <1>6, <1>7, ModOfMultiple
<1> QED
  BY <1>8 DEF x

\* The loop of htable_copy_all_keys over stripes and buckets visits each bucket.
LEMMA StripeLoop ==
    ASSUME NEW n \in Nat \ {0}, NEW s \in Nat \ {0}, s % n = 0, NEW b \in 0..s - 1
    PROVE  /\ (b + 1) % n # 0 => b + 1 < s
           /\ (b + 1) % n = 0 /\ (b + 1) \div n < s \div n => b + 1 < s
           /\ (b + 1) % n = 0 /\ (b + 1) \div n >= s \div n => b + 1 = s
<1> DEFINE m == s \div n
           d == (b + 1) \div n
<1>1. s = n * m /\ m \in Nat
  BY DivMod
<1>2. b + 1 = n * d + ((b + 1) % n) /\ d \in Nat
  BY DivMod
<1>3. (b + 1) % n # 0 => b + 1 < s
  OBVIOUS
<1> HIDE DEF m, d
<1>4. ASSUME (b + 1) % n = 0, d >= m
      PROVE  b + 1 = s
  <2>1. n * d >= n * m
    BY <1>1, <1>2, <1>4
  <2> QED
    BY <1>1, <1>2, <1>4, <2>1
<1>5. ASSUME (b + 1) % n = 0, d < m
      PROVE  b + 1 < s
  <2>1. n * d < n * m
    BY <1>1, <1>2, <1>5
  <2> QED
    BY <1>1, <1>2, <1>5, <2>1
<1> QED
  BY <1>3, <1>4, <1>5 DEF m, d

\* The next bucket is in the same stripe unless a stripe begins with it.
LEMMA SameStripe ==
    ASSUME NEW n \in Nat \ {0}, NEW b \in Nat, (b + 1) % n # 0
    PROVE  (b + 1) \div n = b \div n
<1> DEFINE d == b \div n
           r == b % n
           e == (b + 1) \div n
           q == (b + 1) % n
<1>1. b = n * d + r /\ r \in 0..n - 1 /\ d \in Nat
  BY DivMod
<1>2. b + 1 = n * e + q /\ q \in 0..n - 1 /\ e \in Nat /\ q # 0
  BY DivMod
<1> HIDE DEF d, r, e, q
<1>3. n * (e - d) = r + 1 - q
  BY <1>1, <1>2
<1>4. e - d = 0 \/ e - d >= 1 \/ e - d <= -1
  BY <1>1, <1>2
<1>5. CASE e - d >= 1
  <2>1. n * (e - d) >= n
    BY <1>1, <1>2, <1>5
  <2> QED
    BY <1>1, <1>2, <1>3, <2>1
<1>6. CASE e - d <= -1
  <2>1. n * (e - d) <= -n
    BY <1>1, <1>2, <1>6
  <2> QED
    BY <1>1, <1>2, <1>3, <2>1
<1> QED
  BY <1>1, <1>2, <1>4, <1>5, <1>6 DEF d, e

-----------------------------------------------------------------------------
(* Chains.                                                                  *)

LEMMA RangeFacts ==
    ASSUME NEW c \in Seq(Key)
    PROVE  /\ Range(c) \subseteq Key
           /\ \A x : x \in Range(c) <=> \E i \in 1..Len(c) : c[i] = x
BY DEF Range

LEMMA ChainOfNats ==
    ASSUME NEW c \in Seq(Key)
    PROVE  Len(c) \in Nat /\ \A j \in 1..Len(c) : c[j] \in Key /\ c[j] \in Nat
<1>1. Key \subseteq Nat
  BY TableAssumption
<1>2. Len(c) \in Nat /\ \A j \in 1..Len(c) : c[j] \in Key
  OBVIOUS
<1> QED
  BY <1>1, <1>2

\* Chain d is chain c with key k in place i, or with its i-th key taken out.
WithKey(c, i, k, d) ==
    /\ d \in Seq(Key) /\ Len(d) = Len(c) + 1
    /\ \A j \in 1..Len(c) + 1 : d[j] = IF j < i THEN c[j] ELSE IF j = i THEN k ELSE c[j - 1]

WithoutKey(c, i, d) ==
    /\ d \in Seq(Key) /\ Len(d) = Len(c) - 1
    /\ \A j \in 1..Len(c) - 1 : d[j] = IF j < i THEN c[j] ELSE c[j + 1]

LEMMA InsertAtFacts ==
    ASSUME NEW c \in Seq(Key), NEW i \in 1..Len(c) + 1, NEW k \in Key
    PROVE  WithKey(c, i, k, InsertAt(c, i, k))
<1> DEFINE a == SubSeq(c, 1, i - 1)
           b == SubSeq(c, i, Len(c))
           d == a \o <<k>>
<1>1. a \in Seq(Key) /\ Len(a) = i - 1 /\ \A j \in 1..i - 1 : a[j] = c[j]
  OBVIOUS
<1>2. b \in Seq(Key) /\ Len(b) = Len(c) - i + 1 /\ \A j \in 1..Len(c) - i + 1 : b[j] = c[i + j - 1]
  OBVIOUS
<1> HIDE DEF a, b
<1>3. d \in Seq(Key) /\ Len(d) = i /\ d[i] = k /\ \A j \in 1..i - 1 : d[j] = c[j]
  BY <1>1
<1> HIDE DEF d
<1>4. /\ d \o b \in Seq(Key) /\ Len(d \o b) = Len(d) + Len(b)
      /\ \A j \in 1..Len(d) + Len(b) : (d \o b)[j] = IF j <= Len(d) THEN d[j] ELSE b[j - Len(d)]
  BY <1>2, <1>3, ConcatProperties
<1>5. InsertAt(c, i, k) = d \o b
  BY DEF d, a, b, InsertAt
<1>6. Len(d) + Len(b) = Len(c) + 1
  BY <1>2, <1>3
<1>7. ASSUME NEW j \in 1..Len(c) + 1
      PROVE  (d \o b)[j] = IF j < i THEN c[j] ELSE IF j = i THEN k ELSE c[j - 1]
  <2>1. (d \o b)[j] = IF j <= i THEN d[j] ELSE b[j - i]
    BY <1>3, <1>4, <1>6
  <2>2. CASE j <= i
    BY <1>3, <2>1, <2>2
  <2>3. CASE ~(j <= i)
    <3>1. j - i \in 1..Len(c) - i + 1 /\ i + (j - i) - 1 = j - 1
      BY <2>3
    <3>2. b[j - i] = c[i + (j - i) - 1]
      BY <1>2, <3>1
    <3> QED
      BY <2>1, <2>3, <3>1, <3>2
  <2> QED
    BY <2>2, <2>3
<1> QED
  BY <1>4, <1>5, <1>6, <1>7 DEF WithKey

LEMMA RemoveAtFacts ==
    ASSUME NEW c \in Seq(Key), NEW i \in 1..Len(c)
    PROVE  WithoutKey(c, i, RemoveAt(c, i))
<1> DEFINE a == SubSeq(c, 1, i - 1)
           b == SubSeq(c, i + 1, Len(c))
<1>1. a \in Seq(Key) /\ Len(a) = i - 1 /\ \A j \in 1..i - 1 : a[j] = c[j]
  OBVIOUS
<1>2. b \in Seq(Key) /\ Len(b) = Len(c) - i /\ \A j \in 1..Len(c) - i : b[j] = c[i + j]
  OBVIOUS
<1> HIDE DEF a, b
<1>3. /\ a \o b \in Seq(Key) /\ Len(a \o b) = Len(a) + Len(b)
      /\ \A j \in 1..Len(a) + Len(b) : (a \o b)[j] = IF j <= Len(a) THEN a[j] ELSE b[j - Len(a)]
  BY <1>1, <1>2, ConcatProperties
<1>4. RemoveAt(c, i) = a \o b
  BY DEF a, b, RemoveAt
<1>5. Len(a) + Len(b) = Len(c) - 1
  BY <1>1, <1>2
<1>6. ASSUME NEW j \in 1..Len(c) - 1
      PROVE  (a \o b)[j] = IF j < i THEN c[j] ELSE c[j + 1]
  <2>1. (a \o b)[j] = IF j <= i - 1 THEN a[j] ELSE b[j - (i - 1)]
    BY <1>1, <1>3, <1>5
  <2>2. CASE j < i
    BY <1>1, <2>1, <2>2
  <2>3. CASE ~(j < i)
    <3>1. j - (i - 1) \in 1..Len(c) - i /\ i + (j - (i - 1)) = j + 1
      BY <2>3
    <3>2. b[j - (i - 1)] = c[i + (j - (i - 1))]
      BY <1>2, <3>1
    <3> QED
      BY <2>1, <2>3, <3>1, <3>2
  <2> QED
    BY <2>2, <2>3
<1> QED
  BY <1>3, <1>4, <1>5, <1>6 DEF WithoutKey

\* htable_add and the resize put a key into its place: the chain has it, what
\* it had before, and nothing else, and it is still sorted.
LEMMA InsertSorted ==
    ASSUME NEW c \in Seq(Key), Sorted(c), NEW k \in Key, NEW i \in 1..Len(c) + 1, Place(c, k, i)
    PROVE  /\ InsertAt(c, i, k) \in Seq(Key)
           /\ Range(InsertAt(c, i, k)) = Range(c) \cup {k}
           /\ Sorted(InsertAt(c, i, k))
<1> DEFINE d == InsertAt(c, i, k)
<1>0. WithKey(c, i, k, d)
  BY InsertAtFacts
<1> HIDE DEF d
<1>1. /\ d \in Seq(Key) /\ Len(d) = Len(c) + 1
      /\ \A j \in 1..Len(c) + 1 : d[j] = IF j < i THEN c[j] ELSE IF j = i THEN k ELSE c[j - 1]
  BY <1>0 DEF WithKey
<1>2. \A x : x \in Range(d) <=> \E j \in 1..Len(d) : d[j] = x
  BY <1>1, RangeFacts
<1>3. \A x : x \in Range(c) <=> \E j \in 1..Len(c) : c[j] = x
  BY RangeFacts
<1>4. ASSUME NEW x, x \in Range(d)
      PROVE  x \in Range(c) \cup {k}
  <2>1. PICK j \in 1..Len(d) : d[j] = x
    BY <1>2, <1>4
  <2>2. CASE j = i
    BY <1>1, <2>1, <2>2
  <2>3. CASE j < i
    <3>1. j \in 1..Len(c) /\ c[j] = x
      BY <1>1, <2>1, <2>3
    <3> QED
      BY <1>3, <3>1
  <2>4. CASE j > i
    <3>1. j - 1 \in 1..Len(c) /\ c[j - 1] = x
      BY <1>1, <2>1, <2>4
    <3> QED
      BY <1>3, <3>1
  <2> QED
    BY <1>1, <2>2, <2>3, <2>4
<1>5. k \in Range(d)
  BY <1>1, <1>2
<1>6. ASSUME NEW x, x \in Range(c)
      PROVE  x \in Range(d)
  <2>1. PICK j \in 1..Len(c) : c[j] = x
    BY <1>3, <1>6
  <2>2. d[IF j < i THEN j ELSE j + 1] = x
    BY <1>1, <2>1
  <2> QED
    BY <1>1, <1>2, <2>2
<1>7. Sorted(d)
  <2>1. Len(c) \in Nat /\ \A j \in 1..Len(c) : c[j] \in Nat
    BY ChainOfNats
  <2>2. \A j \in 1..Len(c) : j < i => c[j] < k
    BY DEF Place
  <2>3. \A j \in 1..Len(c) : i <= j => k < c[j]
    BY <2>1, TableAssumption DEF Place, Sorted
  <2> SUFFICES ASSUME NEW x \in 1..Len(d), NEW y \in 1..Len(d), x < y
               PROVE  d[x] < d[y]
    BY DEF Sorted
  <2>4. \A v, w \in 1..Len(c) : v < w => c[v] < c[w]
    BY DEF Sorted
  <2>5. k \in Nat /\ Len(d) = Len(c) + 1
    BY <1>1, TableAssumption
  <2>6. CASE y < i
    <3>1. d[x] = c[x] /\ d[y] = c[y] /\ x \in 1..Len(c) /\ y \in 1..Len(c)
      BY <1>1, <2>1, <2>5, <2>6
    <3> QED
      BY <2>4, <3>1
  <2>7. CASE y = i
    <3>1. d[x] = c[x] /\ d[y] = k /\ x \in 1..Len(c)
      BY <1>1, <2>1, <2>5, <2>7
    <3> QED
      BY <2>2, <2>7, <3>1
  <2>8. CASE y > i /\ x = i
    <3>1. d[x] = k /\ d[y] = c[y - 1] /\ y - 1 \in 1..Len(c) /\ i <= y - 1
      BY <1>1, <2>1, <2>5, <2>8
    <3> QED
      BY <2>3, <3>1
  <2>9. CASE y > i /\ x < i
    <3>1. d[x] = c[x] /\ d[y] = c[y - 1] /\ x \in 1..Len(c) /\ y - 1 \in 1..Len(c) /\ x < y - 1
      BY <1>1, <2>1, <2>5, <2>9
    <3> QED
      BY <2>4, <3>1
  <2>10. CASE y > i /\ x > i
    <3>1. d[x] = c[x - 1] /\ d[y] = c[y - 1] /\ x - 1 \in 1..Len(c) /\ y - 1 \in 1..Len(c)
      BY <1>1, <2>1, <2>5, <2>10
    <3> QED
      BY <2>4, <3>1
  <2> QED
    BY <2>6, <2>7, <2>8, <2>9, <2>10
<1> QED
  BY <1>1, <1>4, <1>5, <1>6, <1>7 DEF d

\* A removal takes the key out of a sorted chain, and no other.
LEMMA RemoveSorted ==
    ASSUME NEW c \in Seq(Key), Sorted(c), NEW i \in 1..Len(c)
    PROVE  /\ RemoveAt(c, i) \in Seq(Key)
           /\ Range(RemoveAt(c, i)) = Range(c) \ {c[i]}
           /\ Sorted(RemoveAt(c, i))
<1> DEFINE d == RemoveAt(c, i)
<1>0. WithoutKey(c, i, d)
  BY RemoveAtFacts
<1> HIDE DEF d
<1>1. /\ d \in Seq(Key) /\ Len(d) = Len(c) - 1
      /\ \A j \in 1..Len(c) - 1 : d[j] = IF j < i THEN c[j] ELSE c[j + 1]
  BY <1>0 DEF WithoutKey
<1>2. \A x : x \in Range(d) <=> \E j \in 1..Len(d) : d[j] = x
  BY <1>1, RangeFacts
<1>3. \A x : x \in Range(c) <=> \E j \in 1..Len(c) : c[j] = x
  BY RangeFacts
<1>4. \A j \in 1..Len(c) : c[j] \in Nat
  BY ChainOfNats
<1>5. \A j \in 1..Len(c) : j # i => c[j] # c[i]
  BY <1>4 DEF Sorted
<1>6. ASSUME NEW x, x \in Range(d)
      PROVE  x \in Range(c) /\ x # c[i]
  <2>1. PICK j \in 1..Len(c) - 1 : d[j] = x
    BY <1>1, <1>2, <1>6
  <2>2. x = c[IF j < i THEN j ELSE j + 1]
    BY <1>1, <2>1
  <2> QED
    BY <1>3, <1>5, <2>2
<1>7. ASSUME NEW x, x \in Range(c), x # c[i]
      PROVE  x \in Range(d)
  <2>1. PICK j \in 1..Len(c) : c[j] = x
    BY <1>3, <1>7
  <2>2. j # i
    BY <1>7, <2>1
  <2>3. d[IF j < i THEN j ELSE j - 1] = x
    BY <1>1, <2>1, <2>2
  <2> QED
    BY <1>1, <1>2, <2>2, <2>3
<1>8. Sorted(d)
  <2> SUFFICES ASSUME NEW x \in 1..Len(d), NEW y \in 1..Len(d), x < y
               PROVE  d[x] < d[y]
    BY DEF Sorted
  <2>1. \A v, w \in 1..Len(c) : v < w => c[v] < c[w]
    BY DEF Sorted
  <2>2. PICK v \in 1..Len(c) : v = IF x < i THEN x ELSE x + 1
    BY <1>1
  <2>3. PICK w \in 1..Len(c) : w = IF y < i THEN y ELSE y + 1
    BY <1>1
  <2>4. d[x] = c[v] /\ d[y] = c[w] /\ v < w
    BY <1>1, <2>2, <2>3
  <2> QED
    BY <2>1, <2>4
<1> QED
  BY <1>1, <1>6, <1>7, <1>8 DEF d

\* The walk of htable_add stops at the key if the sorted chain has it, and at a
\* greater one or the end if not.
LEMMA PresentIsMember ==
    ASSUME NEW c \in Seq(Key), Sorted(c), NEW k \in Key
    PROVE  Present(c, k) <=> k \in Range(c)
<1>1. \A x : x \in Range(c) <=> \E j \in 1..Len(c) : c[j] = x
  BY RangeFacts
<1>2. ASSUME NEW i \in 1..Len(c), c[i] = k
      PROVE  \A j \in 1..i - 1 : c[j] < k
  BY <1>2 DEF Sorted
<1> QED
  BY <1>1, <1>2 DEF Present

\* Two lists without repetitions and without a common key.
LEMMA ConcatInjective ==
    ASSUME NEW a \in Seq(Key), NEW b \in Seq(Key), IsInjective(a), IsInjective(b),
           Range(a) \cap Range(b) = {}
    PROVE  /\ a \o b \in Seq(Key)
           /\ IsInjective(a \o b)
           /\ Range(a \o b) = Range(a) \cup Range(b)
<1>1. Range(a \o b) = Range(a) \cup Range(b)
  BY RangeConcatenation
<1>2. /\ a \o b \in Seq(Key) /\ Len(a \o b) = Len(a) + Len(b)
      /\ \A i \in 1..Len(a) + Len(b) : (a \o b)[i] = IF i <= Len(a) THEN a[i] ELSE b[i - Len(a)]
  BY ConcatProperties
<1>3. /\ \A i \in 1..Len(a) : a[i] \in Range(a)
      /\ \A i \in 1..Len(b) : b[i] \in Range(b)
  BY RangeFacts
<1> DEFINE d == a \o b
<1> HIDE DEF d
<1>4. SUFFICES ASSUME NEW i \in 1..Len(a) + Len(b), NEW j \in 1..Len(a) + Len(b), d[i] = d[j]
               PROVE  i = j
  BY <1>1, <1>2 DEF d, IsInjective
<1>5. \A x, y \in 1..Len(a) : a[x] = a[y] => x = y
  BY DEF IsInjective
<1>6. \A x, y \in 1..Len(b) : b[x] = b[y] => x = y
  BY DEF IsInjective
<1> QED
  BY <1>2, <1>3, <1>4, <1>5, <1>6 DEF d

\* A sorted chain has no key twice.
LEMMA SortedInjective ==
    ASSUME NEW c \in Seq(Key), Sorted(c)
    PROVE  IsInjective(c)
<1>1. \A j \in 1..Len(c) : c[j] \in Nat
  BY ChainOfNats
<1> QED
  BY <1>1 DEF Sorted, IsInjective

-----------------------------------------------------------------------------
(* What a state that satisfies the invariant tells.                         *)

LEMMA ConstantFacts ==
    /\ Key \subseteq Nat
    /\ Size \in Nat \ {0} /\ Grow \in Nat \ {0} /\ PerLock \in Nat \ {0}
    /\ Load \in Nat \ {0} /\ Width \in Nat \ {0}
    /\ Size % PerLock = 0 /\ Width % PerLock = 0
    /\ IsFiniteSet(Thread)
BY TableAssumption

LEMMA HashFacts ==
    ASSUME NEW k \in Key, NEW n \in Nat \ {0}
    PROVE  Hash[k] \in Nat /\ Hash[k] % n \in 0..n - 1
<1>1. Hash[k] \in Nat
  BY TableAssumption
<1> QED
  BY <1>1, ModRange

\* The threshold of a table is a number.
LEMMA ThresType ==
    ASSUME NEW n \in Nat
    PROVE  C_THRES_ELEM(n) \in Nat
<1>1. n * Load \in Nat
  BY ConstantFacts
<1>2. (n * Load) \div 100 \in Nat
  BY <1>1, DivMod
<1> QED
  BY <1>2 DEF C_THRES_ELEM

LEMMA SizeType ==
    ASSUME TypeOK
    PROVE  /\ bucket_count \in Nat \ {0} /\ old \in Nat \ {0} /\ TableSize \in Nat \ {0}
           /\ TableSize % PerLock = 0
           /\ \A b \in 0..TableSize - 1 : buckets[b] \in Seq(Key)
BY DEF TypeOK, TableSize

\* Linked is what the chains of the buckets have.
LEMMA LinkedFacts ==
    ASSUME TypeOK
    PROVE  /\ Linked \subseteq Key
           /\ \A k : k \in Linked <=> \E b \in 0..TableSize - 1 : k \in Range(buckets[b])
<1>1. DOMAIN buckets = 0..TableSize - 1
  BY DEF TypeOK
<1>2. \A b \in 0..TableSize - 1 : Range(buckets[b]) \subseteq Key
  BY SizeType, RangeFacts
<1>3. \A k : k \in Linked <=> \E b \in 0..TableSize - 1 : k \in Range(buckets[b])
  BY <1>1 DEF Linked
<1> QED
  BY <1>2, <1>3

\* While a thread has the size lock for reading nobody resizes.
LEMMA ReaderFacts ==
    ASSUME IInv, NEW t \in Thread, pc[t] \in {"stripe", "crit", "count", "copied"}
    PROVE  /\ TableSize = bucket_count
           /\ \A u \in Thread : pc[u] \notin {"resize", "move"}
BY DEF IInv, LockInv, SizeReaders, SizeWriters, TableSize

\* Then a key is in the bucket of its hash or nowhere.
LEMMA AtHome ==
    ASSUME IInv, NEW t \in Thread, pc[t] \in {"stripe", "crit", "count", "copied"}, NEW k \in Key
    PROVE  /\ Index(k) \in 0..bucket_count - 1
           /\ k \in Linked <=> k \in Range(buckets[Index(k)])
<1>1. TableSize = bucket_count /\ \A u \in Thread : pc[u] # "move"
  BY ReaderFacts
<1>2. Index(k) \in 0..bucket_count - 1
  BY HashFacts, SizeType DEF IInv, Index
<1>3. \A b \in 0..bucket_count - 1 : k \in Range(buckets[b]) => Index(k) = b
  BY <1>1 DEF IInv, ChainInv, Index
<1> QED
  BY <1>1, <1>2, <1>3, LinkedFacts DEF IInv

-----------------------------------------------------------------------------
(* What one thread's step leaves alone.                                     *)

LEMMA LinkedSame ==
    ASSUME UNCHANGED buckets
    PROVE  Linked' = Linked
BY DEF Linked

\* A step of a thread that does not resize, under which the buckets stay.
LEMMA Quiet ==
    ASSUME IInv, NEW t \in Thread, NEW l,
           pc' = [pc EXCEPT ![t] = l], pc[t] \notin {"resize", "move"}, l \notin {"resize", "move"},
           UNCHANGED <<buckets, bucket_count, old>>,
           \A u \in Thread \ {t} : bucket'[u] = bucket[u]
    PROVE  TableSize' = TableSize /\ ChainInv'
<1>1. \A u \in Thread : pc'[u] = "resize" <=> pc[u] = "resize"
  BY DEF IInv, TypeOK
<1>2. TableSize' = TableSize
  BY <1>1 DEF TableSize
<1>3. \A u \in Thread : pc'[u] = "move" => pc[u] = "move" /\ bucket'[u] = bucket[u]
  BY DEF IInv, TypeOK
<1>4. \A u \in Thread : pc[u] = "move" => pc'[u] = "move" /\ bucket'[u] = bucket[u]
  BY DEF IInv, TypeOK
<1> QED
  BY <1>2, <1>3, <1>4 DEF IInv, ChainInv

\* Another thread sees nothing of a step that keeps the sizes and the keys.
LEMMA ThreadFrame ==
    ASSUME NEW u \in Thread, ThreadOK(u), Linked' = Linked, UNCHANGED <<bucket_count, old>>,
           pc'[u] = pc[u], op'[u] = op[u], key'[u] = key[u], bucket'[u] = bucket[u]
    PROVE  ThreadOK(u)'
BY DEF ThreadOK, Index

LEMMA CopyFrame ==
    ASSUME NEW u \in Thread, CopyOK(u), Linked' = Linked, UNCHANGED bucket_count,
           pc'[u] = pc[u], bucket'[u] = bucket[u], out'[u] = out[u],
           must'[u] = must[u], may'[u] = may[u]
    PROVE  CopyOK(u)'
BY DEF CopyOK, Index

\* The locks after a step of t to l: it is no resize, it may enter the table
\* when nobody resizes, and a stripe when nobody minds.
LEMMA LockFrame ==
    ASSUME IInv, NEW t \in Thread, NEW l, pc' = [pc EXCEPT ![t] = l],
           l \notin {"resize", "move"},
           \A u \in Thread \ {t} : op'[u] = op[u] /\ bucket'[u] = bucket[u],
           l \in {"stripe", "crit", "count", "copied"} => SizeWriters = {},
           l \in {"crit", "count"} =>
              \A u \in Thread \ {t} : Holds(u) /\ Stripe(u) = Stripe(t)' => ~Writes(t)' /\ ~Writes(u)
    PROVE  LockInv'
<1>1. \A u \in Thread \ {t} : pc'[u] = pc[u]
  BY DEF IInv, TypeOK
<1>2. pc'[t] = l
  BY DEF IInv, TypeOK
<1>3. \A u \in Thread \ {t} : Holds(u)' = Holds(u) /\ Stripe(u)' = Stripe(u) /\ Writes(u)' = Writes(u)
  BY <1>1 DEF Holds, Stripe, Writes
<1>4. Holds(t)' => l \in {"crit", "count"}
  BY <1>2 DEF Holds
<1>5. ASSUME NEW u \in Thread, NEW v \in Thread, (u \in SizeWriters)'
      PROVE  (v \notin SizeReaders /\ (v \in SizeWriters => v = u))'
  <2>1. u # t /\ u \in SizeWriters
    BY <1>1, <1>2, <1>5 DEF SizeWriters
  <2>2. CASE v = t
    BY <1>2, <2>1, <2>2 DEF SizeWriters, SizeReaders
  <2>3. CASE v # t
    BY <1>1, <2>1, <2>3 DEF IInv, LockInv, SizeWriters, SizeReaders
  <2> QED
    BY <2>2, <2>3
<1>6. ASSUME NEW u \in Thread, NEW v \in Thread, u # v, Holds(u)', Holds(v)', Stripe(u)' = Stripe(v)'
      PROVE  ~Writes(u)' /\ ~Writes(v)'
  <2>1. CASE u = t
    BY <1>3, <1>4, <1>6, <2>1
  <2>2. CASE v = t
    BY <1>3, <1>4, <1>6, <2>2
  <2>3. CASE u # t /\ v # t
    BY <1>3, <1>6, <2>3 DEF IInv, LockInv
  <2> QED
    BY <2>1, <2>2, <2>3
<1> QED
  BY <1>5, <1>6 DEF LockInv

\* The threads between counting and linking, after a step of t to l.
LEMMA CountingMove ==
    ASSUME TypeOK, NEW t \in Thread, NEW l, pc' = [pc EXCEPT ![t] = l]
    PROVE  /\ Cardinality(Counting) \in Nat /\ Cardinality(Counting') \in Nat
           /\ Cardinality(Counting') = Cardinality(Counting) + (IF l = "count" THEN 1 ELSE 0)
                                                   - (IF pc[t] = "count" THEN 1 ELSE 0)
<1>1. Counting \subseteq Thread /\ Counting' \subseteq Thread
  BY DEF Counting
<1>2. IsFiniteSet(Counting) /\ IsFiniteSet(Counting')
  BY <1>1, ConstantFacts, FS_Subset
<1>3. Cardinality(Counting) \in Nat /\ Cardinality(Counting') \in Nat
  BY <1>2, FS_CardinalityType
<1>4. \A u \in Thread \ {t} : u \in Counting <=> u \in Counting'
  BY DEF Counting, TypeOK
<1>5. /\ t \in Counting <=> pc[t] = "count"
      /\ t \in Counting' <=> l = "count"
  BY DEF Counting, TypeOK
<1>6. CASE t \in Counting <=> t \in Counting'
  <2>1. Counting = Counting'
    BY <1>1, <1>4, <1>6
  <2> QED
    BY <1>3, <1>5, <1>6, <2>1
<1>7. CASE t \in Counting /\ t \notin Counting'
  <2>1. Counting = Counting' \cup {t}
    BY <1>1, <1>4, <1>7
  <2>2. Cardinality(Counting) = Cardinality(Counting') + 1
    BY <1>2, <1>7, <2>1, FS_AddElement
  <2> QED
    BY <1>3, <1>5, <1>7, <2>2
<1>8. CASE t \notin Counting /\ t \in Counting'
  <2>1. Counting' = Counting \cup {t}
    BY <1>1, <1>4, <1>8
  <2>2. Cardinality(Counting') = Cardinality(Counting) + 1
    BY <1>2, <1>8, <2>1, FS_AddElement
  <2> QED
    BY <1>3, <1>5, <1>8, <2>2
<1> QED
  BY <1>6, <1>7, <1>8

\* A step that changes neither the count nor the keys, nor who is counting.
LEMMA CountFrame ==
    ASSUME IInv, NEW t \in Thread, NEW l, pc' = [pc EXCEPT ![t] = l],
           l = "count" <=> pc[t] = "count", Linked' = Linked, count' = count
    PROVE  CountInv'
<1>1. /\ Cardinality(Counting) \in Nat
      /\ Cardinality(Counting') = Cardinality(Counting) + (IF l = "count" THEN 1 ELSE 0)
                                                   - (IF pc[t] = "count" THEN 1 ELSE 0)
  BY CountingMove DEF IInv
<1>2. Cardinality(Counting') = Cardinality(Counting)
  BY <1>1
<1> QED
  BY <1>2 DEF IInv, CountInv, CountExact

\* A step of a thread that does not resize, under which the buckets stay: the
\* other threads know what they knew.
LEMMA StepFrame ==
    ASSUME IInv, NEW t \in Thread, NEW l,
           pc' = [pc EXCEPT ![t] = l], pc[t] \notin {"resize", "move"}, l \notin {"resize", "move"},
           UNCHANGED <<buckets, bucket_count, old>>,
           \A u \in Thread \ {t} : /\ op'[u] = op[u] /\ key'[u] = key[u] /\ bucket'[u] = bucket[u]
                                   /\ out'[u] = out[u] /\ must'[u] = must[u] /\ may'[u] = may[u],
           ThreadOK(t)', op'[t] = "copy" => CopyOK(t)'
    PROVE  TableSize' = TableSize /\ Linked' = Linked /\ ThreadInv' /\ ChainInv' /\ CopyInv'
<1>1. Linked' = Linked
  BY LinkedSame
<1>2. TableSize' = TableSize /\ ChainInv'
  BY Quiet
<1>3. \A u \in Thread \ {t} : pc'[u] = pc[u]
  BY DEF IInv, TypeOK
<1>4. ASSUME NEW u \in Thread \ {t}
      PROVE  ThreadOK(u)'
  <2>1. ThreadOK(u)
    BY DEF IInv, ThreadInv
  <2> QED
    BY <1>1, <1>3, <2>1, ThreadFrame
<1>5. ASSUME NEW u \in Thread \ {t}, op'[u] = "copy"
      PROVE  CopyOK(u)'
  <2>1. CopyOK(u)
    BY <1>5 DEF IInv, CopyInv
  <2> QED
    BY <1>1, <1>3, <2>1, CopyFrame
<1>6. ThreadInv'
  BY <1>4 DEF ThreadInv
<1>7. CopyInv'
  BY <1>5 DEF CopyInv
<1> QED
  BY <1>1, <1>2, <1>6, <1>7

\* A thread that resizes is alone: the others wait for the size lock, or are not
\* in the table.
LEMMA WriterAlone ==
    ASSUME IInv, NEW t \in Thread, pc[t] \in {"resize", "move"}
    PROVE  \A u \in Thread \ {t} : pc[u] \in {"idle", "try", "lock"}
<1>1. \A u \in Thread \ {t} : u \notin SizeReaders /\ u \notin SizeWriters
  BY DEF IInv, LockInv, SizeReaders, SizeWriters
<1> QED
  BY <1>1 DEF IInv, TypeOK, Label, SizeReaders, SizeWriters

\* What a step of a resize leaves alone, whatever it does to sizes and chains.
LEMMA ResizeFrame ==
    ASSUME IInv, NEW t \in Thread, NEW l,
           pc' = [pc EXCEPT ![t] = l], pc[t] \in {"try", "resize", "move"}, l \in {"resize", "move", "lock"},
           \A u \in Thread \ {t} : pc[u] \in {"idle", "try", "lock"},
           \A u \in Thread \ {t} : bucket'[u] = bucket[u],
           UNCHANGED <<op, key, out, must, may, count>>, Linked' = Linked, ThreadOK(t)'
    PROVE  LockInv' /\ ThreadInv' /\ CountInv' /\ CopyInv'
<1>1. \A u \in Thread \ {t} : pc'[u] = pc[u] /\ pc'[u] \in {"idle", "try", "lock"}
  BY DEF IInv, TypeOK
<1>2. pc'[t] = l
  BY DEF IInv, TypeOK
<1>3. LockInv'
  BY <1>1, <1>2 DEF LockInv, SizeReaders, SizeWriters, Holds
<1>4. ASSUME NEW u \in Thread \ {t}
      PROVE  ThreadOK(u)'
  BY <1>1, <1>4 DEF IInv, ThreadInv, ThreadOK
<1>5. CountInv'
  BY CountFrame
<1>6. op[t] = "add"
  BY DEF IInv, ThreadInv, ThreadOK
<1>7. ASSUME NEW u \in Thread, op'[u] = "copy"
      PROVE  CopyOK(u)'
  <2>1. u # t /\ CopyOK(u)
    BY <1>6, <1>7 DEF IInv, CopyInv
  <2> QED
    BY <1>1, <2>1 DEF CopyOK
<1> QED
  BY <1>3, <1>4, <1>5, <1>7 DEF ThreadInv, CopyInv

-----------------------------------------------------------------------------
(* The invariant under each action.                                         *)

LEMMA CallInv ==
    ASSUME IInv, NEW t \in Thread, NEW o \in {"get", "add", "remove", "copy"}, NEW k \in Key \cup {None},
           o # "copy" => k \in Key, Call(t, o, k)
    PROVE  IInv'
<1>1. PICK l \in {"try", "lock"} : pc' = [pc EXCEPT ![t] = l] /\ (l = "try" => o = "add")
  BY DEF Call, Goto
<1>2. /\ pc'[t] = l /\ op'[t] = o /\ key'[t] = k /\ out'[t] = <<>> /\ pc[t] = "idle"
      /\ must'[t] = (IF o = "copy" THEN Linked ELSE {}) /\ may'[t] = (IF o = "copy" THEN Linked ELSE {})
      /\ \A u \in Thread \ {t} : /\ op'[u] = op[u] /\ key'[u] = key[u] /\ bucket'[u] = bucket[u]
                                 /\ out'[u] = out[u] /\ must'[u] = must[u] /\ may'[u] = may[u]
  BY <1>1 DEF IInv, TypeOK, Call
<1>3. UNCHANGED <<buckets, bucket_count, old, count, thres, bucket>>
  BY DEF Call, sizeVars
<1>4. Linked' = Linked
  BY <1>3, LinkedSame
<1>5. ThreadOK(t)'
  BY <1>1, <1>2 DEF ThreadOK
<1>6. Range(<<>>) = {} /\ IsInjective(<<>>)
  BY DEF Range, IsInjective
<1>7. op'[t] = "copy" => CopyOK(t)'
  BY <1>1, <1>2, <1>4, <1>6 DEF CopyOK
<1>8. TableSize' = TableSize /\ ThreadInv' /\ ChainInv' /\ CopyInv'
  BY <1>1, <1>2, <1>3, <1>5, <1>7, StepFrame
<1>9. LockInv'
  BY <1>1, <1>2, LockFrame
<1>10. CountInv'
  BY <1>1, <1>2, <1>3, <1>4, CountFrame
<1>11. Linked \subseteq Key
  BY LinkedFacts DEF IInv
<1>12. TypeOK'
  BY <1>1, <1>3, <1>8, <1>11 DEF IInv, TypeOK, Call, Label
<1> QED
  BY <1>8, <1>9, <1>10, <1>12 DEF IInv

LEMMA TryResizeInv ==
    ASSUME IInv, NEW t \in Thread, TryResize(t)
    PROVE  IInv'
<1>1. /\ pc[t] = "try" /\ UNCHANGED <<buckets, bucket_count, thres, count, op, key, bucket, out, res, must, may>>
  BY DEF TryResize, histVars
<1>2. Linked' = Linked
  BY <1>1, LinkedSame
<1>3. CASE SizeReaders = {} /\ SizeWriters = {}
  <2>1. pc' = [pc EXCEPT ![t] = "resize"] /\ old' = bucket_count
    BY <1>3 DEF TryResize, Goto
  <2>2. \A u \in Thread : pc[u] \in {"idle", "try", "lock"}
    BY <1>3 DEF IInv, TypeOK, Label, SizeReaders, SizeWriters
  <2>3. pc'[t] = "resize" /\ \A u \in Thread : pc'[u] # "move"
    BY <2>1, <2>2 DEF IInv, TypeOK
  <2>4. TableSize = bucket_count /\ TableSize' = bucket_count
    BY <2>1, <2>2, <2>3 DEF TableSize
  <2>5. TypeOK'
    BY <1>1, <2>1, <2>4 DEF IInv, TypeOK, Label
  <2>6. bucket_count \in Nat
    BY SizeType DEF IInv
  <2>7. ThreadOK(t)'
    BY <1>1, <2>1, <2>3, <2>6 DEF IInv, ThreadInv, ThreadOK
  <2>8. LockInv' /\ ThreadInv' /\ CountInv' /\ CopyInv'
    BY <1>1, <1>2, <2>1, <2>2, <2>7, ResizeFrame
  <2>9. ChainInv'
    BY <1>1, <2>2, <2>3, <2>4 DEF IInv, ChainInv
  <2> QED
    BY <2>5, <2>8, <2>9 DEF IInv
<1>4. CASE ~(SizeReaders = {} /\ SizeWriters = {})
  <2>1. pc' = [pc EXCEPT ![t] = "lock"] /\ old' = old
    BY <1>4 DEF TryResize, Goto
  <2>2. pc'[t] = "lock" /\ op[t] = "add"
    BY <1>1, <2>1 DEF IInv, TypeOK, ThreadInv, ThreadOK
  <2>3. ThreadOK(t)'
    BY <1>1, <2>2 DEF IInv, ThreadInv, ThreadOK
  <2>4. TableSize' = TableSize /\ ThreadInv' /\ ChainInv' /\ CopyInv'
    BY <1>1, <2>1, <2>2, <2>3, StepFrame
  <2>5. LockInv'
    BY <1>1, <2>1, LockFrame
  <2>6. CountInv'
    BY <1>1, <1>2, <2>1, CountFrame
  <2>7. TypeOK'
    BY <1>1, <2>1, <2>4 DEF IInv, TypeOK, Label
  <2> QED
    BY <2>4, <2>5, <2>6, <2>7 DEF IInv
<1> QED
  BY <1>3, <1>4

LEMMA LockSizeInv ==
    ASSUME IInv, NEW t \in Thread, LockSize(t)
    PROVE  IInv'
<1>1. /\ pc[t] = "lock" /\ SizeWriters = {}
      /\ UNCHANGED <<buckets, bucket_count, old, thres, count, op, key, out, res, must, may>>
      /\ bucket' = [bucket EXCEPT ![t] = IF op[t] = "copy" THEN 0 ELSE Index(key[t])]
  BY DEF LockSize, histVars, sizeVars
<1>2. Linked' = Linked /\ Linked \subseteq Key
  BY <1>1, LinkedSame, LinkedFacts DEF IInv
<1>3. PICK l \in {"copied", "stripe"} : /\ pc' = [pc EXCEPT ![t] = l]
                                        /\ l = "copied" => op[t] = "copy" /\ count = 0
  BY DEF LockSize, Goto
<1>4. /\ pc'[t] = l /\ bucket'[t] = (IF op[t] = "copy" THEN 0 ELSE Index(key[t]))
      /\ \A u \in Thread \ {t} : bucket'[u] = bucket[u]
  BY <1>1, <1>3 DEF IInv, TypeOK
<1>5. \A k \in Key : Index(k) \in 0..bucket_count - 1 /\ Index(k)' = Index(k)
  BY <1>1, HashFacts, SizeType DEF IInv, Index
<1>6. op[t] # "copy" => key[t] \in Key
  BY <1>1 DEF IInv, ThreadInv, ThreadOK
<1>7. bucket'[t] \in 0..bucket_count - 1 /\ bucket_count \in Nat \ {0}
  BY <1>4, <1>5, <1>6, SizeType DEF IInv
<1>8. ThreadOK(t)'
  BY <1>1, <1>3, <1>4, <1>5, <1>6, <1>7 DEF IInv, ThreadInv, ThreadOK
<1>9. count = 0 => Linked = {}
  <2>1. IsFiniteSet(Linked) /\ count = Cardinality(Linked) + Cardinality(Counting)
    BY DEF IInv, CountInv, CountExact
  <2>2. Counting \subseteq Thread
    BY DEF Counting
  <2>3. Cardinality(Linked) \in Nat /\ Cardinality(Counting) \in Nat
    BY <2>1, <2>2, ConstantFacts, FS_Subset, FS_CardinalityType
  <2> QED
    BY <2>1, <2>3, FS_EmptySet
<1>10. ASSUME op'[t] = "copy"
       PROVE  CopyOK(t)'
  <2>1. CopyOK(t) /\ out[t] = <<>>
    BY <1>1, <1>10 DEF IInv, CopyInv, CopyOK
  <2>2. Range(<<>>) = {}
    BY DEF Range
  <2>3. bucket'[t] = 0
    BY <1>1, <1>4, <1>10
  <2>4. \A k \in must[t] : Index(k)' \in Nat
    BY <1>2, <1>5, <2>1 DEF CopyOK
  <2> QED
    BY <1>1, <1>2, <1>3, <1>4, <1>9, <2>1, <2>2, <2>3, <2>4 DEF CopyOK
<1>11. TableSize' = TableSize /\ ThreadInv' /\ ChainInv' /\ CopyInv'
  BY <1>1, <1>3, <1>4, <1>8, <1>10, StepFrame
<1>12. LockInv'
  BY <1>1, <1>3, <1>4, LockFrame
<1>13. CountInv'
  BY <1>1, <1>2, <1>3, CountFrame
<1>14. TypeOK'
  <2>1. bucket' \in [Thread -> Nat]
    BY <1>1, <1>4, <1>7 DEF IInv, TypeOK
  <2> QED
    BY <1>1, <1>3, <1>11, <2>1 DEF IInv, TypeOK, Label
<1> QED
  BY <1>11, <1>12, <1>13, <1>14 DEF IInv

LEMMA LockStripeInv ==
    ASSUME IInv, NEW t \in Thread, LockStripe(t)
    PROVE  IInv'
<1>1. /\ pc[t] = "stripe" /\ pc' = [pc EXCEPT ![t] = "crit"]
      /\ UNCHANGED <<buckets, bucket_count, old, thres, count, op, key, bucket, out, res, must, may>>
      /\ \A u \in Thread \ {t} : Holds(u) /\ Stripe(u) = Stripe(t) => ~Writes(t) /\ ~Writes(u)
  BY DEF LockStripe, Goto, histVars, sizeVars
<1>2. Linked' = Linked /\ pc'[t] = "crit"
  BY <1>1, LinkedSame DEF IInv, TypeOK
<1>3. ThreadOK(t)'
  BY <1>1, <1>2 DEF IInv, ThreadInv, ThreadOK, Index
<1>4. op'[t] = "copy" => CopyOK(t)'
  BY <1>1, <1>2 DEF IInv, CopyInv, CopyOK, Index
<1>4a. \A u \in Thread \ {t} : /\ op'[u] = op[u] /\ key'[u] = key[u] /\ bucket'[u] = bucket[u]
                               /\ out'[u] = out[u] /\ must'[u] = must[u] /\ may'[u] = may[u]
  BY <1>1
<1>5. TableSize' = TableSize /\ ThreadInv' /\ ChainInv' /\ CopyInv'
  <2>1. pc[t] \notin {"resize", "move"} /\ "crit" \notin {"resize", "move"}
    BY <1>1
  <2> QED
    BY <1>1, <1>3, <1>4, <1>4a, <2>1, StepFrame
<1>6. SizeWriters = {} /\ Stripe(t)' = Stripe(t) /\ Writes(t)' = Writes(t)
  BY <1>1, ReaderFacts DEF SizeWriters, Stripe, Writes
<1>7. LockInv'
  BY <1>1, <1>6, LockFrame
<1>8. CountInv'
  BY <1>1, <1>2, CountFrame
<1>9. TypeOK'
  BY <1>1, <1>5 DEF IInv, TypeOK, Label
<1> QED
  BY <1>5, <1>7, <1>8, <1>9 DEF IInv

\* Back to idle, with a result or none, under which nothing but res changes.
LEMMA ReturnInv ==
    ASSUME IInv, NEW t \in Thread, pc[t] = "crit", op[t] # "copy", pc' = [pc EXCEPT ![t] = "idle"],
           UNCHANGED <<buckets, bucket_count, old, thres, count, op, key, bucket, out, must, may>>,
           res' \in [Thread -> {None} \cup ({"get", "add"} \X Key \X BOOLEAN)]
    PROVE  IInv'
<1>1. Linked' = Linked /\ pc'[t] = "idle"
  BY LinkedSame DEF IInv, TypeOK
<1>2. ThreadOK(t)'
  BY <1>1 DEF ThreadOK
<1>2a. \A u \in Thread \ {t} : /\ op'[u] = op[u] /\ key'[u] = key[u] /\ bucket'[u] = bucket[u]
                              /\ out'[u] = out[u] /\ must'[u] = must[u] /\ may'[u] = may[u]
  OBVIOUS
<1>3. TableSize' = TableSize /\ ThreadInv' /\ ChainInv' /\ CopyInv'
  <2>1. pc[t] \notin {"resize", "move"} /\ "idle" \notin {"resize", "move"}
    OBVIOUS
  <2>2. op'[t] = "copy" => CopyOK(t)'
    OBVIOUS
  <2> QED
    BY <1>2, <1>2a, <2>1, <2>2, StepFrame
<1>4. LockInv'
  BY LockFrame
<1>5. CountInv'
  BY <1>1, CountFrame
<1>6. TypeOK'
  BY <1>3 DEF IInv, TypeOK, Label
<1> QED
  BY <1>3, <1>4, <1>5, <1>6 DEF IInv

LEMMA GetInv ==
    ASSUME IInv, NEW t \in Thread, htable_get(t)
    PROVE  IInv'
<1>1. /\ pc[t] = "crit" /\ op[t] = "get" /\ pc' = [pc EXCEPT ![t] = "idle"]
      /\ UNCHANGED <<buckets, bucket_count, old, thres, count, op, key, bucket, out, must, may>>
      /\ res' = [res EXCEPT ![t] = <<op[t], key[t], key[t] \in Range(buckets[bucket[t]])>>]
  BY DEF htable_get, Return, Goto, histVars, sizeVars
<1>2. key[t] \in Key
  BY <1>1 DEF IInv, ThreadInv, ThreadOK
<1>3. <<op[t], key[t], key[t] \in Range(buckets[bucket[t]])>> \in {"get", "add"} \X Key \X BOOLEAN
  <2>1. \A r \in BOOLEAN : <<op[t], key[t], r>> \in {"get", "add"} \X Key \X BOOLEAN
    BY <1>1, <1>2
  <2>2. (key[t] \in Range(buckets[bucket[t]])) \in BOOLEAN
    OBVIOUS
  <2> DEFINE found == key[t] \in Range(buckets[bucket[t]])
  <2>3. found \in BOOLEAN
    BY <2>2
  <2> HIDE DEF found
  <2>4. <<op[t], key[t], found>> \in {"get", "add"} \X Key \X BOOLEAN
    BY <2>1, <2>3
  <2> QED
    BY <2>4 DEF found
<1>4. res' \in [Thread -> {None} \cup ({"get", "add"} \X Key \X BOOLEAN)]
  BY <1>1, <1>3 DEF IInv, TypeOK
<1> QED
  BY <1>1, <1>4, ReturnInv

\* A thread in its critical section: its bucket, its key and the others.
LEMMA CriticalFacts ==
    ASSUME IInv, NEW t \in Thread, pc[t] \in {"crit", "count"}, op[t] # "copy"
    PROVE  /\ TableSize = bucket_count /\ key[t] \in Key /\ bucket[t] = Index(key[t])
           /\ bucket[t] \in 0..bucket_count - 1 /\ bucket_count \in Nat \ {0}
           /\ buckets[bucket[t]] \in Seq(Key) /\ Sorted(buckets[bucket[t]])
           /\ key[t] \in Linked <=> key[t] \in Range(buckets[bucket[t]])
           /\ \A u \in Thread : pc[u] \notin {"resize", "move"}
<1>1. key[t] \in Key /\ bucket[t] = Index(key[t])
  BY DEF IInv, ThreadInv, ThreadOK
<1>2. bucket[t] \in 0..bucket_count - 1 /\ (key[t] \in Linked <=> key[t] \in Range(buckets[bucket[t]]))
  BY <1>1, AtHome
<1>3. TableSize = bucket_count /\ \A u \in Thread : pc[u] \notin {"resize", "move"}
  BY ReaderFacts
<1>4. bucket_count \in Nat \ {0} /\ buckets[bucket[t]] \in Seq(Key)
  BY <1>2, <1>3, SizeType DEF IInv
<1>5. Sorted(buckets[bucket[t]])
  BY <1>2, <1>3 DEF IInv, ChainInv
<1> QED
  BY <1>1, <1>2, <1>3, <1>4, <1>5

LEMMA AddCountInv ==
    ASSUME IInv, NEW t \in Thread, htable_add_count(t)
    PROVE  IInv'
<1>1. /\ pc[t] = "crit" /\ op[t] = "add"
      /\ UNCHANGED <<buckets, bucket_count, old, thres, op, key, bucket, out, must, may>>
  BY DEF htable_add_count, histVars, sizeVars
<1>2. CASE Present(buckets[bucket[t]], key[t])
  <2>1. /\ pc' = [pc EXCEPT ![t] = "idle"] /\ count' = count
        /\ res' = [res EXCEPT ![t] = <<op[t], key[t], FALSE>>]
    BY <1>2 DEF htable_add_count, Return, Goto
  <2>2. <<op[t], key[t], FALSE>> \in {"get", "add"} \X Key \X BOOLEAN
    BY <1>1, CriticalFacts
  <2>3. res' \in [Thread -> {None} \cup ({"get", "add"} \X Key \X BOOLEAN)]
    BY <2>1, <2>2 DEF IInv, TypeOK
  <2> QED
    BY <1>1, <2>1, <2>3, ReturnInv
<1>3. CASE ~Present(buckets[bucket[t]], key[t])
  <2>1. pc' = [pc EXCEPT ![t] = "count"] /\ count' = count + 1 /\ res' = res
    BY <1>3 DEF htable_add_count, Goto
  <2>2. key[t] \notin Linked
    BY <1>1, <1>3, CriticalFacts, PresentIsMember
  <2>3. Linked' = Linked /\ pc'[t] = "count"
    BY <1>1, <2>1, LinkedSame DEF IInv, TypeOK
  <2>4. ThreadOK(t)'
    BY <1>1, <2>2, <2>3 DEF IInv, ThreadInv, ThreadOK, Index
  <2>4a. \A u \in Thread \ {t} : /\ op'[u] = op[u] /\ key'[u] = key[u] /\ bucket'[u] = bucket[u]
                                 /\ out'[u] = out[u] /\ must'[u] = must[u] /\ may'[u] = may[u]
    BY <1>1
  <2>5. TableSize' = TableSize /\ ThreadInv' /\ ChainInv' /\ CopyInv'
    <3>1. pc[t] \notin {"resize", "move"} /\ "count" \notin {"resize", "move"} /\ op'[t] # "copy"
      BY <1>1
    <3> QED
      BY <1>1, <2>1, <2>4, <2>4a, <3>1, StepFrame
  <2>6. /\ SizeWriters = {} /\ Stripe(t)' = Stripe(t) /\ Writes(t)' = Writes(t)
        /\ \A u \in Thread \ {t} : Holds(u) /\ Stripe(u) = Stripe(t) => ~Writes(t) /\ ~Writes(u)
    BY <1>1, ReaderFacts DEF SizeWriters, Stripe, Writes, IInv, LockInv, Holds
  <2>7. LockInv'
    BY <1>1, <2>1, <2>6, LockFrame
  <2>8. /\ Cardinality(Counting) \in Nat
        /\ Cardinality(Counting') = Cardinality(Counting) + (IF "count" = "count" THEN 1 ELSE 0)
                                                   - (IF pc[t] = "count" THEN 1 ELSE 0)
    BY <2>1, CountingMove DEF IInv
  <2>9. Cardinality(Counting') = Cardinality(Counting) + 1
    BY <1>1, <2>8
  <2>10. IsFiniteSet(Linked) /\ Cardinality(Linked) \in Nat /\ count = Cardinality(Linked) + Cardinality(Counting)
    BY FS_CardinalityType DEF IInv, CountInv, CountExact
  <2>11. CountInv'
    BY <2>1, <2>3, <2>8, <2>9, <2>10 DEF CountInv, CountExact
  <2>12. TypeOK'
    BY <1>1, <2>1, <2>5 DEF IInv, TypeOK, Label
  <2> QED
    BY <2>5, <2>7, <2>11, <2>12 DEF IInv
<1> QED
  BY <1>2, <1>3

\* Both halves of a change to one chain, for the size of the table and for the
\* other threads: t goes to l, the keys become those of S.
LEMMA ChainStep ==
    ASSUME IInv, NEW t \in Thread, NEW l \in {"idle", "count"}, NEW c \in Seq(Key),
           pc[t] \in {"crit", "count"}, op[t] \in {"add", "remove"},
           pc' = [pc EXCEPT ![t] = l],
           buckets' = [buckets EXCEPT ![bucket[t]] = c], Sorted(c),
           Range(c) = IF key[t] \in Linked THEN Range(buckets[bucket[t]]) \ {key[t]}
                                          ELSE Range(buckets[bucket[t]]) \cup {key[t]},
           UNCHANGED <<bucket_count, old, op, key, bucket>>
    PROVE  /\ TableSize' = TableSize /\ buckets' \in [0..TableSize - 1 -> Seq(Key)] /\ ChainInv' /\ LockInv'
           /\ Linked' = IF key[t] \in Linked THEN Linked \ {key[t]} ELSE Linked \cup {key[t]}
<1>0. PICK b, x : b = bucket[t] /\ x = key[t]
  OBVIOUS
<1>1. /\ TableSize = bucket_count /\ x \in Key /\ b = Index(x) /\ b \in 0..bucket_count - 1
      /\ x \in Linked <=> x \in Range(buckets[b])
      /\ \A u \in Thread : pc[u] \notin {"resize", "move"}
  BY <1>0, CriticalFacts
<1>2. \A u \in Thread : pc'[u] \notin {"resize", "move"}
  BY <1>1 DEF IInv, TypeOK
<1>3. TableSize' = TableSize
  BY <1>1, <1>2 DEF TableSize
<1>4. buckets \in [0..TableSize - 1 -> Seq(Key)]
  BY DEF IInv, TypeOK
<1>5. /\ buckets' \in [0..TableSize - 1 -> Seq(Key)] /\ buckets'[b] = c
      /\ \A d \in 0..TableSize - 1 : d # b => buckets'[d] = buckets[d]
  BY <1>0, <1>1, <1>4
<1>6. \A k : k \in Linked <=> \E d \in 0..TableSize - 1 : k \in Range(buckets[d])
  BY LinkedFacts DEF IInv
<1>7. \A k : k \in Linked' <=> \E d \in 0..TableSize - 1 : k \in Range(buckets'[d])
  <2>1. DOMAIN buckets' = 0..TableSize - 1
    BY <1>5
  <2> QED
    BY <2>1 DEF Linked
<1>8. \A d, e \in 0..TableSize - 1 : d # e => Range(buckets[d]) \cap Range(buckets[e]) = {}
  BY DEF IInv, ChainInv
<1>9. \A d \in 0..TableSize - 1 : \A k \in Range(buckets[d]) : Hash[k] % TableSize = d
  BY <1>1 DEF IInv, ChainInv
<1>10. ChainInv'
  <2>1. \A d \in 0..TableSize - 1 : Sorted(buckets'[d])
    BY <1>5 DEF IInv, ChainInv
  <2>2. \A d \in 0..TableSize - 1 : Range(buckets'[d]) \subseteq Range(buckets[d]) \cup {x}
    BY <1>0, <1>5
  <2>3. \A d \in 0..TableSize - 1 : d # b => x \notin Range(buckets'[d])
    BY <1>1, <1>5, <1>6, <1>8
  <2>4. \A d, e \in 0..TableSize - 1 : d # e => Range(buckets'[d]) \cap Range(buckets'[e]) = {}
    <3> SUFFICES ASSUME NEW d \in 0..TableSize - 1, NEW e \in 0..TableSize - 1, d # e,
                        NEW k, k \in Range(buckets'[d]), k \in Range(buckets'[e])
                 PROVE  FALSE
      BY Zenon
    <3>1. k # x
      BY <1>1, <2>3
    <3>2. k \in Range(buckets[d]) /\ k \in Range(buckets[e])
      BY <2>2, <3>1
    <3> QED
      BY <1>8, <3>2
  <2>5. \A d \in 0..TableSize - 1 : \A k \in Range(buckets'[d]) : Hash[k] % TableSize = d
    <3> SUFFICES ASSUME NEW d \in 0..TableSize - 1, NEW k \in Range(buckets'[d])
                 PROVE  Hash[k] % TableSize = d
      OBVIOUS
    <3>1. CASE k = x
      <4>1. d = b
        BY <2>3, <3>1
      <4> QED
        BY <1>1, <3>1, <4>1 DEF Index
    <3>2. CASE k # x
      BY <1>9, <2>2, <3>2
    <3> QED
      BY <3>1, <3>2
  <2> QED
    BY <1>3, <2>1, <2>4, <2>5 DEF ChainInv
<1>11. SizeWriters = {} /\ Stripe(t)' = Stripe(t) /\ Writes(t)' = Writes(t)
  BY <1>1 DEF SizeWriters, Stripe, Writes
<1>12. \A u \in Thread \ {t} : Holds(u) /\ Stripe(u) = Stripe(t) => ~Writes(t) /\ ~Writes(u)
  BY DEF IInv, LockInv, Holds
<1>13. LockInv'
  BY <1>11, <1>12, LockFrame
<1>14. ASSUME x \notin Linked
       PROVE  Linked' = Linked \cup {x}
  BY <1>0, <1>1, <1>5, <1>6, <1>7, <1>14
<1>15. ASSUME x \in Linked
       PROVE  Linked' = Linked \ {x}
  BY <1>0, <1>1, <1>5, <1>6, <1>7, <1>8, <1>15
<1> QED
  BY <1>0, <1>3, <1>5, <1>10, <1>13, <1>14, <1>15

LEMMA AddLinkInv ==
    ASSUME IInv, NEW t \in Thread, htable_add_link(t)
    PROVE  IInv'
<1>1. /\ pc[t] = "count" /\ op[t] = "add" /\ pc' = [pc EXCEPT ![t] = "idle"]
      /\ UNCHANGED <<bucket_count, old, thres, count, op, key, bucket, out, must>>
      /\ may' = [u \in Thread |-> may[u] \cup (IF op[u] = "copy" THEN {key[t]} ELSE {})]
      /\ res' = [res EXCEPT ![t] = <<op[t], key[t], TRUE>>]
  BY DEF htable_add_link, Return, Goto, sizeVars
<1>2. PICK i \in 1..Len(buckets[bucket[t]]) + 1 :
         /\ Place(buckets[bucket[t]], key[t], i)
         /\ buckets' = [buckets EXCEPT ![bucket[t]] = InsertAt(buckets[bucket[t]], i, key[t])]
  BY DEF htable_add_link
<1>3. /\ key[t] \in Key /\ bucket[t] \in 0..bucket_count - 1 /\ TableSize = bucket_count
      /\ bucket[t] = Index(key[t]) /\ buckets[bucket[t]] \in Seq(Key) /\ Sorted(buckets[bucket[t]])
  BY <1>1, CriticalFacts
<1>4. key[t] \notin Linked
  BY <1>1 DEF IInv, ThreadInv, ThreadOK
<1>5. PICK c \in Seq(Key) : c = InsertAt(buckets[bucket[t]], i, key[t])
  BY <1>2, <1>3, InsertSorted
<1>6. Range(c) = Range(buckets[bucket[t]]) \cup {key[t]} /\ Sorted(c)
  BY <1>2, <1>3, <1>5, InsertSorted
<1>8. PICK x \in Key : x = key[t]
  BY <1>3
<1>9. buckets' = [buckets EXCEPT ![bucket[t]] = c]
  BY <1>2, <1>5
<1>10. /\ TableSize' = TableSize /\ buckets' \in [0..TableSize - 1 -> Seq(Key)] /\ ChainInv' /\ LockInv'
       /\ Linked' = IF key[t] \in Linked THEN Linked \ {key[t]} ELSE Linked \cup {key[t]}
  <2>1. "idle" \in {"idle", "count"} /\ pc[t] \in {"crit", "count"} /\ op[t] \in {"add", "remove"}
    BY <1>1
  <2>2. Range(c) = IF key[t] \in Linked THEN Range(buckets[bucket[t]]) \ {key[t]}
                                       ELSE Range(buckets[bucket[t]]) \cup {key[t]}
    BY <1>4, <1>6
  <2>3. pc' = [pc EXCEPT ![t] = "idle"] /\ UNCHANGED <<bucket_count, old, op, key, bucket>> /\ Sorted(c)
    BY <1>1, <1>6
  <2> QED
    BY <1>5, <1>9, <2>1, <2>2, <2>3, ChainStep
<1>11. Linked' = Linked \cup {x} /\ x \notin Linked
  BY <1>4, <1>8, <1>10
<1>12. pc'[t] = "idle" /\ \A u \in Thread \ {t} : pc'[u] = pc[u]
  BY <1>1 DEF IInv, TypeOK
<1>13. ThreadInv'
  <2> SUFFICES ASSUME NEW u \in Thread
               PROVE  ThreadOK(u)'
    BY DEF ThreadInv
  <2>1. CASE u = t
    BY <1>1, <1>12, <2>1 DEF ThreadOK
  <2>2. CASE u # t
    <3>1. ThreadOK(u)
      BY DEF IInv, ThreadInv
    <3>2. ASSUME pc[u] = "count", op[u] = "add"
          PROVE  key[u] # x
      <4>1. Holds(u) /\ Holds(t) /\ Writes(t)
        BY <1>1, <3>2 DEF Holds, Writes
      <4>2. Stripe(u) # Stripe(t)
        BY <2>2, <4>1 DEF IInv, LockInv
      <4>3. bucket[u] = Index(key[u])
        BY <3>1, <3>2 DEF ThreadOK
      <4> QED
        BY <1>3, <1>8, <4>2, <4>3 DEF Stripe
    <3> QED
      BY <1>1, <1>11, <1>12, <2>2, <3>1, <3>2 DEF ThreadOK, Index
  <2> QED
    BY <2>1, <2>2
<1>14. CopyInv'
  <2> SUFFICES ASSUME NEW u \in Thread, op'[u] = "copy"
               PROVE  CopyOK(u)'
    BY DEF CopyInv
  <2>1. op[u] = "copy" /\ u # t /\ CopyOK(u)
    BY <1>1 DEF IInv, CopyInv
  <2>2. may'[u] = may[u] \cup {x}
    BY <1>1, <1>8, <2>1
  <2> QED
    BY <1>1, <1>11, <1>12, <2>1, <2>2 DEF CopyOK, Index
<1>15. CountInv'
  <2>1. /\ Cardinality(Counting) \in Nat
        /\ Cardinality(Counting') = Cardinality(Counting) + (IF "idle" = "count" THEN 1 ELSE 0)
                                                   - (IF pc[t] = "count" THEN 1 ELSE 0)
    BY <1>1, CountingMove DEF IInv
  <2>2. Cardinality(Counting') = Cardinality(Counting) - 1
    BY <1>1, <2>1
  <2>3. IsFiniteSet(Linked) /\ Cardinality(Linked) \in Nat /\ count = Cardinality(Linked) + Cardinality(Counting)
    BY FS_CardinalityType DEF IInv, CountInv, CountExact
  <2>4. IsFiniteSet(Linked') /\ Cardinality(Linked') = Cardinality(Linked) + 1
    BY <1>11, <2>3, FS_AddElement
  <2> QED
    BY <1>1, <2>1, <2>2, <2>3, <2>4 DEF CountInv, CountExact
<1>16. TypeOK'
  <2>1. <<op[t], key[t], TRUE>> \in {"get", "add"} \X Key \X BOOLEAN
    BY <1>1, <1>3
  <2>2. res' \in [Thread -> {None} \cup ({"get", "add"} \X Key \X BOOLEAN)]
    BY <1>1, <2>1 DEF IInv, TypeOK
  <2>3. may' \in [Thread -> SUBSET Key]
    BY <1>1, <1>3 DEF IInv, TypeOK
  <2> QED
    BY <1>1, <1>10, <2>2, <2>3 DEF IInv, TypeOK, Label
<1> QED
  BY <1>10, <1>13, <1>14, <1>15, <1>16 DEF IInv

LEMMA RemoveUnlinkInv ==
    ASSUME IInv, NEW t \in Thread, htable_remove_unlink(t)
    PROVE  IInv'
<1>1. /\ pc[t] = "crit" /\ op[t] = "remove"
      /\ UNCHANGED <<bucket_count, old, thres, count, op, key, bucket, out, res, may>>
  BY DEF htable_remove_unlink, sizeVars
<1>2. CASE key[t] \notin Range(buckets[bucket[t]])
  <2>1. pc' = [pc EXCEPT ![t] = "idle"] /\ UNCHANGED <<buckets, must>>
    BY <1>2 DEF htable_remove_unlink, Goto
  <2>2. res' \in [Thread -> {None} \cup ({"get", "add"} \X Key \X BOOLEAN)]
    BY <1>1 DEF IInv, TypeOK
  <2> QED
    BY <1>1, <2>1, <2>2, ReturnInv
<1>3. CASE key[t] \in Range(buckets[bucket[t]])
  <2>1. PICK i \in 1..Len(buckets[bucket[t]]) :
         /\ buckets[bucket[t]][i] = key[t]
         /\ buckets' = [buckets EXCEPT ![bucket[t]] = RemoveAt(buckets[bucket[t]], i)]
    BY <1>3 DEF htable_remove_unlink
  <2>2. pc' = [pc EXCEPT ![t] = "count"] /\ must' = [u \in Thread |-> must[u] \ {key[t]}]
    BY <1>3 DEF htable_remove_unlink, Goto
  <2>3. /\ key[t] \in Key /\ bucket[t] \in 0..bucket_count - 1 /\ TableSize = bucket_count
        /\ buckets[bucket[t]] \in Seq(Key) /\ Sorted(buckets[bucket[t]]) /\ key[t] \in Linked
    BY <1>1, <1>3, CriticalFacts
  <2>4. PICK c \in Seq(Key) : c = RemoveAt(buckets[bucket[t]], i)
    BY <2>1, <2>3, RemoveSorted
  <2>5. Range(c) = Range(buckets[bucket[t]]) \ {key[t]} /\ Sorted(c)
    BY <2>1, <2>3, <2>4, RemoveSorted
  <2>7. PICK x \in Key : x = key[t]
    BY <2>3
  <2>8. buckets' = [buckets EXCEPT ![bucket[t]] = c]
    BY <2>1, <2>4
  <2>9. /\ TableSize' = TableSize /\ buckets' \in [0..TableSize - 1 -> Seq(Key)] /\ ChainInv' /\ LockInv'
        /\ Linked' = IF key[t] \in Linked THEN Linked \ {key[t]} ELSE Linked \cup {key[t]}
    <3>1. "count" \in {"idle", "count"} /\ pc[t] \in {"crit", "count"} /\ op[t] \in {"add", "remove"}
      BY <1>1
    <3>2. Range(c) = IF key[t] \in Linked THEN Range(buckets[bucket[t]]) \ {key[t]}
                                         ELSE Range(buckets[bucket[t]]) \cup {key[t]}
      BY <2>3, <2>5
    <3>3. pc' = [pc EXCEPT ![t] = "count"] /\ UNCHANGED <<bucket_count, old, op, key, bucket>> /\ Sorted(c)
      BY <1>1, <2>2, <2>5
    <3> QED
      BY <2>4, <2>8, <3>1, <3>2, <3>3, ChainStep
  <2>10. Linked' = Linked \ {x} /\ x \in Linked
    BY <2>3, <2>7, <2>9
  <2>11. pc'[t] = "count" /\ \A u \in Thread \ {t} : pc'[u] = pc[u]
    BY <2>2 DEF IInv, TypeOK
  <2>12. ThreadInv'
    <3> SUFFICES ASSUME NEW u \in Thread
                 PROVE  ThreadOK(u)'
      BY DEF ThreadInv
    <3>1. ThreadOK(u)
      BY DEF IInv, ThreadInv
    <3>2. CASE u = t
      BY <1>1, <2>11, <3>1, <3>2 DEF ThreadOK, Index
    <3>3. CASE u # t
      BY <1>1, <2>10, <2>11, <3>1, <3>3 DEF ThreadOK, Index
    <3> QED
      BY <3>2, <3>3
  <2>13. CopyInv'
    <3> SUFFICES ASSUME NEW u \in Thread, op'[u] = "copy"
                 PROVE  CopyOK(u)'
      BY DEF CopyInv
    <3>1. op[u] = "copy" /\ u # t /\ CopyOK(u)
      BY <1>1 DEF IInv, CopyInv
    <3>2. must'[u] = must[u] \ {x}
      BY <2>2, <2>7
    <3> QED
      BY <1>1, <2>10, <2>11, <3>1, <3>2 DEF CopyOK, Index
  <2>14. CountInv'
    <3>1. /\ Cardinality(Counting) \in Nat
          /\ Cardinality(Counting') = Cardinality(Counting) + (IF "count" = "count" THEN 1 ELSE 0)
                                                     - (IF pc[t] = "count" THEN 1 ELSE 0)
      BY <2>2, CountingMove DEF IInv
    <3>2. Cardinality(Counting') = Cardinality(Counting) + 1
      BY <1>1, <3>1
    <3>3. IsFiniteSet(Linked) /\ Cardinality(Linked) \in Nat /\ count = Cardinality(Linked) + Cardinality(Counting)
      BY FS_CardinalityType DEF IInv, CountInv, CountExact
    <3>4. IsFiniteSet(Linked') /\ Cardinality(Linked') = Cardinality(Linked) - 1
      BY <2>10, <3>3, FS_RemoveElement
    <3> QED
      BY <1>1, <3>1, <3>2, <3>3, <3>4 DEF CountInv, CountExact
  <2>15. TypeOK'
    <3>1. must' \in [Thread -> SUBSET Key]
      BY <2>2 DEF IInv, TypeOK
    <3> QED
      BY <1>1, <2>2, <2>9, <3>1 DEF IInv, TypeOK, Label
  <2> QED
    BY <2>9, <2>12, <2>13, <2>14, <2>15 DEF IInv
<1> QED
  BY <1>2, <1>3

LEMMA RemoveCountInv ==
    ASSUME IInv, NEW t \in Thread, htable_remove_count(t)
    PROVE  IInv'
<1>1. /\ pc[t] = "count" /\ op[t] = "remove" /\ pc' = [pc EXCEPT ![t] = "idle"] /\ count' = count - 1
      /\ UNCHANGED <<buckets, bucket_count, old, thres, op, key, bucket, out, res, must, may>>
  BY DEF htable_remove_count, Goto, histVars, sizeVars
<1>2. Linked' = Linked /\ pc'[t] = "idle"
  BY <1>1, LinkedSame DEF IInv, TypeOK
<1>3. ThreadOK(t)'
  BY <1>1, <1>2 DEF ThreadOK
<1>4. \A u \in Thread \ {t} : /\ op'[u] = op[u] /\ key'[u] = key[u] /\ bucket'[u] = bucket[u]
                              /\ out'[u] = out[u] /\ must'[u] = must[u] /\ may'[u] = may[u]
  BY <1>1
<1>5. pc[t] \notin {"resize", "move"} /\ "idle" \notin {"resize", "move"} /\ op'[t] # "copy"
  BY <1>1
<1>6. TableSize' = TableSize /\ ThreadInv' /\ ChainInv' /\ CopyInv'
  BY <1>1, <1>3, <1>4, <1>5, StepFrame
<1>7. LockInv'
  BY <1>1, LockFrame
<1>8. /\ Cardinality(Counting) \in Nat /\ Cardinality(Counting') \in Nat
      /\ Cardinality(Counting') = Cardinality(Counting) + (IF "idle" = "count" THEN 1 ELSE 0)
                                                 - (IF pc[t] = "count" THEN 1 ELSE 0)
  BY <1>1, CountingMove DEF IInv
<1>9. Cardinality(Counting') = Cardinality(Counting) - 1
  BY <1>1, <1>8
<1>10. IsFiniteSet(Linked) /\ Cardinality(Linked) \in Nat /\ count = Cardinality(Linked) + Cardinality(Counting)
  BY FS_CardinalityType DEF IInv, CountInv, CountExact
<1>11. CountInv' /\ count' \in Nat
  BY <1>1, <1>2, <1>8, <1>9, <1>10 DEF CountInv, CountExact
<1>12. TypeOK'
  BY <1>1, <1>6, <1>11 DEF IInv, TypeOK, Label
<1> QED
  BY <1>6, <1>7, <1>11, <1>12 DEF IInv

\* The list gets the keys of one more bucket: those of the buckets behind are in
\* it already, and nobody can have a key in two.
LEMMA CopyBucketInv ==
    ASSUME IInv, NEW t \in Thread, htable_copy_bucket(t)
    PROVE  IInv'
<1> DEFINE b == bucket[t]
           last == (b + 1) % PerLock = 0 /\ (b + 1) \div PerLock >= bucket_count \div PerLock
<1>1. /\ pc[t] = "crit" /\ op[t] = "copy"
      /\ UNCHANGED <<buckets, bucket_count, old, thres, count, op, key, res, must, may>>
      /\ out' = [out EXCEPT ![t] = out[t] \o buckets[b]]
      /\ bucket' = [bucket EXCEPT ![t] = IF last THEN b ELSE b + 1]
  BY DEF htable_copy_bucket, NextBucket, lock_count, histVars, sizeVars
<1>2. PICK l \in {"copied", "stripe", "crit"} :
         /\ pc' = [pc EXCEPT ![t] = l]
         /\ l = "copied" <=> last
         /\ l = "crit" => (b + 1) % PerLock # 0
  BY DEF htable_copy_bucket, NextBucket, lock_count, Goto
<1>3. TableSize = bucket_count /\ (\A u \in Thread : pc[u] \notin {"resize", "move"})
  BY <1>1, ReaderFacts
<1>4. bucket_count \in Nat \ {0} /\ bucket_count % PerLock = 0 /\ b \in 0..bucket_count - 1
  BY <1>1, SizeType DEF IInv, TypeOK, ThreadInv, ThreadOK
<1>5. (last => b + 1 = bucket_count) /\ (~last => b + 1 < bucket_count)
  <2>1. PerLock \in Nat \ {0}
    BY ConstantFacts
  <2>2. (b + 1) \div PerLock \in Int /\ bucket_count \div PerLock \in Int
    BY <1>4, <2>1
  <2> QED
    BY <1>4, <2>1, <2>2, StripeLoop
<1> HIDE DEF last
<1>6. /\ pc'[t] = l /\ out'[t] = out[t] \o buckets[b] /\ bucket'[t] = (IF last THEN b ELSE b + 1)
      /\ \A u \in Thread \ {t} : /\ op'[u] = op[u] /\ key'[u] = key[u] /\ bucket'[u] = bucket[u]
                                 /\ out'[u] = out[u] /\ must'[u] = must[u] /\ may'[u] = may[u]
  BY <1>1, <1>2 DEF IInv, TypeOK
<1>7. Linked' = Linked /\ Linked \subseteq Key
  BY <1>1, LinkedSame, LinkedFacts DEF IInv
<1>8. CopyOK(t)
  BY <1>1 DEF IInv, CopyInv
<1>9. buckets[b] \in Seq(Key) /\ Sorted(buckets[b]) /\ out[t] \in Seq(Key)
  BY <1>3, <1>4, SizeType DEF IInv, ChainInv, TypeOK
<1>10. \A k \in Key : /\ Index(k) \in 0..bucket_count - 1 /\ Index(k)' = Index(k)
                      /\ k \in Linked <=> k \in Range(buckets[Index(k)])
  BY <1>1, AtHome DEF Index
<1>11. \A k \in Range(buckets[b]) : Index(k) = b /\ k \in Linked
  BY <1>3, <1>4, LinkedFacts DEF IInv, ChainInv, Index
<1>12. \A k \in Range(out[t]) : Index(k) < b
  BY <1>1, <1>8 DEF CopyOK
<1>13. Range(out[t]) \cap Range(buckets[b]) = {}
  <2> SUFFICES ASSUME NEW k \in Range(out[t]), k \in Range(buckets[b])
               PROVE  FALSE
    OBVIOUS
  <2> QED
    BY <1>4, <1>11, <1>12
<1>14. /\ out'[t] \in Seq(Key) /\ IsInjective(out'[t])
       /\ Range(out'[t]) = Range(out[t]) \cup Range(buckets[b])
  BY <1>6, <1>8, <1>9, <1>13, SortedInjective, ConcatInjective DEF CopyOK
<1>15. ThreadOK(t)'
  BY <1>1, <1>2, <1>4, <1>5, <1>6 DEF IInv, ThreadInv, ThreadOK
<1>16. CopyOK(t)'
  <2>1. must'[t] \subseteq Linked' /\ Linked' \subseteq may'[t] /\ Range(out'[t]) \subseteq may'[t]
    BY <1>1, <1>7, <1>8, <1>11, <1>14 DEF CopyOK
  <2>2. \A k \in Range(out'[t]) : Index(k)' \in Nat /\ Index(k)' < b + 1
    BY <1>4, <1>8, <1>9, <1>10, <1>11, <1>12, <1>14, RangeFacts
  <2>3. \A k \in must[t] : k \in Key /\ Index(k) < b + 1 => k \in Range(out'[t])
    <3> SUFFICES ASSUME NEW k \in must[t], k \in Key, Index(k) < b + 1
                 PROVE  k \in Range(out'[t])
      OBVIOUS
    <3>1. k \in Linked /\ Index(k) \in Nat
      BY <1>8, <1>10 DEF CopyOK
    <3>2. CASE Index(k) = b
      BY <1>10, <1>14, <3>1, <3>2
    <3>3. CASE Index(k) < b
      BY <1>1, <1>8, <1>14, <3>3 DEF CopyOK
    <3> QED
      BY <1>4, <3>1, <3>2, <3>3
  <2>4. must[t] \subseteq Key
    BY <1>7, <1>8 DEF CopyOK
  <2>5. ASSUME l # "copied"
        PROVE  /\ \A k \in Range(out'[t]) : Index(k)' < bucket'[t]
               /\ \A k \in must'[t] : Index(k)' < bucket'[t] => k \in Range(out'[t])
    <3>1. bucket'[t] = b + 1
      BY <1>2, <1>6, <2>5
    <3> QED
      BY <1>1, <1>10, <2>2, <2>3, <2>4, <3>1
  <2>6. ASSUME l = "copied"
        PROVE  must'[t] \subseteq Range(out'[t])
    <3>1. b + 1 = bucket_count
      BY <1>2, <1>5, <2>6
    <3>2. \A k \in must[t] : Index(k) < b + 1
      BY <1>4, <1>10, <2>4, <3>1
    <3> QED
      BY <1>1, <2>3, <2>4, <3>2
  <2> QED
    BY <1>2, <1>6, <1>14, <2>1, <2>5, <2>6 DEF CopyOK
<1>17. TableSize' = TableSize /\ ThreadInv' /\ ChainInv' /\ CopyInv'
  <2>1. pc[t] \notin {"resize", "move"} /\ l \notin {"resize", "move"}
    BY <1>1, <1>2
  <2> QED
    BY <1>1, <1>2, <1>6, <1>15, <1>16, <2>1, StepFrame
<1>18. LockInv'
  <2>1. SizeWriters = {}
    BY <1>3 DEF SizeWriters
  <2>2. ASSUME NEW u \in Thread \ {t}, l = "crit", Holds(u), Stripe(u) = Stripe(t)'
        PROVE  ~Writes(t)' /\ ~Writes(u)
    <3>1. bucket'[t] = b + 1 /\ (b + 1) % PerLock # 0
      BY <1>2, <1>6, <2>2
    <3>2. (b + 1) \div PerLock = b \div PerLock
      BY <1>4, <3>1, SameStripe, ConstantFacts
    <3>3. Stripe(u) = Stripe(t)
      BY <2>2, <3>1, <3>2 DEF Stripe
    <3> QED
      BY <1>1, <2>2, <3>3 DEF IInv, LockInv, Holds, Writes
  <2> QED
    BY <1>2, <1>6, <2>1, <2>2, LockFrame
<1>19. CountInv'
  BY <1>1, <1>2, <1>7, CountFrame
<1>20. TypeOK'
  <2>1. out' \in [Thread -> Seq(Key)]
    BY <1>1, <1>6, <1>14 DEF IInv, TypeOK
  <2>2. bucket' \in [Thread -> Nat]
    BY <1>1, <1>4 DEF IInv, TypeOK
  <2> QED
    BY <1>1, <1>2, <1>17, <2>1, <2>2 DEF IInv, TypeOK, Label
<1> QED
  BY <1>17, <1>18, <1>19, <1>20 DEF IInv

LEMMA CopyReturnInv ==
    ASSUME IInv, NEW t \in Thread, htable_copy_return(t)
    PROVE  IInv'
<1>1. /\ pc[t] = "copied" /\ pc' = [pc EXCEPT ![t] = "idle"] /\ op' = [op EXCEPT ![t] = "get"]
      /\ out' = [out EXCEPT ![t] = <<>>] /\ must' = [must EXCEPT ![t] = {}] /\ may' = [may EXCEPT ![t] = {}]
      /\ UNCHANGED <<buckets, bucket_count, old, thres, count, key, bucket, res>>
  BY DEF htable_copy_return, Goto, sizeVars
<1>2. Linked' = Linked /\ pc'[t] = "idle" /\ op'[t] = "get"
  BY <1>1, LinkedSame DEF IInv, TypeOK
<1>3. \A u \in Thread \ {t} : /\ op'[u] = op[u] /\ key'[u] = key[u] /\ bucket'[u] = bucket[u]
                              /\ out'[u] = out[u] /\ must'[u] = must[u] /\ may'[u] = may[u]
  BY <1>1 DEF IInv, TypeOK
<1>4. ThreadOK(t)'
  BY <1>2 DEF ThreadOK
<1>5. pc[t] \notin {"resize", "move"} /\ "idle" \notin {"resize", "move"} /\ op'[t] # "copy"
  BY <1>1, <1>2
<1>6. TableSize' = TableSize /\ ThreadInv' /\ ChainInv' /\ CopyInv'
  BY <1>1, <1>3, <1>4, <1>5, StepFrame
<1>7. LockInv'
  <2>1. "idle" \notin {"stripe", "crit", "count", "copied"} /\ "idle" \notin {"crit", "count"}
    OBVIOUS
  <2>2. \A u \in Thread \ {t} : op'[u] = op[u] /\ bucket'[u] = bucket[u]
    BY <1>3
  <2> QED
    BY <1>1, <1>5, <2>1, <2>2, LockFrame
<1>8. CountInv'
  BY <1>1, <1>2, CountFrame
<1>9. TypeOK'
  BY <1>1, <1>6 DEF IInv, TypeOK, Label
<1> QED
  BY <1>6, <1>7, <1>8, <1>9 DEF IInv

LEMMA EnlargeInv ==
    ASSUME IInv, NEW t \in Thread, Enlarge(t)
    PROVE  IInv'
<1> DEFINE n == (bucket_count * Grow) % Width
<1>1. /\ pc[t] = "resize"
      /\ UNCHANGED <<buckets, old, count, op, key, bucket, out, res, must, may>>
  BY DEF Enlarge, histVars
<1>2. Linked' = Linked /\ TableSize = old
  BY <1>1, LinkedSame DEF TableSize
<1>3. \A u \in Thread \ {t} : pc[u] \in {"idle", "try", "lock"}
  BY <1>1, WriterAlone
<1>4. bucket_count \in Nat \ {0} /\ old \in Nat \ {0} /\ bucket_count % PerLock = 0 /\ old % PerLock = 0
  BY SizeType DEF IInv, TypeOK
<1>5. n \in Nat /\ n % PerLock = 0
  <2>1. bucket_count * Grow \in Nat
    BY <1>4, ConstantFacts
  <2>2. n \in Nat
    BY <2>1, ModRange, ConstantFacts
  <2>3. Grow \in Nat /\ Width \in Nat \ {0} /\ PerLock \in Nat \ {0} /\ Width % PerLock = 0
    BY ConstantFacts
  <2>4. bucket_count \in Nat /\ bucket_count % PerLock = 0
    BY <1>4
  <2>5. ((bucket_count * Grow) % Width) % PerLock = 0
    BY <2>3, <2>4, WholeStripes
  <2> QED
    BY <2>2, <2>5
<1>6. CASE n < old
  <2>1. bucket_count' = old /\ pc' = [pc EXCEPT ![t] = "lock"] /\ thres' = thres
    BY <1>6 DEF Enlarge, Goto
  <2>2. pc'[t] = "lock" /\ \A u \in Thread : pc'[u] \notin {"resize", "move"}
    BY <1>3, <2>1 DEF IInv, TypeOK
  <2>3. TableSize' = old
    BY <2>1, <2>2 DEF TableSize
  <2>4. ThreadOK(t)'
    BY <1>1, <2>2 DEF IInv, ThreadInv, ThreadOK
  <2>5. LockInv' /\ ThreadInv' /\ CountInv' /\ CopyInv'
    BY <1>1, <1>2, <1>3, <2>1, <2>4, ResizeFrame
  <2>6. \A u \in Thread : pc[u] # "move"
    BY <1>1, <1>3
  <2>7. ChainInv'
    BY <1>1, <1>2, <2>3, <2>6 DEF IInv, ChainInv
  <2>8. TypeOK'
    BY <1>1, <1>2, <1>4, <2>1, <2>3 DEF IInv, TypeOK, Label
  <2> QED
    BY <2>5, <2>7, <2>8 DEF IInv
<1>7. CASE ~(n < old)
  <2>1. bucket_count' = n /\ pc' = pc /\ thres' = C_THRES_ELEM(n)
    BY <1>7 DEF Enlarge
  <2>2. pc' = [pc EXCEPT ![t] = "resize"]
    BY <1>1, <2>1 DEF IInv, TypeOK
  <2>3. TableSize' = old
    BY <1>1, <2>1 DEF TableSize
  <2>4. n \in Nat \ {0} /\ old <= n
    BY <1>4, <1>5, <1>7
  <2>5. ThreadOK(t)'
    BY <1>1, <2>1, <2>4 DEF IInv, ThreadInv, ThreadOK
  <2>6. LockInv' /\ ThreadInv' /\ CountInv' /\ CopyInv'
    BY <1>1, <1>2, <1>3, <2>2, <2>5, ResizeFrame
  <2>7. \A u \in Thread : pc[u] # "move"
    BY <1>1, <1>3
  <2>8. ChainInv'
    BY <1>1, <1>2, <2>1, <2>3, <2>7 DEF IInv, ChainInv
  <2>9. thres' \in Nat
    BY <1>5, <2>1, ThresType
  <2> HIDE DEF n
  <2>10. TypeOK'
    BY <1>1, <1>2, <1>4, <1>5, <2>1, <2>3, <2>4, <2>9 DEF IInv, TypeOK
  <2> QED
    BY <2>6, <2>8, <2>10 DEF IInv
<1> QED
  BY <1>6, <1>7

LEMMA ResizeFailsInv ==
    ASSUME IInv, NEW t \in Thread, ResizeFails(t)
    PROVE  IInv'
<1>1. /\ pc[t] = "resize" /\ bucket_count' = old /\ thres' = C_THRES_ELEM(old)
      /\ pc' = [pc EXCEPT ![t] = "lock"]
      /\ UNCHANGED <<buckets, old, count, op, key, bucket, out, res, must, may>>
  BY DEF ResizeFails, Goto, histVars
<1>2. Linked' = Linked /\ TableSize = old
  BY <1>1, LinkedSame DEF TableSize
<1>3. \A u \in Thread \ {t} : pc[u] \in {"idle", "try", "lock"}
  BY <1>1, WriterAlone
<1>4. pc'[t] = "lock" /\ \A u \in Thread : pc'[u] \notin {"resize", "move"}
  BY <1>1, <1>3 DEF IInv, TypeOK
<1>5. TableSize' = old
  BY <1>1, <1>4 DEF TableSize
<1>6. ThreadOK(t)'
  BY <1>1, <1>4 DEF IInv, ThreadInv, ThreadOK
<1>7. LockInv' /\ ThreadInv' /\ CountInv' /\ CopyInv'
  BY <1>1, <1>2, <1>3, <1>6, ResizeFrame
<1>8. \A u \in Thread : pc[u] # "move"
  BY <1>1, <1>3
<1>9. ChainInv'
  BY <1>1, <1>2, <1>5, <1>8 DEF IInv, ChainInv
<1>10. thres' \in Nat
  BY <1>1, SizeType, ThresType DEF IInv
<1>11. TypeOK'
  BY <1>1, <1>2, <1>5, <1>10 DEF IInv, TypeOK, Label
<1> QED
  BY <1>7, <1>9, <1>11 DEF IInv

\* The new buckets have no key, the old ones have those that they had.
LEMMA ResizeInv ==
    ASSUME IInv, NEW t \in Thread, Resize(t)
    PROVE  IInv' /\ Linked' = Linked
<1>1. /\ pc[t] = "resize"
      /\ UNCHANGED <<bucket_count, old, thres, count, op, key, out, res, must, may>>
  BY DEF Resize, histVars, sizeVars
<1>2. TableSize = old
  BY <1>1 DEF TableSize
<1>3. \A u \in Thread \ {t} : pc[u] \in {"idle", "try", "lock"}
  BY <1>1, WriterAlone
<1>4. bucket_count \in Nat \ {0} /\ old \in Nat \ {0} /\ old <= bucket_count
  BY <1>1, SizeType DEF IInv, ThreadInv, ThreadOK
<1>5. \A u \in Thread : pc[u] # "move"
  BY <1>1, <1>3
<1>6. CASE bucket_count = old
  <2>1. pc' = [pc EXCEPT ![t] = "lock"] /\ UNCHANGED <<buckets, bucket>>
    BY <1>6 DEF Resize, Goto
  <2>2. pc'[t] = "lock" /\ \A u \in Thread : pc'[u] \notin {"resize", "move"}
    BY <1>3, <2>1 DEF IInv, TypeOK
  <2>3. TableSize' = old /\ Linked' = Linked
    BY <1>1, <1>6, <2>1, <2>2, LinkedSame DEF TableSize
  <2>4. ThreadOK(t)'
    BY <1>1, <2>2 DEF IInv, ThreadInv, ThreadOK
  <2>5. LockInv' /\ ThreadInv' /\ CountInv' /\ CopyInv'
    BY <1>1, <1>3, <2>1, <2>3, <2>4, ResizeFrame
  <2>6. ChainInv'
    BY <1>2, <1>5, <2>1, <2>3 DEF IInv, ChainInv
  <2>7. TypeOK'
    BY <1>1, <1>2, <2>1, <2>3 DEF IInv, TypeOK, Label
  <2> QED
    BY <2>3, <2>5, <2>6, <2>7 DEF IInv
<1>7. CASE bucket_count # old
  <2>1. /\ pc' = [pc EXCEPT ![t] = "move"] /\ bucket' = [bucket EXCEPT ![t] = 0]
        /\ buckets' = [b \in 0..bucket_count - 1 |-> IF b < old THEN buckets[b] ELSE <<>>]
    BY <1>7 DEF Resize, Goto
  <2>2. pc'[t] = "move" /\ bucket'[t] = 0 /\ \A u \in Thread : pc'[u] # "resize"
    BY <1>3, <2>1 DEF IInv, TypeOK
  <2>3. TableSize' = bucket_count
    BY <1>1, <2>2 DEF TableSize
  <2>4. /\ DOMAIN buckets' = 0..bucket_count - 1
        /\ \A b \in 0..old - 1 : b \in 0..bucket_count - 1 /\ buckets'[b] = buckets[b]
        /\ \A b \in 0..bucket_count - 1 : b \notin 0..old - 1 => old <= b /\ buckets'[b] = <<>>
    BY <1>4, <2>1
  <2>5. \A b \in 0..old - 1 : buckets[b] \in Seq(Key)
    BY <1>2, SizeType DEF IInv
  <2>6. buckets' \in [0..bucket_count - 1 -> Seq(Key)]
    <3>1. <<>> \in Seq(Key)
      OBVIOUS
    <3> QED
      BY <1>4, <2>1, <2>5, <3>1
  <2>7. Range(<<>>) = {} /\ Sorted(<<>>)
    BY DEF Range, Sorted
  <2>8. \A k : k \in Linked <=> \E b \in 0..old - 1 : k \in Range(buckets[b])
    BY <1>2, LinkedFacts DEF IInv
  <2>9. \A k : k \in Linked' <=> \E b \in 0..bucket_count - 1 : k \in Range(buckets'[b])
    BY <2>4 DEF Linked
  <2>10. Linked' = Linked
    BY <2>4, <2>7, <2>8, <2>9
  <2>11. ThreadOK(t)'
    BY <1>1, <1>4, <1>7, <2>2 DEF IInv, ThreadInv, ThreadOK
  <2>12. \A u \in Thread \ {t} : bucket'[u] = bucket[u]
    BY <2>1 DEF IInv, TypeOK
  <2>13. LockInv' /\ ThreadInv' /\ CountInv' /\ CopyInv'
    BY <1>1, <1>3, <2>1, <2>10, <2>11, <2>12, ResizeFrame
  <2>14. ChainInv'
    <3>1. \A b \in 0..bucket_count - 1 : Sorted(buckets'[b])
      BY <1>2, <2>4, <2>7 DEF IInv, ChainInv
    <3>2. \A b, c \in 0..bucket_count - 1 : b # c => Range(buckets'[b]) \cap Range(buckets'[c]) = {}
      <4> SUFFICES ASSUME NEW b \in 0..bucket_count - 1, NEW c \in 0..bucket_count - 1, b # c
                   PROVE  Range(buckets'[b]) \cap Range(buckets'[c]) = {}
        OBVIOUS
      <4>1. CASE b \in 0..old - 1 /\ c \in 0..old - 1
        BY <1>2, <2>4, <4>1 DEF IInv, ChainInv
      <4>2. CASE b \notin 0..old - 1 \/ c \notin 0..old - 1
        BY <2>4, <2>7, <4>2
      <4> QED
        BY <4>1, <4>2
    <3>3. \A b \in 0..bucket_count - 1 : \A k \in Range(buckets'[b]) : b \in 0..old - 1
      BY <2>4, <2>7
    <3>4. \A b \in 0..bucket_count - 1 : \A k \in Range(buckets'[b]) :
            (\A u \in Thread : pc'[u] = "move" => b < bucket'[u] \/ old' <= b) => Hash[k] % bucket_count = b
      <4>1. \A b \in 0..old - 1 : ~(b < bucket'[t] \/ old' <= b)
        BY <1>1, <1>4, <2>2
      <4> QED
        BY <2>2, <3>3, <4>1
    <3> QED
      BY <2>3, <3>1, <3>2, <3>4 DEF ChainInv
  <2>15. TypeOK'
    <3>1. bucket' \in [Thread -> Nat]
      BY <2>1 DEF IInv, TypeOK
    <3> QED
      BY <1>1, <2>1, <2>3, <2>6, <3>1 DEF IInv, TypeOK, Label
  <2> QED
    BY <2>10, <2>13, <2>14, <2>15 DEF IInv
<1> QED
  BY <1>6, <1>7

\* A node that moves is in one chain before and in one after.
LEMMA MoveNodeInv ==
    ASSUME IInv, NEW t \in Thread, MoveNode(t)
    PROVE  IInv' /\ Linked' = Linked
<1>1. /\ pc[t] = "move"
      /\ UNCHANGED <<bucket_count, old, thres, count, pc, op, key, bucket, out, res, must, may>>
  BY DEF MoveNode, threadVars, histVars, sizeVars
<1>2. \A u \in Thread \ {t} : pc[u] \in {"idle", "try", "lock"}
  BY <1>1, WriterAlone
<1>3. TableSize = bucket_count /\ TableSize' = bucket_count
  BY <1>1, <1>2 DEF TableSize
<1>4. /\ bucket_count \in Nat \ {0} /\ old \in Nat \ {0} /\ bucket[t] \in Nat
      /\ bucket[t] < old /\ old < bucket_count
  BY <1>1, SizeType DEF IInv, TypeOK, ThreadInv, ThreadOK
<1>5. PICK from \in 0..bucket_count - 1 : from = bucket[t]
  BY <1>4
<1>6. /\ buckets \in [0..bucket_count - 1 -> Seq(Key)]
      /\ \A b \in 0..bucket_count - 1 : buckets[b] \in Seq(Key) /\ Sorted(buckets[b])
  BY <1>3 DEF IInv, TypeOK, ChainInv
<1>7. PICK i \in 1..Len(buckets[from]) :
         /\ Index(buckets[from][i]) # from
         /\ \E p \in 1..Len(buckets[Index(buckets[from][i])]) + 1 :
              /\ Place(buckets[Index(buckets[from][i])], buckets[from][i], p)
              /\ buckets' = [buckets EXCEPT ![from] = RemoveAt(@, i),
                                            ![Index(buckets[from][i])] = InsertAt(@, p, buckets[from][i])]
  BY <1>5 DEF MoveNode
<1>8. PICK x \in Key : x = buckets[from][i]
  BY <1>6, <1>7, ChainOfNats
<1>9. PICK to \in 0..bucket_count - 1 : to = Index(x)
  BY <1>4, HashFacts DEF Index
<1>10. from # to
  BY <1>7, <1>8, <1>9
<1>11. PICK p \in 1..Len(buckets[to]) + 1 :
          /\ Place(buckets[to], x, p)
          /\ buckets' = [buckets EXCEPT ![from] = RemoveAt(@, i), ![to] = InsertAt(@, p, x)]
  BY <1>7, <1>8, <1>9
<1>12. /\ buckets'[from] = RemoveAt(buckets[from], i) /\ buckets'[to] = InsertAt(buckets[to], p, x)
       /\ DOMAIN buckets' = 0..bucket_count - 1
       /\ \A b \in 0..bucket_count - 1 : b # from /\ b # to => buckets'[b] = buckets[b]
  BY <1>6, <1>10, <1>11
<1>13. /\ buckets'[from] \in Seq(Key) /\ Sorted(buckets'[from])
       /\ Range(buckets'[from]) = Range(buckets[from]) \ {x}
  BY <1>6, <1>7, <1>8, <1>12, RemoveSorted
<1>14. /\ buckets'[to] \in Seq(Key) /\ Sorted(buckets'[to])
       /\ Range(buckets'[to]) = Range(buckets[to]) \cup {x}
  BY <1>6, <1>11, <1>12, InsertSorted
<1>15. \A b \in 0..bucket_count - 1 : buckets'[b] \in Seq(Key) /\ Sorted(buckets'[b])
  BY <1>6, <1>12, <1>13, <1>14
<1>16. buckets' \in [0..bucket_count - 1 -> Seq(Key)]
  <2>1. buckets' = [b \in 0..bucket_count - 1 |-> buckets'[b]]
    BY <1>6, <1>11
  <2> QED
    BY <1>15, <2>1
<1>17. x \in Range(buckets[from])
  BY <1>6, <1>7, <1>8, RangeFacts
<1>18. \A b, c \in 0..bucket_count - 1 : b # c => Range(buckets[b]) \cap Range(buckets[c]) = {}
  BY <1>3 DEF IInv, ChainInv
<1>19. \A b \in 0..bucket_count - 1 : \A k : k # x => (k \in Range(buckets'[b]) <=> k \in Range(buckets[b]))
  BY <1>12, <1>13, <1>14
<1>20. \A b \in 0..bucket_count - 1 : x \in Range(buckets'[b]) <=> b = to
  BY <1>12, <1>13, <1>14, <1>17, <1>18
<1>21. \A k : k \in Linked <=> \E b \in 0..bucket_count - 1 : k \in Range(buckets[b])
  BY <1>3, LinkedFacts DEF IInv
<1>22. \A k : k \in Linked' <=> \E b \in 0..bucket_count - 1 : k \in Range(buckets'[b])
  BY <1>12 DEF Linked
<1>23. Linked' = Linked
  <2>1. x \in Linked /\ x \in Linked'
    BY <1>17, <1>20, <1>21, <1>22
  <2>2. \A k : k # x => (k \in Linked <=> k \in Linked')
    BY <1>19, <1>21, <1>22
  <2>3. \A k : k \in Linked <=> k \in Linked'
    BY <2>1, <2>2
  <2> QED
    BY <2>3, Zenon
<1>24. ThreadOK(t)'
  BY <1>1, <1>23 DEF IInv, ThreadInv, ThreadOK, Index
<1>25. LockInv' /\ ThreadInv' /\ CountInv' /\ CopyInv'
  <2>1. pc' = [pc EXCEPT ![t] = "move"]
    BY <1>1 DEF IInv, TypeOK
  <2> QED
    BY <1>1, <1>2, <1>23, <1>24, <2>1, ResizeFrame
<1>26. ChainInv'
  <2>1. ASSUME NEW b \in 0..bucket_count - 1, NEW c \in 0..bucket_count - 1, b # c
        PROVE  Range(buckets'[b]) \cap Range(buckets'[c]) = {}
    <3> SUFFICES ASSUME NEW k, k \in Range(buckets'[b]), k \in Range(buckets'[c])
                 PROVE  FALSE
      OBVIOUS
    <3>1. CASE k = x
      BY <1>20, <2>1, <3>1
    <3>2. CASE k # x
      BY <1>18, <1>19, <2>1, <3>2
    <3> QED
      BY <3>1, <3>2
  <2>2. ASSUME NEW b \in 0..bucket_count - 1, NEW k \in Range(buckets'[b]),
               \A u \in Thread : pc'[u] = "move" => b < bucket'[u] \/ old' <= b
        PROVE  Hash[k] % bucket_count = b
    <3>1. CASE k = x
      BY <1>9, <1>20, <3>1 DEF Index
    <3>2. CASE k # x
      BY <1>1, <1>3, <1>19, <2>2, <3>2 DEF IInv, ChainInv
    <3> QED
      BY <3>1, <3>2
  <2> QED
    BY <1>3, <1>15, <2>1, <2>2 DEF ChainInv
<1>27. TypeOK'
  BY <1>1, <1>3, <1>16 DEF IInv, TypeOK
<1> QED
  BY <1>23, <1>25, <1>26, <1>27 DEF IInv

\* Behind the bucket that is done every key is where its hash says.
LEMMA MoveNextInv ==
    ASSUME IInv, NEW t \in Thread, MoveNext(t)
    PROVE  IInv'
<1>1. /\ pc[t] = "move"
      /\ \A j \in DOMAIN buckets[bucket[t]] : Index(buckets[bucket[t]][j]) = bucket[t]
      /\ UNCHANGED <<buckets, bucket_count, old, thres, count, op, key, out, res, must, may>>
  BY DEF MoveNext, histVars, sizeVars
<1>2. \A u \in Thread \ {t} : pc[u] \in {"idle", "try", "lock"}
  BY <1>1, WriterAlone
<1>3. Linked' = Linked /\ TableSize = bucket_count
  BY <1>1, <1>2, LinkedSame DEF TableSize
<1>4. /\ bucket_count \in Nat \ {0} /\ old \in Nat \ {0} /\ bucket[t] \in Nat
      /\ bucket[t] < old /\ old < bucket_count
  BY <1>1, SizeType DEF IInv, TypeOK, ThreadInv, ThreadOK
<1>5. \A k \in Range(buckets[bucket[t]]) : Hash[k] % bucket_count = bucket[t]
  BY <1>1 DEF Range, Index
<1>6. \A b \in 0..bucket_count - 1 : \A k \in Range(buckets[b]) :
         b <= bucket[t] \/ old <= b => Hash[k] % bucket_count = b
  <2> SUFFICES ASSUME NEW b \in 0..bucket_count - 1, NEW k \in Range(buckets[b]), b <= bucket[t] \/ old <= b
               PROVE  Hash[k] % bucket_count = b
    OBVIOUS
  <2>1. CASE b = bucket[t]
    BY <1>5, <2>1
  <2>2. CASE b # bucket[t]
    <3>1. b < bucket[t] \/ old <= b
      BY <1>4, <2>2
    <3>2. \A u \in Thread : pc[u] = "move" => b < bucket[u] \/ old <= b
      BY <1>2, <3>1
    <3> QED
      BY <1>3, <3>2 DEF IInv, ChainInv
  <2> QED
    BY <2>1, <2>2
<1>7. /\ \A b \in 0..bucket_count - 1 : Sorted(buckets[b])
      /\ \A b, c \in 0..bucket_count - 1 : b # c => Range(buckets[b]) \cap Range(buckets[c]) = {}
  BY <1>3 DEF IInv, ChainInv
<1>8. CASE bucket[t] + 1 < old
  <2>1. bucket' = [bucket EXCEPT ![t] = bucket[t] + 1] /\ pc' = pc
    BY <1>8 DEF MoveNext
  <2>2. bucket'[t] = bucket[t] + 1 /\ pc' = [pc EXCEPT ![t] = "move"]
    BY <1>1, <2>1 DEF IInv, TypeOK
  <2>3. TableSize' = bucket_count
    BY <1>1, <1>2, <2>1 DEF TableSize
  <2>4. ThreadOK(t)'
    BY <1>1, <1>4, <1>8, <2>1, <2>2 DEF IInv, ThreadInv, ThreadOK
  <2>5. \A u \in Thread \ {t} : bucket'[u] = bucket[u]
    BY <2>1 DEF IInv, TypeOK
  <2>6. LockInv' /\ ThreadInv' /\ CountInv' /\ CopyInv'
    BY <1>1, <1>2, <1>3, <2>2, <2>4, <2>5, ResizeFrame
  <2>7. ASSUME NEW b \in 0..bucket_count - 1, NEW k \in Range(buckets[b]),
               \A u \in Thread : pc'[u] = "move" => b < bucket'[u] \/ old' <= b
        PROVE  Hash[k] % bucket_count = b
    <3>1. b < bucket[t] + 1 \/ old <= b
      BY <1>1, <2>1, <2>2, <2>7
    <3> QED
      BY <1>4, <1>6, <3>1
  <2>8. ChainInv'
    BY <1>1, <1>7, <2>3, <2>7 DEF ChainInv
  <2>9. TypeOK'
    <3>1. bucket' \in [Thread -> Nat]
      BY <1>4, <2>1 DEF IInv, TypeOK
    <3> QED
      BY <1>1, <1>3, <2>1, <2>3, <3>1 DEF IInv, TypeOK
  <2> QED
    BY <2>6, <2>8, <2>9 DEF IInv
<1>9. CASE ~(bucket[t] + 1 < old)
  <2>1. pc' = [pc EXCEPT ![t] = "lock"] /\ bucket' = bucket
    BY <1>9 DEF MoveNext, Goto
  <2>2. pc'[t] = "lock" /\ \A u \in Thread : pc'[u] # "resize"
    BY <1>2, <2>1 DEF IInv, TypeOK
  <2>3. TableSize' = bucket_count
    BY <1>1, <2>2 DEF TableSize
  <2>4. ThreadOK(t)'
    BY <1>1, <2>2 DEF IInv, ThreadInv, ThreadOK
  <2>5. LockInv' /\ ThreadInv' /\ CountInv' /\ CopyInv'
    BY <1>1, <1>2, <1>3, <2>1, <2>4, ResizeFrame
  <2>6. \A b \in 0..bucket_count - 1 : \A k \in Range(buckets[b]) : Hash[k] % bucket_count = b
    BY <1>4, <1>6, <1>9
  <2>7. ChainInv'
    BY <1>1, <1>7, <2>3, <2>6 DEF ChainInv
  <2>8. TypeOK'
    BY <1>1, <1>3, <2>1, <2>3 DEF IInv, TypeOK, Label
  <2> QED
    BY <2>5, <2>7, <2>8 DEF IInv
<1> QED
  BY <1>8, <1>9

LEMMA InitInv == Init => IInv
<1> SUFFICES ASSUME Init
             PROVE  IInv
  OBVIOUS
<1> USE DEF Init
<1>1. TableSize = Size
  BY DEF TableSize
<1>2. Size \in Nat \ {0} /\ Size % PerLock = 0 /\ C_THRES_ELEM(Size) \in Nat
  BY ConstantFacts, ThresType
<1>3. Range(<<>>) = {} /\ Sorted(<<>>) /\ <<>> \in Seq(Key)
  BY DEF Range, Sorted
<1>4. TypeOK
  BY <1>1, <1>2, <1>3 DEF TypeOK, Label
<1>5. LockInv
  BY DEF LockInv, SizeReaders, SizeWriters, Holds
<1>6. ThreadInv
  BY DEF ThreadInv, ThreadOK
<1>7. ChainInv
  BY <1>1, <1>2, <1>3 DEF ChainInv
<1>8. Linked = {} /\ Counting = {}
  BY <1>3 DEF Linked, Counting
<1>9. CountInv
  BY <1>8, FS_EmptySet DEF CountInv, CountExact
<1>10. CopyInv
  BY DEF CopyInv
<1> QED
  BY <1>4, <1>5, <1>6, <1>7, <1>9, <1>10 DEF IInv

\* The disjuncts of Next.
LEMMA NextCases ==
    ASSUME [Next]_vars
    PROVE  \/ \E t \in Thread : Step(t)
           \/ \E t \in Thread, o \in {"get", "add", "remove", "copy"}, k \in Key \cup {None} :
                 (o # "copy" => k \in Key) /\ Call(t, o, k)
           \/ UNCHANGED vars
BY DEF Next

\* What the table and the threads have tells the rest.
LEMMA SameInv ==
    ASSUME IInv,
           UNCHANGED <<buckets, bucket_count, old, thres, count, pc, op, key, bucket, out, res, must, may>>
    PROVE  IInv' /\ UNCHANGED <<Linked, res>>
<1>1. Linked' = Linked /\ TableSize' = TableSize
  BY LinkedSame DEF TableSize
<1>2. TypeOK' /\ LockInv' /\ ChainInv'
  BY <1>1 DEF IInv, TypeOK, LockInv, ChainInv, SizeReaders, SizeWriters, Holds, Stripe, Writes
<1>3. ThreadInv'
  BY <1>1 DEF IInv, ThreadInv, ThreadOK, Index
<1>4. CountInv'
  BY <1>1 DEF IInv, CountInv, CountExact, Counting
<1>5. CopyInv'
  BY <1>1 DEF IInv, CopyInv, CopyOK, Index
<1> QED
  BY <1>1, <1>2, <1>3, <1>4, <1>5 DEF IInv

\* A failed resize that cannot be undone is the last step.
LEMMA ShrinkFailsInv ==
    ASSUME IInv, NEW t \in Thread, ShrinkFails(t)
    PROVE  IInv' /\ UNCHANGED <<Linked, res>>
<1>1. UNCHANGED <<buckets, bucket_count, old, thres, count, pc, op, key, bucket, out, res, must, may>>
  BY DEF ShrinkFails, sizeVars, threadVars, histVars
<1> QED
  BY <1>1, SameInv

LEMMA NextInv == IInv /\ [Next]_vars => IInv'
<1> SUFFICES ASSUME IInv, [Next]_vars
             PROVE  IInv'
  OBVIOUS
<1>1. ASSUME NEW t \in Thread, Step(t)
      PROVE  IInv'
  BY <1>1, TryResizeInv, LockSizeInv, LockStripeInv, GetInv, AddCountInv, AddLinkInv,
     RemoveUnlinkInv, RemoveCountInv, CopyBucketInv, CopyReturnInv, EnlargeInv,
     ResizeInv, ResizeFailsInv, ShrinkFailsInv, MoveNodeInv, MoveNextInv DEF Step
<1>2. ASSUME NEW t \in Thread, NEW o \in {"get", "add", "remove", "copy"}, NEW k \in Key \cup {None},
             o # "copy" => k \in Key, Call(t, o, k)
      PROVE  IInv'
  BY <1>2, CallInv
<1>3. ASSUME UNCHANGED vars
      PROVE  IInv'
  BY <1>3, SameInv DEF vars, sizeVars, threadVars, histVars
<1> QED
  BY <1>1, <1>2, <1>3, NextCases

-----------------------------------------------------------------------------
(* Every step is a step of the set, or none.                                *)

\* The steps at which an operation takes effect.
LEMMA GetRefines ==
    ASSUME IInv, NEW t \in Thread, htable_get(t)
    PROVE  Names!Get(t, key[t])
<1>1. /\ pc[t] = "crit" /\ op[t] = "get" /\ UNCHANGED buckets
      /\ res' = [res EXCEPT ![t] = <<op[t], key[t], key[t] \in Range(buckets[bucket[t]])>>]
  BY DEF htable_get, Return
<1>2. key[t] \in Linked <=> key[t] \in Range(buckets[bucket[t]])
  BY <1>1, CriticalFacts
<1>3. (key[t] \in Range(buckets[bucket[t]])) = (key[t] \in Linked)
  BY <1>2
<1>4. res' = [res EXCEPT ![t] = <<"get", key[t], key[t] \in Linked>>]
  BY <1>1, <1>3, Zenon
<1> QED
  BY <1>1, <1>4, LinkedSame DEF Names!Get

LEMMA AddCountRefines ==
    ASSUME IInv, NEW t \in Thread, htable_add_count(t)
    PROVE  Names!Add(t, key[t]) \/ UNCHANGED <<Linked, res>>
<1>1. pc[t] = "crit" /\ op[t] = "add" /\ UNCHANGED buckets
  BY DEF htable_add_count
<1>2. Linked' = Linked
  BY <1>1, LinkedSame
<1>3. CASE Present(buckets[bucket[t]], key[t])
  <2>1. res' = [res EXCEPT ![t] = <<op[t], key[t], FALSE>>]
    BY <1>3 DEF htable_add_count, Return
  <2>2. key[t] \in Linked
    BY <1>1, <1>3, CriticalFacts, PresentIsMember
  <2>3. (key[t] \notin Linked) = FALSE
    BY <2>2
  <2>4. res' = [res EXCEPT ![t] = <<"add", key[t], key[t] \notin Linked>>]
    BY <1>1, <2>1, <2>3, Zenon
  <2>5. Linked' = Linked \cup {key[t]}
    BY <1>2, <2>2
  <2> QED
    BY <2>4, <2>5 DEF Names!Add
<1>4. CASE ~Present(buckets[bucket[t]], key[t])
  BY <1>2, <1>4 DEF htable_add_count
<1> QED
  BY <1>3, <1>4

LEMMA AddLinkRefines ==
    ASSUME IInv, NEW t \in Thread, htable_add_link(t)
    PROVE  Names!Add(t, key[t])
<1>1. /\ pc[t] = "count" /\ op[t] = "add" /\ pc' = [pc EXCEPT ![t] = "idle"]
      /\ UNCHANGED <<bucket_count, old, op, key, bucket>>
      /\ res' = [res EXCEPT ![t] = <<op[t], key[t], TRUE>>]
  BY DEF htable_add_link, Return, Goto, sizeVars
<1>2. key[t] \notin Linked
  BY <1>1 DEF IInv, ThreadInv, ThreadOK
<1>3. Linked' = Linked \cup {key[t]}
  <2>1. PICK i \in 1..Len(buckets[bucket[t]]) + 1 :
           /\ Place(buckets[bucket[t]], key[t], i)
           /\ buckets' = [buckets EXCEPT ![bucket[t]] = InsertAt(buckets[bucket[t]], i, key[t])]
    BY DEF htable_add_link
  <2>2. key[t] \in Key /\ buckets[bucket[t]] \in Seq(Key) /\ Sorted(buckets[bucket[t]])
    BY <1>1, CriticalFacts
  <2>3. PICK c \in Seq(Key) : c = InsertAt(buckets[bucket[t]], i, key[t])
    BY <2>1, <2>2, InsertSorted
  <2>4. Range(c) = (IF key[t] \in Linked THEN Range(buckets[bucket[t]]) \ {key[t]}
                                        ELSE Range(buckets[bucket[t]]) \cup {key[t]}) /\ Sorted(c)
    BY <1>2, <2>1, <2>2, <2>3, InsertSorted
  <2>5. "idle" \in {"idle", "count"} /\ pc[t] \in {"crit", "count"} /\ op[t] \in {"add", "remove"}
    BY <1>1
  <2>6. buckets' = [buckets EXCEPT ![bucket[t]] = c]
    BY <2>1, <2>3
  <2>7. Linked' = IF key[t] \in Linked THEN Linked \ {key[t]} ELSE Linked \cup {key[t]}
    BY <1>1, <2>3, <2>4, <2>5, <2>6, ChainStep
  <2> QED
    BY <1>2, <2>7
<1>4. (key[t] \notin Linked) = TRUE
  BY <1>2
<1>5. res' = [res EXCEPT ![t] = <<"add", key[t], key[t] \notin Linked>>]
  BY <1>1, <1>4, Zenon
<1> QED
  BY <1>3, <1>5 DEF Names!Add

LEMMA RemoveRefines ==
    ASSUME IInv, NEW t \in Thread, htable_remove_unlink(t)
    PROVE  Names!Remove(key[t])
<1>1. pc[t] = "crit" /\ op[t] = "remove" /\ UNCHANGED <<bucket_count, old, op, key, bucket, res>>
  BY DEF htable_remove_unlink, sizeVars
<1>2. /\ key[t] \in Key /\ buckets[bucket[t]] \in Seq(Key) /\ Sorted(buckets[bucket[t]])
      /\ key[t] \in Linked <=> key[t] \in Range(buckets[bucket[t]])
  BY <1>1, CriticalFacts
<1>3. CASE key[t] \notin Linked
  <2>1. UNCHANGED buckets
    BY <1>2, <1>3 DEF htable_remove_unlink
  <2>2. Linked' = Linked \ {key[t]}
    BY <1>3, <2>1, LinkedSame
  <2> QED
    BY <1>1, <2>2 DEF Names!Remove
<1>4. CASE key[t] \in Linked
  <2>1. PICK i \in 1..Len(buckets[bucket[t]]) :
           /\ buckets[bucket[t]][i] = key[t]
           /\ buckets' = [buckets EXCEPT ![bucket[t]] = RemoveAt(buckets[bucket[t]], i)]
    BY <1>2, <1>4 DEF htable_remove_unlink
  <2>2. pc' = [pc EXCEPT ![t] = "count"]
    BY <1>2, <1>4 DEF htable_remove_unlink, Goto
  <2>3. PICK c \in Seq(Key) : c = RemoveAt(buckets[bucket[t]], i)
    BY <1>2, <2>1, RemoveSorted
  <2>4. Range(c) = (IF key[t] \in Linked THEN Range(buckets[bucket[t]]) \ {key[t]}
                                        ELSE Range(buckets[bucket[t]]) \cup {key[t]}) /\ Sorted(c)
    BY <1>2, <1>4, <2>1, <2>3, RemoveSorted
  <2>5. "count" \in {"idle", "count"} /\ pc[t] \in {"crit", "count"} /\ op[t] \in {"add", "remove"}
    BY <1>1
  <2>6. buckets' = [buckets EXCEPT ![bucket[t]] = c]
    BY <2>1, <2>3
  <2>7. Linked' = IF key[t] \in Linked THEN Linked \ {key[t]} ELSE Linked \cup {key[t]}
    BY <1>1, <2>2, <2>3, <2>4, <2>5, <2>6, ChainStep
  <2>8. Linked' = Linked \ {key[t]}
    BY <1>4, <2>7
  <2> QED
    BY <1>1, <2>8 DEF Names!Remove
<1> QED
  BY <1>3, <1>4

\* The resize loses no key and makes none: the set does not see it.
LEMMA ResizeHidden ==
    ASSUME IInv, NEW t \in Thread, Resize(t) \/ MoveNode(t)
    PROVE  UNCHANGED <<Linked, res>>
<1>1. UNCHANGED res
  BY DEF Resize, MoveNode, threadVars
<1>2. Linked' = Linked
  BY ResizeInv, MoveNodeInv
<1> QED
  BY <1>1, <1>2

LEMMA StepRefines ==
    ASSUME IInv, NEW t \in Thread, Step(t)
    PROVE  Names!KeySetNext \/ UNCHANGED <<Linked, res>>
<1>1. CASE htable_get(t)
  <2>1. key[t] \in Key
    BY <1>1, CriticalFacts DEF htable_get
  <2> QED
    BY <1>1, <2>1, GetRefines DEF Names!KeySetNext
<1>2. CASE htable_add_count(t)
  <2>1. key[t] \in Key
    BY <1>2, CriticalFacts DEF htable_add_count
  <2> QED
    BY <1>2, <2>1, AddCountRefines DEF Names!KeySetNext
<1>3. CASE htable_add_link(t)
  <2>1. key[t] \in Key
    BY <1>3, CriticalFacts DEF htable_add_link
  <2> QED
    BY <1>3, <2>1, AddLinkRefines DEF Names!KeySetNext
<1>4. CASE htable_remove_unlink(t)
  <2>1. key[t] \in Key
    BY <1>4, CriticalFacts DEF htable_remove_unlink
  <2> QED
    BY <1>4, <2>1, RemoveRefines DEF Names!KeySetNext
<1>5. CASE Resize(t) \/ MoveNode(t)
  BY <1>5, ResizeHidden
<1>6. CASE \/ TryResize(t) \/ LockSize(t) \/ LockStripe(t) \/ htable_remove_count(t)
           \/ htable_copy_bucket(t) \/ htable_copy_return(t)
           \/ Enlarge(t) \/ ResizeFails(t) \/ MoveNext(t)
  <2>1. UNCHANGED <<buckets, res>>
    BY <1>6 DEF TryResize, LockSize, LockStripe, htable_remove_count, htable_copy_bucket,
                htable_copy_return, Enlarge, ResizeFails, MoveNext
  <2> QED
    BY <2>1, LinkedSame
<1>7. CASE ShrinkFails(t)
  BY <1>7, ShrinkFailsInv
<1> QED
  BY <1>1, <1>2, <1>3, <1>4, <1>5, <1>6, <1>7 DEF Step

LEMMA NextRefines ==
    IInv /\ [Next]_vars => [Names!KeySetNext]_<<Linked, res>>
<1> SUFFICES ASSUME IInv, [Next]_vars
             PROVE  Names!KeySetNext \/ UNCHANGED <<Linked, res>>
  OBVIOUS
<1>1. ASSUME NEW t \in Thread, NEW o, NEW k, Call(t, o, k)
      PROVE  Names!KeySetNext
  <2>1. Linked' = Linked /\ res' = [res EXCEPT ![t] = None]
    BY <1>1, LinkedSame DEF Call
  <2> QED
    BY <2>1 DEF Names!KeySetNext, Names!Call
<1>2. ASSUME UNCHANGED vars
      PROVE  UNCHANGED <<Linked, res>>
  BY <1>2, LinkedSame DEF vars, threadVars
<1> QED
  BY <1>1, <1>2, StepRefines, NextCases

-----------------------------------------------------------------------------
(* The theorems.                                                            *)

\* The inductive invariant, for any number of threads, keys and buckets.
THEOREM Invariance == Spec => []IInv
BY InitInv, NextInv, PTL DEF Spec

\* Every variable keeps its type, and there are chains for all the buckets that
\* a thread may look at.
THEOREM TypeCorrect == Spec => []TypeOK
<1>1. IInv => TypeOK
  BY DEF IInv
<1> QED
  BY <1>1, Invariance, PTL

\* element_count is the number of the elements linked, but for the threads
\* between counting and linking: it is exact when the table is at rest.
THEOREM CountsExact == Spec => []CountExact
<1>1. IInv => CountExact
  BY DEF IInv, CountInv
<1> QED
  BY <1>1, Invariance, PTL

\* htable_copy_all_keys gives everyone once who was in the table all the time,
\* and nobody who was not in it at any time, although it holds one stripe at a
\* time and threads add and remove keys meanwhile.
THEOREM ListsComplete == Spec => []ListComplete
<1>1. IInv => ListComplete
  <2> SUFFICES ASSUME IInv, NEW t \in Thread, pc[t] = "copied"
               PROVE  /\ must[t] \subseteq Range(out[t]) /\ Range(out[t]) \subseteq may[t]
                      /\ IsInjective(out[t])
    BY DEF ListComplete
  <2>1. op[t] = "copy"
    BY DEF IInv, ThreadInv, ThreadOK
  <2> QED
    BY <2>1 DEF IInv, CopyInv, CopyOK
<1> QED
  BY <1>1, Invariance, PTL

\* The table implements a set with atomic operations: each takes effect in one
\* step, also while another thread makes the table larger, moves its nodes or
\* fails to get the memory.  A failed resize that cannot be undone, after which
\* the code's behaviour is undefined, is the last step.
THEOREM Refinement == Spec => ActsAsSet
<1>1. Init => Names!KeySetInit
  <2>1. Init => Linked = {}
    BY DEF Init, Linked, Range
  <2> QED
    BY <2>1 DEF Init, Names!KeySetInit
<1>2. IInv /\ [Next]_vars => [Names!KeySetNext]_<<Linked, res>>
  BY NextRefines
<1> QED
  BY <1>1, <1>2, Invariance, PTL DEF Spec, ActsAsSet, Names!KeySetSpec, Names!keySetVars

=============================================================================
