----------------------------- MODULE StripedTable -----------------------------
(***************************************************************************)
(* server/htable.c: a hash table whose buckets are chains sorted by key,    *)
(* one reader-writer lock per stripe of buckets, and one reader-writer lock *)
(* for the size of the table.  Every operation holds the latter for reading *)
(* and one stripe; a thread that adds a key may first resize the table,     *)
(* which it does only if it gets the size lock for writing at once.         *)
(*                                                                          *)
(* The locks are not variables: who holds them is told by pc and bucket.    *)
(* The reference counts of the nodes are in Session and IpBlock.            *)
(***************************************************************************)
EXTENDS Integers, Sequences, SequencesExt

CONSTANTS
    Thread,
    Key,        \* a set of naturals; cmpfn is their order
    Hash,       \* fnv1a_32_hash
    None,
    Size,       \* the initial bucket_count, a power of 2
    Grow,       \* 1 << htable_pow2_resize_factor
    PerLock,    \* 1 << buckets_per_lock_pow2
    Load,       \* threshold_load_factor, in percent
    Width,      \* bucket_count is an integer modulo Width
    MaxOps,     \* bound: operations
    MaxFails    \* bound: allocations that fail

ASSUME TableAssumption ==
    /\ IsFiniteSet(Thread)
    /\ Key \subseteq Nat
    /\ {Size, Grow, PerLock, Load, Width} \subseteq Nat \ {0}
    /\ Grow > 1 /\ Size < Width
    \* they are powers of 2
    /\ Size % PerLock = 0 /\ Width % PerLock = 0
    /\ \A k \in Key : Hash[k] \in Nat

VARIABLES
    buckets,    \* the chain of every bucket
    bucket_count,   \* also the size that htable_resize is trying
    old,        \* old_bucket_count of the thread that resizes
    thres,      \* resize_thres_elem_count
    count,      \* element_count
    pc, op, key,    \* per thread: where it is, its operation and the key
    bucket,     \* per thread: the bucket
    out,        \* per thread: keybuf
    res,        \* per thread: its last operation and the result
    must, may,  \* history, per thread: keys in the table all through, or at
                \* some time during, its copy_all_keys
    ops, fails,
    broken      \* the table or the process is past use

threadVars == <<pc, op, key, bucket, out, res>>
histVars == <<must, may>>
sizeVars == <<bucket_count, old, thres>>
allocVars == <<fails, broken>>
vars == <<buckets, sizeVars, count, threadVars, histVars, ops, allocVars>>

lock_count == bucket_count \div PerLock
C_THRES_ELEM(n) == (n * Load) \div 100
Index(k) == Hash[k] % bucket_count
Linked == UNION {Range(buckets[b]) : b \in DOMAIN buckets}

\* htable_create.
Init ==
    /\ buckets = [b \in 0..Size - 1 |-> <<>>]
    /\ bucket_count = Size /\ old = Size
    /\ thres = C_THRES_ELEM(Size)
    /\ count = 0
    /\ pc = [t \in Thread |-> "idle"]
    /\ op = [t \in Thread |-> "get"]
    /\ key = [t \in Thread |-> None]
    /\ bucket = [t \in Thread |-> 0]
    /\ out = [t \in Thread |-> <<>>]
    /\ res = [t \in Thread |-> None]
    /\ must = [t \in Thread |-> {}] /\ may = [t \in Thread |-> {}]
    /\ ops = 0 /\ fails = 0 /\ broken = FALSE

Goto(t, l) == pc' = [pc EXCEPT ![t] = l]

-----------------------------------------------------------------------------
(* The locks *)

SizeReaders == {t \in Thread : pc[t] \in {"stripe", "crit", "count", "copied"}}
SizeWriters == {t \in Thread : pc[t] \in {"resize", "move"}}

Holds(t) == pc[t] \in {"crit", "count"}
Stripe(t) == bucket[t] \div PerLock
Writes(t) == op[t] \in {"add", "remove"}

-----------------------------------------------------------------------------
(* The calls *)

Call(t, o, k) ==
    /\ pc[t] = "idle" /\ ops < MaxOps
    /\ ops' = ops + 1
    /\ op' = [op EXCEPT ![t] = o]
    /\ key' = [key EXCEPT ![t] = k]
    /\ out' = [out EXCEPT ![t] = <<>>]
    /\ res' = [res EXCEPT ![t] = None]
    /\ must' = [must EXCEPT ![t] = IF o = "copy" THEN Linked ELSE {}]
    /\ may' = [may EXCEPT ![t] = IF o = "copy" THEN Linked ELSE {}]
    /\ Goto(t, IF o = "add" /\ count >= thres THEN "try" ELSE "lock")
    /\ UNCHANGED <<buckets, sizeVars, count, bucket, allocVars>>

\* pthread_rwlock_trywrlock(&htable->g_resize_lock)
TryResize(t) ==
    /\ pc[t] = "try"
    /\ IF SizeReaders = {} /\ SizeWriters = {}
       THEN Goto(t, "resize") /\ old' = bucket_count
       ELSE Goto(t, "lock") /\ UNCHANGED old
    /\ UNCHANGED <<buckets, bucket_count, thres, count, op, key, bucket, out, res, histVars, ops, allocVars>>

\* Mutant: the size lock is given back before the nodes are moved.
LockSize_Early(t) ==
    /\ pc[t] = "lock" /\ \A u \in SizeWriters : pc[u] = "move"
    /\ bucket' = [bucket EXCEPT ![t] = IF op[t] = "copy" THEN 0 ELSE Index(key[t])]
    /\ Goto(t, IF op[t] = "copy" /\ count = 0 THEN "copied" ELSE "stripe")
    /\ UNCHANGED <<buckets, sizeVars, count, op, key, out, res, histVars, ops, allocVars>>

\* The bucket is computed once the size can no longer change.  The user list is
\* not even begun when the table counts no element.
LockSize(t) ==
    /\ pc[t] = "lock" /\ SizeWriters = {}
    /\ bucket' = [bucket EXCEPT ![t] = IF op[t] = "copy" THEN 0 ELSE Index(key[t])]
    /\ Goto(t, IF op[t] = "copy" /\ count = 0 THEN "copied" ELSE "stripe")
    /\ UNCHANGED <<buckets, sizeVars, count, op, key, out, res, histVars, ops, allocVars>>

LockStripe(t) ==
    /\ pc[t] = "stripe"
    /\ \A u \in Thread \ {t} :
         Holds(u) /\ Stripe(u) = Stripe(t) => ~Writes(t) /\ ~Writes(u)
    /\ Goto(t, "crit")
    /\ UNCHANGED <<buckets, sizeVars, count, op, key, bucket, out, res, histVars, ops, allocVars>>

-----------------------------------------------------------------------------
(* Under the two locks *)

\* The place of k in a chain: before the first greater key.
Place(c, k, i) ==
    /\ \A j \in 1..i - 1 : c[j] < k
    /\ i <= Len(c) => k < c[i]

Return(t, r) == res' = [res EXCEPT ![t] = <<op[t], key[t], r>>] /\ Goto(t, "idle")

htable_get(t) ==
    /\ pc[t] = "crit" /\ op[t] = "get"
    /\ Return(t, key[t] \in Range(buckets[bucket[t]]))
    /\ UNCHANGED <<buckets, sizeVars, count, op, key, bucket, out, histVars, ops, allocVars>>

\* The walk stops at an equal key, or at a greater one: the key is new.
Present(c, k) ==
    \E i \in 1..Len(c) : c[i] = k /\ \A j \in 1..i - 1 : c[j] < k

\* Mutant: the element is counted before the walk has told that it is new.
htable_add_count_First(t) ==
    /\ pc[t] = "crit" /\ op[t] = "add"
    /\ count' = count + 1
    /\ IF Present(buckets[bucket[t]], key[t])
       THEN Return(t, FALSE)
       ELSE Goto(t, "count") /\ UNCHANGED res
    /\ UNCHANGED <<buckets, sizeVars, op, key, bucket, out, histVars, ops, allocVars>>

\* A new element is counted first, then linked.
htable_add_count(t) ==
    /\ pc[t] = "crit" /\ op[t] = "add"
    /\ IF Present(buckets[bucket[t]], key[t])
       THEN Return(t, FALSE) /\ UNCHANGED count
       ELSE Goto(t, "count") /\ count' = count + 1 /\ UNCHANGED res
    /\ UNCHANGED <<buckets, sizeVars, op, key, bucket, out, histVars, ops, allocVars>>

htable_add_link(t) ==
    /\ pc[t] = "count" /\ op[t] = "add"
    /\ \E i \in 1..Len(buckets[bucket[t]]) + 1 :
         /\ Place(buckets[bucket[t]], key[t], i)
         /\ buckets' = [buckets EXCEPT ![bucket[t]] = InsertAt(@, i, key[t])]
    /\ may' = [u \in Thread |-> may[u] \cup (IF op[u] = "copy" THEN {key[t]} ELSE {})]
    /\ Return(t, TRUE)
    /\ UNCHANGED <<sizeVars, count, op, key, bucket, out, must, ops, allocVars>>

\* An element is unlinked first, then no longer counted.
htable_remove_unlink(t) ==
    /\ pc[t] = "crit" /\ op[t] = "remove"
    /\ IF key[t] \in Range(buckets[bucket[t]])
       THEN /\ \E i \in 1..Len(buckets[bucket[t]]) :
                 /\ buckets[bucket[t]][i] = key[t]
                 /\ buckets' = [buckets EXCEPT ![bucket[t]] = RemoveAt(@, i)]
            /\ must' = [u \in Thread |-> must[u] \ {key[t]}]
            /\ Goto(t, "count")
       ELSE Goto(t, "idle") /\ UNCHANGED <<buckets, must>>
    /\ UNCHANGED <<sizeVars, count, op, key, bucket, out, res, may, ops, allocVars>>

htable_remove_count(t) ==
    /\ pc[t] = "count" /\ op[t] = "remove"
    /\ count' = count - 1
    /\ Goto(t, "idle")
    /\ UNCHANGED <<buckets, sizeVars, op, key, bucket, out, res, histVars, ops, allocVars>>

\* Mutant: a stripe is taken for one bucket less than it has.
NextBucket_Short(b) == IF (b + 2) % PerLock = 0 THEN b + 2 ELSE b + 1

NextBucket(b) == b + 1

\* Bucket after bucket; a stripe that is done is unlocked at once.
htable_copy_bucket(t) ==
    LET next == NextBucket(bucket[t])
        last == next % PerLock = 0 /\ next \div PerLock >= lock_count
    IN  /\ pc[t] = "crit" /\ op[t] = "copy"
        /\ out' = [out EXCEPT ![t] = @ \o buckets[bucket[t]]]
        /\ bucket' = [bucket EXCEPT ![t] = IF last THEN @ ELSE next]
        /\ Goto(t, IF last THEN "copied" ELSE IF next % PerLock = 0 THEN "stripe" ELSE "crit")
        /\ UNCHANGED <<buckets, sizeVars, count, op, key, res, histVars, ops, allocVars>>

htable_copy_return(t) ==
    /\ pc[t] = "copied"
    /\ Goto(t, "idle")
    /\ op' = [op EXCEPT ![t] = "get"]
    /\ out' = [out EXCEPT ![t] = <<>>]
    /\ must' = [must EXCEPT ![t] = {}] /\ may' = [may EXCEPT ![t] = {}]
    /\ UNCHANGED <<buckets, sizeVars, count, key, bucket, res, ops, allocVars>>

-----------------------------------------------------------------------------
(* htable_resize, under the size lock *)

\* The loop over the threshold, which other threads can read meanwhile.
Enlarge(t) ==
    LET n == (bucket_count * Grow) % Width
    IN  /\ pc[t] = "resize" /\ count >= thres
        /\ IF n < old
           THEN bucket_count' = old /\ Goto(t, "lock") /\ UNCHANGED thres
           ELSE bucket_count' = n /\ thres' = C_THRES_ELEM(n) /\ UNCHANGED pc
        /\ UNCHANGED <<buckets, old, count, op, key, bucket, out, res, histVars, ops, allocVars>>

\* The memory is had: the new buckets are empty, the keys are still to be moved.
Resize(t) ==
    /\ pc[t] = "resize" /\ count < thres
    /\ IF bucket_count = old
       THEN Goto(t, "lock") /\ UNCHANGED <<buckets, bucket>>
       ELSE /\ buckets' = [b \in 0..bucket_count - 1 |-> IF b < old THEN buckets[b] ELSE <<>>]
            /\ bucket' = [bucket EXCEPT ![t] = 0]
            /\ Goto(t, "move")
    /\ UNCHANGED <<sizeVars, count, op, key, out, res, histVars, ops, allocVars>>

\* realloc of the buckets or of the locks, or the initialisation of a lock,
\* fails, and what had grown shrinks again: everything is as it was.
ResizeFails(t) ==
    /\ pc[t] = "resize" /\ count < thres /\ bucket_count # old /\ fails < MaxFails
    /\ fails' = fails + 1
    /\ bucket_count' = old /\ thres' = C_THRES_ELEM(old)
    /\ Goto(t, "lock")
    /\ UNCHANGED <<buckets, old, count, op, key, bucket, out, res, histVars, ops, broken>>

\* Also the realloc that makes the locks or the buckets small again fails.  With
\* the locks the process is aborted.  With the buckets the larger bucket_count
\* and threshold stay, for fewer locks, buckets nobody has cleared and keys
\* nobody has moved: what a later operation does is undefined.
ShrinkFails(t) ==
    /\ pc[t] = "resize" /\ count < thres /\ bucket_count # old /\ fails + 2 <= MaxFails
    /\ fails' = fails + 2
    /\ broken' = TRUE
    /\ UNCHANGED <<buckets, sizeVars, count, threadVars, histVars, ops>>

\* The first node of the bucket whose hash is another bucket's now, into its
\* place there.
MoveNode(t) ==
    LET from == bucket[t]
        c == buckets[from]
    IN  /\ pc[t] = "move"
        /\ \E i \in 1..Len(c) :
             /\ Index(c[i]) # from /\ \A j \in 1..i - 1 : Index(c[j]) = from
             /\ \E p \in 1..Len(buckets[Index(c[i])]) + 1 :
                  /\ Place(buckets[Index(c[i])], c[i], p)
                  /\ buckets' = [buckets EXCEPT ![from] = RemoveAt(@, i),
                                                ![Index(c[i])] = InsertAt(@, p, c[i])]
        /\ UNCHANGED <<sizeVars, count, threadVars, histVars, ops, allocVars>>

\* Mutant: the size lock is not given back after the last bucket.
MoveNext_KeepsLock(t) ==
    /\ pc[t] = "move" /\ bucket[t] < old
    /\ \A i \in DOMAIN buckets[bucket[t]] : Index(buckets[bucket[t]][i]) = bucket[t]
    /\ bucket' = [bucket EXCEPT ![t] = @ + 1]
    /\ UNCHANGED <<buckets, sizeVars, count, pc, op, key, out, res, histVars, ops, allocVars>>

MoveNext(t) ==
    /\ pc[t] = "move"
    /\ \A i \in DOMAIN buckets[bucket[t]] : Index(buckets[bucket[t]][i]) = bucket[t]
    /\ IF bucket[t] + 1 < old
       THEN bucket' = [bucket EXCEPT ![t] = @ + 1] /\ UNCHANGED pc
       ELSE Goto(t, "lock") /\ UNCHANGED bucket
    /\ UNCHANGED <<buckets, sizeVars, count, op, key, out, res, histVars, ops, allocVars>>

-----------------------------------------------------------------------------
Step(t) ==
    \/ TryResize(t) \/ LockSize(t) \/ LockStripe(t)
    \/ htable_get(t) \/ htable_add_count(t) \/ htable_add_link(t)
    \/ htable_remove_unlink(t) \/ htable_remove_count(t)
    \/ htable_copy_bucket(t) \/ htable_copy_return(t)
    \/ Enlarge(t) \/ Resize(t) \/ ResizeFails(t) \/ ShrinkFails(t)
    \/ MoveNode(t) \/ MoveNext(t)

Next ==
    /\ ~broken
    /\ \E t \in Thread :
        \/ Step(t)
        \/ \E k \in Key, o \in {"add", "remove", "get"} : Call(t, o, k)
        \/ Call(t, "copy", None)

\* A thread in the table goes on.  No lock is asked for more.
Spec == Init /\ [][Next]_vars /\ \A t \in Thread : WF_vars(~broken /\ Step(t))

-----------------------------------------------------------------------------
(* Properties *)

\* htable.h as its callers understand it: every operation takes effect at one
\* moment, also while another thread resizes the table.
Names == INSTANCE KeySet WITH set <- Linked, res <- res
ActsAsSet == Names!KeySetSpec

Counting == {t \in Thread : pc[t] = "count"}

\* element_count is never less than the elements linked, and it differs only by
\* the threads between counting and linking: at rest it is exact.
CountExact ==
    count = Cardinality(Linked) + Cardinality(Counting)

\* A user list has everyone once who was there all the time, and nobody who was
\* not there at any time, although it locks one stripe after the other.
ListComplete ==
    \A t \in Thread :
        pc[t] = "copied" =>
            /\ must[t] \subseteq Range(out[t]) /\ Range(out[t]) \subseteq may[t]
            /\ IsInjective(out[t])

\* Every operation returns: trywrlock never waits, and no thread waits for a
\* stripe while it keeps another.  Unless a failed resize could not be undone.
Returns == \A t \in Thread : pc[t] # "idle" ~> pc[t] = "idle" \/ broken

-----------------------------------------------------------------------------
(* The inductive invariant of StripedTableProofs *)

\* The buckets there are: in htable_resize, bucket_count runs ahead of them.
TableSize == IF \E t \in Thread : pc[t] = "resize" THEN old ELSE bucket_count

Label == {"idle", "try", "resize", "move", "lock", "stripe", "crit", "count", "copied"}

TypeOK ==
    /\ {bucket_count, old} \subseteq Nat \ {0} /\ {thres, count} \subseteq Nat
    /\ bucket_count % PerLock = 0 /\ old % PerLock = 0
    /\ buckets \in [0..TableSize - 1 -> Seq(Key)]
    /\ pc \in [Thread -> Label]
    /\ op \in [Thread -> {"get", "add", "remove", "copy"}]
    /\ key \in [Thread -> Key \cup {None}]
    /\ bucket \in [Thread -> Nat]
    /\ out \in [Thread -> Seq(Key)]
    /\ res \in [Thread -> {None} \cup ({"get", "add"} \X Key \X BOOLEAN)]
    /\ must \in [Thread -> SUBSET Key] /\ may \in [Thread -> SUBSET Key]

\* A resize is alone; a stripe has one writer and then no reader.
LockInv ==
    /\ \A t, u \in Thread : t \in SizeWriters => u \notin SizeReaders /\ (u \in SizeWriters => u = t)
    /\ \A t, u \in Thread : t # u /\ Holds(t) /\ Holds(u) /\ Stripe(t) = Stripe(u)
                            => ~Writes(t) /\ ~Writes(u)

\* What a thread knows at each of its steps.  An element that is counted and not
\* yet linked is still new.
ThreadOK(t) ==
    /\ pc[t] # "idle" /\ op[t] # "copy" => key[t] \in Key
    /\ pc[t] \in {"try", "resize", "move"} => op[t] = "add"
    /\ pc[t] = "count" => op[t] \in {"add", "remove"}
    /\ pc[t] = "copied" => op[t] = "copy"
    /\ op[t] = "copy" => pc[t] # "idle"
    /\ pc[t] \in {"stripe", "crit", "count"} =>
         /\ bucket[t] < bucket_count
         /\ op[t] # "copy" => bucket[t] = Index(key[t])
    /\ pc[t] = "count" /\ op[t] = "add" => key[t] \notin Linked
    /\ pc[t] = "resize" => old <= bucket_count
    /\ pc[t] = "move" => bucket[t] < old /\ old < bucket_count

ThreadInv == \A t \in Thread : ThreadOK(t)

Sorted(c) == \A i, j \in 1..Len(c) : i < j => c[i] < c[j]

\* Every chain is sorted, no key is in two, and each is where its hash says,
\* but for the buckets that a resize has still to look at.
ChainInv ==
    /\ \A b \in 0..TableSize - 1 : Sorted(buckets[b])
    /\ \A b, c \in 0..TableSize - 1 : b # c => Range(buckets[b]) \cap Range(buckets[c]) = {}
    /\ \A b \in 0..TableSize - 1 : \A k \in Range(buckets[b]) :
         (\A t \in Thread : pc[t] = "move" => b < bucket[t] \/ old <= b)
         => Hash[k] % TableSize = b

CountInv == CountExact /\ IsFiniteSet(Linked)

\* The list has the keys of the buckets behind, and of those only.
CopyOK(t) ==
    /\ must[t] \subseteq Linked /\ Linked \subseteq may[t]
    /\ Range(out[t]) \subseteq may[t] /\ IsInjective(out[t])
    /\ pc[t] = "lock" => out[t] = <<>>
    /\ pc[t] \in {"stripe", "crit"} =>
         /\ \A k \in Range(out[t]) : Index(k) < bucket[t]
         /\ \A k \in must[t] : Index(k) < bucket[t] => k \in Range(out[t])
    /\ pc[t] = "copied" => must[t] \subseteq Range(out[t])

CopyInv == \A t \in Thread : op[t] = "copy" => CopyOK(t)

IInv == TypeOK /\ LockInv /\ ThreadInv /\ ChainInv /\ CountInv /\ CopyInv
=============================================================================
