--------------------------- MODULE IpBlockProofs ----------------------------
(***************************************************************************)
(* Proofs about IpBlock, for any number of workers, records, connections,   *)
(* and any limit and expiry: the record's reference count is exact, nobody  *)
(* looks at a freed record, and a blocked address stays blocked, unless     *)
(* more of its connections were open than failed_auths can count.           *)
(*                                                                          *)
(* The inductive invariant IInv is in IpBlock.  Each action changes what it *)
(* counts (holders, busy workers, spent connections) for one worker only,   *)
(* so CardStep says all there is to say about cardinalities.                *)
(***************************************************************************)
EXTENDS IpBlock, FiniteSetTheorems, TLAPS

\* Two sets of workers that agree on all but one worker.
LEMMA CardStep ==
    ASSUME NEW S \in SUBSET Worker, NEW T \in SUBSET Worker, NEW w \in Worker,
           \A v \in Worker \ {w} : v \in S <=> v \in T
    PROVE  /\ Cardinality(S) \in Nat /\ Cardinality(T) \in Nat
           /\ Cardinality(T) = Cardinality(S) + (IF w \in T THEN 1 ELSE 0)
                                              - (IF w \in S THEN 1 ELSE 0)
<1>1. IsFiniteSet(S) /\ IsFiniteSet(T)
  BY IpBlockAssumption, FS_Subset
<1>2. Cardinality(S) \in Nat /\ Cardinality(T) \in Nat
  BY <1>1, FS_CardinalityType
<1>3. CASE w \in S <=> w \in T
  <2>1. S = T
    BY <1>3
  <2> QED
    BY <2>1, <1>2
<1>4. CASE w \in S /\ w \notin T
  <2>1. S = T \cup {w}
    BY <1>4
  <2>2. Cardinality(S) = Cardinality(T) + 1
    BY <2>1, <1>1, <1>4, FS_AddElement
  <2> QED
    BY <2>2, <1>2, <1>4
<1>5. CASE w \notin S /\ w \in T
  <2>1. T = S \cup {w}
    BY <1>5
  <2>2. Cardinality(T) = Cardinality(S) + 1
    BY <2>1, <1>1, <1>5, FS_AddElement
  <2> QED
    BY <2>2, <1>2, <1>5
<1> QED
  BY <1>3, <1>4, <1>5

\* Sets of workers are finite; one with a member is not empty.
LEMMA CardType ==
    ASSUME NEW S \in SUBSET Worker
    PROVE  /\ IsFiniteSet(S) /\ Cardinality(S) \in Nat
           /\ \A w \in S : Cardinality(S) >= 1
           /\ S = {} => Cardinality(S) = 0
<1>1. IsFiniteSet(S) /\ Cardinality(S) \in Nat
  BY IpBlockAssumption, FS_Subset, FS_CardinalityType
<1>2. Cardinality(S) = 0 <=> S = {}
  BY <1>1, FS_EmptySet
<1> QED
  BY <1>1, <1>2

\* What the reference count says of a record that is linked or held, and of
\* one that was never made.
LEMMA RefFacts ==
    ASSUME TypeOK, RefCountExact, NEW r \in Rec
    PROVE  /\ ref_cnt[r] = (IF entry = r THEN 1 ELSE 0) + Cardinality(Holders(r))
           /\ Cardinality(Holders(r)) \in Nat
           /\ mem[r] = "live" <=> ref_cnt[r] > 0
           /\ entry = r => mem[r] = "live"
           /\ \A w \in Worker : hold[w] = r => mem[r] = "live" /\ Cardinality(Holders(r)) >= 1
           /\ mem[r] = "unused" => entry # r /\ \A w \in Worker : hold[w] # r
<1>1. /\ ref_cnt[r] = (IF entry = r THEN 1 ELSE 0) + Cardinality(Holders(r))
      /\ mem[r] = "live" <=> ref_cnt[r] > 0
  BY DEF RefCountExact
<1>2. Holders(r) \in SUBSET Worker
  BY DEF Holders
<1>3. Cardinality(Holders(r)) \in Nat /\ \A w \in Holders(r) : Cardinality(Holders(r)) >= 1
  BY <1>2, CardType
<1>4. \A w \in Worker : hold[w] = r => Cardinality(Holders(r)) >= 1
  BY <1>3 DEF Holders
<1> QED
  BY <1>1, <1>3, <1>4

-----------------------------------------------------------------------------
(* The initial state.                                                       *)

LEMMA InitInv == Init => IInv
<1> SUFFICES ASSUME Init
             PROVE  IInv
  OBVIOUS
<1> USE IpBlockAssumption DEF Init
<1>1. TypeOK
  BY DEF TypeOK
<1>2. HoldInv /\ FailInv
  BY DEF HoldInv, FailInv
<1>3. Busy = {} /\ \A r \in Rec : Holders(r) = {}
  BY DEF Busy, Holders
<1>4. Cardinality({}) = 0
  BY FS_EmptySet
<1>5. RefCountExact
  BY <1>3, <1>4 DEF RefCountExact
<1>6. BusyInv
  BY <1>3, <1>4 DEF BusyInv
<1> QED
  BY <1>1, <1>2, <1>5, <1>6 DEF IInv

-----------------------------------------------------------------------------
(* What one worker's move does to the sets that are counted.                *)

LEMMA HoldersMove ==
    ASSUME TypeOK, NEW w \in Worker, NEW x \in Rec \cup {None},
           hold' = [hold EXCEPT ![w] = x], NEW r \in Rec
    PROVE  /\ Cardinality(Holders(r)) \in Nat /\ Cardinality(Holders(r)') \in Nat
           /\ Cardinality(Holders(r)') = Cardinality(Holders(r)) + (IF x = r THEN 1 ELSE 0)
                                              - (IF hold[w] = r THEN 1 ELSE 0)
<1>1. Holders(r) \in SUBSET Worker /\ Holders(r)' \in SUBSET Worker
  BY DEF Holders
<1>2. \A v \in Worker \ {w} : v \in Holders(r) <=> v \in Holders(r)'
  BY DEF Holders, TypeOK
<1>3. /\ w \in Holders(r) <=> hold[w] = r
      /\ w \in Holders(r)' <=> x = r
  BY DEF Holders, TypeOK
<1> HIDE DEF Holders
<1> QED
  BY <1>1, <1>2, <1>3, CardStep

LEMMA BusyMove ==
    ASSUME TypeOK, NEW w \in Worker, NEW l, Goto(w, l)
    PROVE  /\ Cardinality(Busy) \in Nat /\ Cardinality(Busy') \in Nat
           /\ Cardinality(Busy') = Cardinality(Busy) + (IF l # "idle" THEN 1 ELSE 0)
                                              - (IF pc[w] # "idle" THEN 1 ELSE 0)
<1>1. Busy \in SUBSET Worker /\ Busy' \in SUBSET Worker
  BY DEF Busy
<1>2. \A v \in Worker \ {w} : v \in Busy <=> v \in Busy'
  BY DEF Busy, TypeOK, Goto
<1>3. /\ w \in Busy <=> pc[w] # "idle"
      /\ w \in Busy' <=> l # "idle"
  BY DEF Busy, TypeOK, Goto
<1> QED
  BY <1>1, <1>2, <1>3, CardStep

\* A worker that counts a failure or makes the first record is busy, and it is
\* not one of those whose connection is spent.
LEMMA SpentMove ==
    ASSUME TypeOK, NEW w \in Worker, NEW l, Goto(w, l), NEW r \in Rec,
           \A v \in Worker \ {w} : hold'[v] = hold[v]
    PROVE  /\ Cardinality(Spent(r)) \in Nat /\ Cardinality(Spent(r)') \in Nat
           /\ Cardinality(Spent(r)') = Cardinality(Spent(r))
                 + (IF l = "close" \/ (l \in {"chk", "remove"} /\ hold'[w] = r) THEN 1 ELSE 0)
                 - (IF pc[w] = "close" \/ (pc[w] \in {"chk", "remove"} /\ hold[w] = r) THEN 1 ELSE 0)
<1>1. Spent(r) \in SUBSET Worker /\ Spent(r)' \in SUBSET Worker
  BY DEF Spent
<1>2. \A v \in Worker \ {w} : v \in Spent(r) <=> v \in Spent(r)'
  BY DEF Spent, TypeOK, Goto
<1>3. /\ w \in Spent(r) <=> (pc[w] = "close" \/ (pc[w] \in {"chk", "remove"} /\ hold[w] = r))
      /\ w \in Spent(r)' <=> (l = "close" \/ (l \in {"chk", "remove"} /\ hold'[w] = r))
  BY DEF Spent, TypeOK, Goto
<1> HIDE DEF Spent
<1> QED
  BY <1>1, <1>2, <1>3, CardStep

\* The spent connections are among the busy ones, and a worker about to count
\* is not one of them.
LEMMA SpentBusy ==
    ASSUME TypeOK, BusyInv, NEW r \in Rec
    PROVE  /\ Cardinality(Spent(r)) \in Nat
           /\ Cardinality(Spent(r)) <= conns
           /\ \A w \in Worker : pc[w] \in {"count", "add", "put"} => Cardinality(Spent(r)) + 1 <= conns
<1>1. Busy \in SUBSET Worker /\ Spent(r) \in SUBSET Busy
  BY DEF Busy, Spent
<1>2. IsFiniteSet(Busy) /\ Cardinality(Busy) \in Nat /\ Cardinality(Spent(r)) \in Nat
  BY <1>1, CardType
<1>3. Cardinality(Spent(r)) <= Cardinality(Busy)
  BY <1>1, <1>2, FS_Subset
<1>4. ASSUME NEW w \in Worker, pc[w] \in {"count", "add", "put"}
      PROVE  Cardinality(Spent(r)) + 1 <= Cardinality(Busy)
  <2>1. Spent(r) \cup {w} \in SUBSET Busy /\ w \notin Spent(r)
    BY <1>4, <1>1 DEF Spent, Busy
  <2>2. Cardinality(Spent(r) \cup {w}) = Cardinality(Spent(r)) + 1
    BY <2>1, <1>1, <1>2, FS_Subset, FS_AddElement
  <2>3. Cardinality(Spent(r) \cup {w}) <= Cardinality(Busy)
    BY <2>1, <1>2, FS_Subset
  <2> QED
    BY <2>2, <2>3
<1> QED
  BY <1>2, <1>3, <1>4 DEF BusyInv, TypeOK

-----------------------------------------------------------------------------
(* The reference counts.                                                    *)

\* Nothing that is counted changes.
LEMMA RefSame ==
    ASSUME RefCountExact, UNCHANGED <<entry, mem, ref_cnt, hold>>
    PROVE  RefCountExact'
BY DEF RefCountExact, Holders

LEMMA RefGet ==
    ASSUME IInv, NEW w \in Worker, NEW l, hold[w] = None, entry # None, htable_get(w, l)
    PROVE  RefCountExact'
<1> USE DEF IInv
<1>1. entry \in Rec /\ mem[entry] = "live" /\ ref_cnt[entry] \in Nat
  BY RefFacts DEF TypeOK
<1>2. hold' = [hold EXCEPT ![w] = entry] /\ entry' = entry /\ mem' = mem
  BY DEF htable_get
<1> SUFFICES ASSUME NEW r \in Rec
             PROVE  /\ ref_cnt'[r] = (IF entry = r THEN 1 ELSE 0) + Cardinality(Holders(r)')
                    /\ mem[r] = "live" <=> ref_cnt'[r] > 0
  BY <1>2 DEF RefCountExact
<1>3. Cardinality(Holders(r)') = Cardinality(Holders(r)) + (IF entry = r THEN 1 ELSE 0)
  <2>1. hold[w] # r
    BY IpBlockAssumption
  <2>2. /\ Cardinality(Holders(r)) \in Nat
        /\ Cardinality(Holders(r)') = Cardinality(Holders(r)) + (IF entry = r THEN 1 ELSE 0)
                                              - (IF hold[w] = r THEN 1 ELSE 0)
    <3>1. PICK x \in Rec \cup {None} : x = entry
      BY <1>1
    <3>2. TypeOK /\ hold' = [hold EXCEPT ![w] = x]
      BY <1>2, <3>1
    <3>3. /\ Cardinality(Holders(r)) \in Nat
          /\ Cardinality(Holders(r)') = Cardinality(Holders(r)) + (IF x = r THEN 1 ELSE 0)
                                                - (IF hold[w] = r THEN 1 ELSE 0)
      <4> HIDE DEF IInv
      <4> QED
        BY <3>2, HoldersMove, Zenon
    <3> QED
      BY <3>1, <3>3
  <2> QED
    BY <2>1, <2>2
<1>4. ref_cnt'[r] = ref_cnt[r] + (IF entry = r THEN 1 ELSE 0)
  BY <1>1 DEF htable_get, TypeOK
<1> QED
  BY <1>1, <1>3, <1>4, RefFacts

\* The record is created with the table's reference and nobody holds it yet.
LEMMA RefAdd ==
    ASSUME IInv, NEW manual \in BOOLEAN, AddRecord(manual), UNCHANGED hold
    PROVE  RefCountExact'
<1> USE DEF IInv
<1>1. CASE entry # None /\ UNCHANGED <<entry, recVars>>
  BY <1>1, RefSame DEF recVars
<1>2. ASSUME entry = None, NEW q \in Rec, mem[q] = "unused", std_ipb_rec_create(q, manual), entry' = q
      PROVE  RefCountExact'
  <2> SUFFICES ASSUME NEW r \in Rec
               PROVE  /\ ref_cnt'[r] = (IF q = r THEN 1 ELSE 0) + Cardinality(Holders(r))
                      /\ mem'[r] = "live" <=> ref_cnt'[r] > 0
    BY <1>2 DEF RefCountExact, Holders
  <2>1. CASE r = q
    <3>1. Holders(r) = {}
      BY <1>2, <2>1, RefFacts DEF Holders
    <3>2. Cardinality(Holders(r)) = 0
      BY <3>1, FS_EmptySet
    <3> QED
      BY <1>2, <2>1, <3>2 DEF std_ipb_rec_create, TypeOK
  <2>2. CASE r # q
    <3>1. ref_cnt'[r] = ref_cnt[r] /\ mem'[r] = mem[r]
      BY <1>2, <2>2 DEF std_ipb_rec_create, TypeOK
    <3>2. entry # r
      BY <1>2, IpBlockAssumption
    <3> QED
      BY <2>2, <3>1, <3>2, RefFacts
  <2> QED
    BY <2>1, <2>2
<1> QED
  BY <1>1, <1>2 DEF AddRecord

LEMMA RefRemove ==
    ASSUME IInv, RemoveRecord, UNCHANGED hold
    PROVE  RefCountExact'
<1> USE DEF IInv
<1>1. CASE entry = None
  BY <1>1, RefSame DEF RemoveRecord, recVars
<1>2. CASE entry # None
  <2>1. entry \in Rec /\ node_put(entry) /\ entry' = None
    BY <1>2 DEF TypeOK, RemoveRecord
  <2> SUFFICES ASSUME NEW r \in Rec
               PROVE  /\ ref_cnt'[r] = Cardinality(Holders(r))
                      /\ mem'[r] = "live" <=> ref_cnt'[r] > 0
    BY <2>1, IpBlockAssumption, CardType DEF RefCountExact, Holders
  <2>2. ref_cnt[r] \in Nat /\ Cardinality(Holders(r)) \in Nat
    BY RefFacts DEF TypeOK
  <2>3. ref_cnt'[r] = ref_cnt[r] - (IF entry = r THEN 1 ELSE 0)
    BY <2>1, <2>2 DEF node_put, TypeOK
  <2>4. mem'[r] = IF entry = r /\ ref_cnt[r] = 1 THEN "freed" ELSE mem[r]
    BY <2>1 DEF node_put, TypeOK
  <2> QED
    BY <2>2, <2>3, <2>4, RefFacts
<1> QED
  BY <1>1, <1>2

LEMMA RefPut ==
    ASSUME IInv, NEW w \in Worker, hold[w] # None, node_put(hold[w]),
           hold' = [hold EXCEPT ![w] = None], UNCHANGED entry
    PROVE  RefCountExact'
<1> USE DEF IInv
<1>1. hold[w] \in Rec
  BY DEF TypeOK
<1> SUFFICES ASSUME NEW r \in Rec
             PROVE  /\ ref_cnt'[r] = (IF entry = r THEN 1 ELSE 0) + Cardinality(Holders(r)')
                    /\ mem'[r] = "live" <=> ref_cnt'[r] > 0
  BY DEF RefCountExact
<1>2. Cardinality(Holders(r)') = Cardinality(Holders(r)) - (IF hold[w] = r THEN 1 ELSE 0)
  <2>1. r # None
    BY IpBlockAssumption
  <2>2. /\ Cardinality(Holders(r)) \in Nat
        /\ Cardinality(Holders(r)') = Cardinality(Holders(r)) + (IF None = r THEN 1 ELSE 0)
                                              - (IF hold[w] = r THEN 1 ELSE 0)
    BY HoldersMove
  <2> QED
    BY <2>1, <2>2
<1>3. ref_cnt[r] \in Nat /\ ref_cnt'[r] = ref_cnt[r] - (IF hold[w] = r THEN 1 ELSE 0)
  BY <1>1 DEF node_put, TypeOK
<1>4. mem'[r] = IF hold[w] = r /\ ref_cnt[r] = 1 THEN "freed" ELSE mem[r]
  BY <1>1 DEF node_put, TypeOK
<1>5. /\ ref_cnt[r] = (IF entry = r THEN 1 ELSE 0) + Cardinality(Holders(r))
      /\ Cardinality(Holders(r)) \in Nat
      /\ mem[r] = "live" <=> ref_cnt[r] > 0
      /\ hold[w] = r => Cardinality(Holders(r)) >= 1
  BY RefFacts
<1> QED
  BY <1>2, <1>3, <1>4, <1>5

-----------------------------------------------------------------------------
(* The actions of a worker.                                                 *)

LEMMA ConnectStep ==
    ASSUME IInv, NEW w \in Worker, Connect(w)
    PROVE  IInv'
<1> USE IpBlockAssumption DEF IInv
<1>1. conns \in 0..MaxConns /\ conns' = conns + 1 /\ conns' \in 0..MaxConns /\ pc[w] = "idle"
  BY DEF Connect, TypeOK
<1>2. CASE entry = None /\ UNCHANGED <<entry, recVars, now, pc, hold>>
  <2>1. TypeOK'
    BY <1>1, <1>2 DEF TypeOK, recVars
  <2>2. HoldInv' /\ RefCountExact' /\ FailInv'
    BY <1>2, RefSame DEF HoldInv, FailInv, recVars
  <2>3. BusyInv'
    <3>1. Busy' = Busy /\ Cardinality(Busy) \in Nat
      BY <1>2, CardType DEF Busy
    <3> QED
      BY <3>1, <1>1 DEF BusyInv
  <2> QED
    BY <2>1, <2>2, <2>3
<1>3. CASE entry # None /\ htable_get(w, "chk")
  <2>1. entry \in Rec /\ hold[w] = None /\ Goto(w, "chk") /\ hold' = [hold EXCEPT ![w] = entry]
    BY <1>1, <1>3 DEF HoldInv, TypeOK, htable_get
  <2>2. TypeOK'
    BY <1>1, <1>3, <2>1 DEF TypeOK, htable_get, Goto
  <2>3. HoldInv'
    BY <1>3, <2>1 DEF HoldInv, TypeOK, Goto
  <2>4. RefCountExact'
    BY <1>3, <2>1, RefGet
  <2>5. BusyInv'
    <3>1. /\ Cardinality(Busy) \in Nat
          /\ Cardinality(Busy') = Cardinality(Busy) + 1
      BY <1>1, <2>1, BusyMove
    <3> QED
      BY <3>1, <1>1 DEF BusyInv
  <2>6. FailInv'
    <3>1. \A v \in Worker \ {w} : hold'[v] = hold[v]
      BY <2>1 DEF TypeOK
    <3>2. hold'[w] = entry
      BY <2>1 DEF TypeOK
    <3>3. PICK r \in Rec : r = entry
      BY <2>1
    <3>4. /\ Cardinality(Spent(r)) \in Nat
          /\ Cardinality(Spent(r)') = Cardinality(Spent(r)) + 1
      BY <1>1, <2>1, <3>1, <3>2, <3>3, SpentMove
    <3>5. r = entry' /\ is_manual' = is_manual /\ failed_auths' = failed_auths /\ exposed' = exposed
      BY <1>3, <3>3 DEF htable_get
    <3>6. failed_auths[r] \in 0..(UINT8 - 1) /\ exposed[r] \in 0..MaxConns
      BY DEF TypeOK
    <3> QED
      BY <1>1, <3>3, <3>4, <3>5, <3>6 DEF FailInv
  <2> QED
    BY <2>2, <2>3, <2>4, <2>5, <2>6
<1> QED
  BY <1>2, <1>3 DEF Connect

\* A record past the limit sends the worker to "close" or to "remove".
LEMMA CheckStep ==
    ASSUME IInv, NEW w \in Worker, Check(w)
    PROVE  IInv'
<1> USE IpBlockAssumption DEF IInv
<1>1. /\ pc[w] = "chk" /\ hold[w] \in Rec
      /\ UNCHANGED <<entry, mem, ref_cnt, failed_auths, timestamp, is_manual, created, exposed, now, conns, hold>>
  BY DEF Check, HoldInv, TypeOK, recVars
<1>2. PICK l \in {"close", "remove", "put"} :
        /\ Goto(w, l)
        /\ ~ is_manual[hold[w]] /\ failed_auths[hold[w]] >= AUTHBLOCK_FAIL_THRES
           => l # "put"
  <2> DEFINE l == IF chk_std_block(hold[w]) = "BLOCKED" THEN "close"
                  ELSE IF chk_std_block(hold[w]) = "EXPIRED" THEN "remove" ELSE "put"
  <2>1. Goto(w, l) /\ l \in {"close", "remove", "put"}
    BY DEF Check
  <2>2. ~ is_manual[hold[w]] /\ failed_auths[hold[w]] >= AUTHBLOCK_FAIL_THRES => l # "put"
    BY DEF chk_std_block
  <2> HIDE DEF l
  <2> QED
    BY <2>1, <2>2
<1>3. TypeOK'
  BY <1>1, <1>2 DEF TypeOK, Goto
<1>4. HoldInv'
  BY <1>1, <1>2 DEF HoldInv, TypeOK, Goto
<1>5. RefCountExact'
  BY <1>1, RefSame
<1>6. BusyInv'
  <2>1. Cardinality(Busy) \in Nat /\ Cardinality(Busy') = Cardinality(Busy)
    BY <1>1, <1>2, BusyMove
  <2> QED
    BY <2>1, <1>1 DEF BusyInv
<1>7. FailInv'
  <2>1. SUFFICES ASSUME NEW r \in Rec, r = entry,
                        ~ is_manual[r], failed_auths[r] >= AUTHBLOCK_FAIL_THRES
                 PROVE  failed_auths[r] + conns - Cardinality(Spent(r)')
                            <= AUTHBLOCK_FAIL_THRES - 1 + exposed[r]
    BY <1>1 DEF FailInv, TypeOK
  <2>2. failed_auths[r] \in 0..(UINT8 - 1) /\ exposed[r] \in 0..MaxConns /\ conns \in 0..MaxConns
    BY DEF TypeOK
  <2>3. failed_auths[r] + conns - Cardinality(Spent(r)) <= AUTHBLOCK_FAIL_THRES - 1 + exposed[r]
    BY <2>1 DEF FailInv
  <2>4. /\ Cardinality(Spent(r)) \in Nat /\ Cardinality(Spent(r)') \in Nat
        /\ Cardinality(Spent(r)') >= Cardinality(Spent(r))
    <3>1. hold' = hold
      BY <1>1
    <3>2. CASE hold[w] = r
      BY <1>1, <1>2, <2>1, <3>1, <3>2, SpentMove
    <3>3. CASE hold[w] # r
      BY <1>1, <1>2, <3>1, <3>3, SpentMove
    <3> QED
      BY <3>2, <3>3
  <2> QED
    BY <2>2, <2>3, <2>4
<1> QED
  BY <1>3, <1>4, <1>5, <1>6, <1>7

LEMMA RemoveExpiredStep ==
    ASSUME IInv, NEW w \in Worker, RemoveExpired(w)
    PROVE  IInv'
<1> USE IpBlockAssumption DEF IInv
<1>1. /\ pc[w] = "remove" /\ Goto(w, "put") /\ RemoveRecord /\ entry' = None
      /\ UNCHANGED <<now, conns, hold>>
  BY DEF RemoveExpired, RemoveRecord
<1>2. TypeOK'
  <2>1. mem' \in [Rec -> {"unused", "live", "freed"}] /\ ref_cnt' \in [Rec -> Nat]
        /\ UNCHANGED <<failed_auths, timestamp, is_manual, created, exposed>>
    <3>1. CASE entry = None
      BY <1>1, <3>1 DEF RemoveRecord, TypeOK, recVars
    <3>2. CASE entry # None
      <4>1. entry \in Rec /\ ref_cnt[entry] \in Nat /\ ref_cnt[entry] > 0
        BY <3>2, RefFacts DEF TypeOK
      <4> QED
        BY <1>1, <3>2, <4>1 DEF RemoveRecord, node_put, TypeOK
    <3> QED
      BY <3>1, <3>2
  <2> QED
    BY <1>1, <2>1 DEF TypeOK, Goto
<1>3. HoldInv'
  BY <1>1 DEF HoldInv, TypeOK, Goto
<1>4. RefCountExact'
  BY <1>1, RefRemove
<1>5. BusyInv'
  <2>1. Cardinality(Busy) \in Nat /\ Cardinality(Busy') = Cardinality(Busy)
    BY <1>1, BusyMove
  <2> QED
    BY <2>1, <1>1 DEF BusyInv
<1>6. FailInv'
  BY <1>1 DEF FailInv
<1> QED
  BY <1>2, <1>3, <1>4, <1>5, <1>6

LEMMA AuthFailsStep ==
    ASSUME IInv, NEW w \in Worker, AuthFails(w)
    PROVE  IInv'
<1> USE IpBlockAssumption DEF IInv
<1>1. pc[w] = "idle" /\ hold[w] = None /\ conns > Cardinality(Busy) /\ conns' = conns
  BY DEF AuthFails, HoldInv, TypeOK
<1>2. ASSUME NEW l \in {"add", "count"}, Goto(w, l)
      PROVE  BusyInv'
  <2>1. Cardinality(Busy) \in Nat /\ Cardinality(Busy') = Cardinality(Busy) + 1
    BY <1>1, <1>2, BusyMove
  <2> QED
    BY <2>1, <1>1 DEF BusyInv, TypeOK
<1>3. CASE entry = None /\ Goto(w, "add") /\ UNCHANGED <<entry, recVars, now, hold>>
  <2>1. TypeOK' /\ HoldInv'
    BY <1>1, <1>3 DEF TypeOK, HoldInv, recVars, Goto
  <2>2. RefCountExact' /\ FailInv'
    BY <1>3, RefSame DEF FailInv, recVars
  <2> QED
    BY <1>2, <1>3, <2>1, <2>2
<1>4. CASE entry # None /\ htable_get(w, "count")
  <2>1. entry \in Rec /\ Goto(w, "count") /\ hold' = [hold EXCEPT ![w] = entry]
    BY <1>4 DEF TypeOK, htable_get
  <2>2. TypeOK'
    BY <1>1, <1>4, <2>1 DEF TypeOK, htable_get, Goto
  <2>3. HoldInv'
    BY <2>1 DEF HoldInv, TypeOK, Goto
  <2>4. RefCountExact'
    BY <1>1, <1>4, RefGet
  <2>5. FailInv'
    <3>1. \A v \in Worker \ {w} : hold'[v] = hold[v]
      BY <2>1 DEF TypeOK
    <3>2. PICK r \in Rec : r = entry
      BY <2>1
    <3>3. /\ Cardinality(Spent(r)) \in Nat
          /\ Cardinality(Spent(r)') = Cardinality(Spent(r))
      BY <1>1, <2>1, <3>1, SpentMove
    <3>4. r = entry' /\ is_manual' = is_manual /\ failed_auths' = failed_auths /\ exposed' = exposed
      BY <1>4, <3>2 DEF htable_get
    <3> QED
      BY <1>1, <3>2, <3>3, <3>4 DEF FailInv
  <2> QED
    BY <1>2, <2>1, <2>2, <2>3, <2>4, <2>5
<1> QED
  BY <1>3, <1>4 DEF AuthFails

\* The count does not wrap, if the connections that were open at the limit fit
\* above it: past the limit there is room for each connection that can still
\* fail, up to it there is room for one.
LEMMA CountNoWrap ==
    ASSUME IInv, NEW w \in Worker, pc[w] = "count", hold[w] = entry, ~ is_manual[entry],
           ~ MayWrap(entry)
    PROVE  failed_auths[entry] + 1 < UINT8
<1> USE IpBlockAssumption DEF IInv
<1>1. hold[w] # None
  BY DEF HoldInv
<1>2. PICK r \in Rec : r = entry
  BY <1>1 DEF TypeOK
<1>3. failed_auths[r] \in 0..(UINT8 - 1) /\ exposed[r] \in 0..MaxConns /\ conns \in 0..MaxConns
  BY DEF TypeOK
<1>4. Cardinality(Spent(r)) \in Nat /\ Cardinality(Spent(r)) + 1 <= conns
  BY SpentBusy
<1>5. CASE failed_auths[r] >= AUTHBLOCK_FAIL_THRES
  <2>1. failed_auths[r] + conns - Cardinality(Spent(r)) <= AUTHBLOCK_FAIL_THRES - 1 + exposed[r]
    BY <1>1, <1>2, <1>5 DEF FailInv
  <2>2. exposed[r] <= UINT8 - AUTHBLOCK_FAIL_THRES
    BY <1>2, <1>3 DEF MayWrap
  <2> QED
    BY <2>1, <2>2, <1>2, <1>3, <1>4
<1>6. CASE failed_auths[r] < AUTHBLOCK_FAIL_THRES
  BY <1>2, <1>3, <1>6
<1> QED
  BY <1>3, <1>5, <1>6

\* The failure that reaches the limit is one of the connections open then; a
\* count that wraps is under the limit again.
LEMMA CountStep ==
    ASSUME IInv, NEW w \in Worker, Count(w)
    PROVE  IInv'
<1> USE IpBlockAssumption DEF IInv
<1>1. /\ pc[w] = "count" /\ hold[w] \in Rec /\ Goto(w, "close")
      /\ failed_auths' = [failed_auths EXCEPT ![hold[w]] = (@ + 1) % UINT8]
      /\ exposed' = [exposed EXCEPT ![hold[w]] =
                         IF failed_auths[hold[w]] < AUTHBLOCK_FAIL_THRES THEN conns ELSE @]
      /\ UNCHANGED <<entry, mem, ref_cnt, timestamp, is_manual, created, now, conns, hold>>
  BY DEF Count, HoldInv, TypeOK
<1>2. TypeOK'
  <2>1. UINT8 \in Nat \ {0} /\ failed_auths[hold[w]] \in Nat
    BY <1>1 DEF TypeOK
  <2>2. (failed_auths[hold[w]] + 1) % UINT8 \in 0..(UINT8 - 1)
    BY <2>1
  <2>3. exposed' \in [Rec -> 0..MaxConns]
    BY <1>1 DEF TypeOK
  <2> QED
    BY <1>1, <2>2, <2>3 DEF TypeOK, Goto
<1>3. HoldInv'
  BY <1>1 DEF HoldInv, TypeOK, Goto
<1>4. RefCountExact'
  BY <1>1, RefSame
<1>5. BusyInv'
  <2>1. Cardinality(Busy) \in Nat /\ Cardinality(Busy') = Cardinality(Busy)
    BY <1>1, BusyMove
  <2> QED
    BY <2>1, <1>1 DEF BusyInv
<1>6. FailInv'
  <2>1. SUFFICES ASSUME NEW r \in Rec, r = entry,
                        ~ is_manual[r], failed_auths'[r] >= AUTHBLOCK_FAIL_THRES
                 PROVE  failed_auths'[r] + conns - Cardinality(Spent(r)')
                            <= AUTHBLOCK_FAIL_THRES - 1 + exposed'[r]
    BY <1>1 DEF FailInv, TypeOK
  <2>2. failed_auths[r] \in 0..(UINT8 - 1) /\ exposed[r] \in 0..MaxConns /\ conns \in 0..MaxConns
    BY DEF TypeOK
  <2>3. /\ Cardinality(Spent(r)) \in Nat /\ Cardinality(Spent(r)') \in Nat
        /\ Cardinality(Spent(r)') = Cardinality(Spent(r)) + 1
    <3>1. \A v \in Worker \ {w} : hold'[v] = hold[v]
      BY <1>1
    <3> QED
      BY <1>1, <3>1, SpentMove
  <2>4. failed_auths[r] >= AUTHBLOCK_FAIL_THRES
        => failed_auths[r] + conns - Cardinality(Spent(r)) <= AUTHBLOCK_FAIL_THRES - 1 + exposed[r]
    BY <2>1 DEF FailInv
  <2>5. CASE hold[w] = r
    <3>1. failed_auths'[r] = (failed_auths[r] + 1) % UINT8
      BY <1>1, <2>5 DEF TypeOK
    <3>2. failed_auths'[r] <= failed_auths[r] + 1
      <4>1. CASE failed_auths[r] + 1 < UINT8
        BY <2>2, <3>1, <4>1
      <4>2. CASE failed_auths[r] + 1 = UINT8
        <5>1. failed_auths'[r] = 0
          BY <3>1, <4>2
        <5> QED
          BY <5>1, <2>2
      <4> QED
        BY <2>2, <4>1, <4>2
    <3>3. exposed'[r] = IF failed_auths[r] < AUTHBLOCK_FAIL_THRES THEN conns ELSE exposed[r]
      BY <1>1, <2>5 DEF TypeOK
    <3>4. failed_auths'[r] \in Nat
      BY <1>2 DEF TypeOK
    <3>5. CASE failed_auths[r] >= AUTHBLOCK_FAIL_THRES
      BY <2>2, <2>3, <2>4, <3>2, <3>3, <3>4, <3>5
    <3>6. CASE failed_auths[r] < AUTHBLOCK_FAIL_THRES
      BY <2>2, <2>3, <3>2, <3>3, <3>4, <3>6
    <3> QED
      BY <2>2, <3>5, <3>6
  <2>6. CASE hold[w] # r
    <3>1. failed_auths'[r] = failed_auths[r] /\ exposed'[r] = exposed[r]
      BY <1>1, <2>6 DEF TypeOK
    <3> QED
      BY <2>1, <2>2, <2>3, <2>4, <3>1
  <2> QED
    BY <2>5, <2>6
<1> QED
  BY <1>2, <1>3, <1>4, <1>5, <1>6

LEMMA AddFirstStep ==
    ASSUME IInv, NEW w \in Worker, AddFirst(w)
    PROVE  IInv'
<1> USE IpBlockAssumption DEF IInv
<1>1. /\ pc[w] = "add" /\ Goto(w, "idle") /\ AddRecord(FALSE)
      /\ conns' = conns - 1 /\ UNCHANGED <<now, hold>>
  BY DEF AddFirst
<1>2. /\ Cardinality(Busy) \in Nat /\ Cardinality(Busy') \in Nat
      /\ Cardinality(Busy') = Cardinality(Busy) - 1
  BY <1>1, BusyMove
<1>3. conns \in 1..MaxConns /\ conns' \in 0..MaxConns
  BY <1>1, <1>2 DEF BusyInv, TypeOK
<1>4. HoldInv'
  BY <1>1 DEF HoldInv, TypeOK, Goto
<1>5. RefCountExact'
  BY <1>1, RefAdd
<1>6. BusyInv'
  BY <1>1, <1>2, <1>3 DEF BusyInv
<1>7. ASSUME NEW r \in Rec
      PROVE  /\ Cardinality(Spent(r)) \in Nat /\ Cardinality(Spent(r)') \in Nat
             /\ Cardinality(Spent(r)') = Cardinality(Spent(r))
  BY <1>1, SpentMove
<1>8. CASE entry # None /\ UNCHANGED <<entry, recVars>>
  <2>1. TypeOK'
    BY <1>1, <1>3, <1>8 DEF TypeOK, Goto, recVars
  <2>2. FailInv'
    <3>1. PICK r \in Rec : r = entry
      BY <1>8 DEF TypeOK
    <3>2. failed_auths[r] \in 0..(UINT8 - 1) /\ exposed[r] \in 0..MaxConns
      BY DEF TypeOK
    <3>3. r = entry' /\ is_manual' = is_manual /\ failed_auths' = failed_auths /\ exposed' = exposed
      BY <1>8, <3>1 DEF recVars
    <3> QED
      BY <1>1, <1>3, <1>7, <3>1, <3>2, <3>3 DEF FailInv
  <2> QED
    BY <1>4, <1>5, <1>6, <2>1, <2>2
<1>9. ASSUME NEW r \in Rec, mem[r] = "unused", std_ipb_rec_create(r, FALSE), entry' = r
      PROVE  IInv'
  <2>1. 1 \in 0..(UINT8 - 1) /\ now + AUTHBLOCK_EXPIRY \in Nat
    BY <1>3 DEF TypeOK
  <2>2. TypeOK'
    BY <1>1, <1>3, <1>9, <2>1 DEF TypeOK, Goto, std_ipb_rec_create
  <2>3. failed_auths'[r] = 1 /\ exposed'[r] = conns
    BY <1>9 DEF TypeOK, std_ipb_rec_create
  <2>4. FailInv'
    BY <1>1, <1>3, <1>7, <1>9, <2>3 DEF FailInv
  <2> QED
    BY <1>4, <1>5, <1>6, <2>2, <2>4
<1> QED
  BY <1>1, <1>8, <1>9 DEF AddRecord

LEMMA PutStep ==
    ASSUME IInv, NEW w \in Worker, Put(w)
    PROVE  IInv'
<1> USE IpBlockAssumption DEF IInv
<1>1. /\ pc[w] \in {"put", "close"} /\ hold[w] \in Rec /\ hold[w] # None
      /\ Goto(w, "idle") /\ node_put(hold[w]) /\ hold' = [hold EXCEPT ![w] = None]
      /\ conns' = (IF pc[w] = "close" THEN conns - 1 ELSE conns)
      /\ UNCHANGED <<entry, now>>
  BY DEF Put, HoldInv, TypeOK
<1>2. /\ Cardinality(Busy) \in Nat /\ Cardinality(Busy') \in Nat
      /\ Cardinality(Busy') = Cardinality(Busy) - 1
  BY <1>1, BusyMove
<1>3. conns \in 1..MaxConns /\ conns' \in 0..MaxConns
  BY <1>1, <1>2 DEF BusyInv, TypeOK
<1>4. TypeOK'
  <2>1. ref_cnt[hold[w]] \in Nat /\ ref_cnt[hold[w]] > 0
    BY <1>1, RefFacts DEF TypeOK
  <2> QED
    BY <1>1, <1>3, <2>1 DEF TypeOK, Goto, node_put
<1>5. HoldInv'
  BY <1>1 DEF HoldInv, TypeOK, Goto
<1>6. RefCountExact'
  BY <1>1, RefPut
<1>7. BusyInv'
  BY <1>1, <1>2, <1>3 DEF BusyInv
<1>8. FailInv'
  <2>1. SUFFICES ASSUME NEW r \in Rec, r = entry,
                        ~ is_manual[r], failed_auths[r] >= AUTHBLOCK_FAIL_THRES
                 PROVE  failed_auths[r] + conns' - Cardinality(Spent(r)')
                            <= AUTHBLOCK_FAIL_THRES - 1 + exposed[r]
    BY <1>1 DEF FailInv, TypeOK, node_put
  <2>2. failed_auths[r] \in 0..(UINT8 - 1) /\ exposed[r] \in 0..MaxConns
    BY DEF TypeOK
  <2>3. \A v \in Worker \ {w} : hold'[v] = hold[v]
    BY <1>1 DEF TypeOK
  <2>4. /\ Cardinality(Spent(r)) \in Nat /\ Cardinality(Spent(r)') \in Nat
        /\ Cardinality(Spent(r)') = Cardinality(Spent(r)) - (IF pc[w] = "close" THEN 1 ELSE 0)
    BY <1>1, <2>3, SpentMove
  <2>5. failed_auths[r] + conns - Cardinality(Spent(r)) <= AUTHBLOCK_FAIL_THRES - 1 + exposed[r]
    BY <2>1 DEF FailInv
  <2> QED
    BY <1>1, <1>3, <2>2, <2>4, <2>5
<1> QED
  BY <1>4, <1>5, <1>6, <1>7, <1>8

-----------------------------------------------------------------------------
(* The clients, the console and the clock.                                  *)

LEMMA LeavesStep ==
    ASSUME IInv, Leaves
    PROVE  IInv'
<1> USE IpBlockAssumption DEF IInv
<1>1. /\ conns > Cardinality(Busy) /\ conns' = conns - 1
      /\ UNCHANGED <<entry, mem, ref_cnt, failed_auths, timestamp, is_manual, created, exposed, now, pc, hold>>
  BY DEF Leaves, recVars
<1>2. Busy' = Busy /\ Cardinality(Busy) \in Nat
  BY <1>1, CardType DEF Busy
<1>3. conns \in 1..MaxConns /\ conns' \in 0..MaxConns
  BY <1>1, <1>2 DEF TypeOK
<1>4. TypeOK' /\ HoldInv' /\ RefCountExact'
  BY <1>1, <1>3, RefSame DEF TypeOK, HoldInv
<1>5. BusyInv'
  BY <1>1, <1>2, <1>3 DEF BusyInv
<1>6. FailInv'
  <2>1. SUFFICES ASSUME NEW r \in Rec, r = entry,
                        ~ is_manual[r], failed_auths[r] >= AUTHBLOCK_FAIL_THRES
                 PROVE  failed_auths[r] + conns' - Cardinality(Spent(r)')
                            <= AUTHBLOCK_FAIL_THRES - 1 + exposed[r]
    BY <1>1 DEF FailInv, TypeOK
  <2>2. failed_auths[r] \in 0..(UINT8 - 1) /\ exposed[r] \in 0..MaxConns
    BY DEF TypeOK
  <2>3. Cardinality(Spent(r)) \in Nat /\ Spent(r)' = Spent(r)
    BY <1>1, SpentBusy DEF Spent
  <2>4. failed_auths[r] + conns - Cardinality(Spent(r)) <= AUTHBLOCK_FAIL_THRES - 1 + exposed[r]
    BY <2>1 DEF FailInv
  <2> QED
    BY <1>1, <1>3, <2>2, <2>3, <2>4
<1> QED
  BY <1>4, <1>5, <1>6

LEMMA std_ipblockStep ==
    ASSUME IInv, std_ipblock
    PROVE  IInv'
<1> USE IpBlockAssumption DEF IInv
<1>1. AddRecord(TRUE) /\ UNCHANGED <<now, conns, pc, hold>>
  BY DEF std_ipblock
<1>2. HoldInv' /\ BusyInv'
  BY <1>1 DEF HoldInv, BusyInv, Busy
<1>3. RefCountExact'
  BY <1>1, RefAdd
<1>4. CASE entry # None /\ UNCHANGED <<entry, recVars>>
  <2>1. TypeOK' /\ FailInv'
    BY <1>1, <1>4 DEF TypeOK, FailInv, Spent, recVars
  <2> QED
    BY <1>2, <1>3, <2>1
<1>5. ASSUME NEW r \in Rec, std_ipb_rec_create(r, TRUE), entry' = r
      PROVE  IInv'
  <2>1. 0 \in 0..(UINT8 - 1) /\ now + AUTHBLOCK_EXPIRY \in Nat
    BY DEF TypeOK
  <2>2. TypeOK'
    BY <1>1, <1>5, <2>1 DEF TypeOK, std_ipb_rec_create
  <2>3. is_manual'[r]
    BY <1>5 DEF TypeOK, std_ipb_rec_create
  <2>4. FailInv'
    BY <1>5, <2>3 DEF FailInv
  <2> QED
    BY <1>2, <1>3, <2>2, <2>4
<1> QED
  BY <1>1, <1>4, <1>5 DEF AddRecord

LEMMA std_unblockStep ==
    ASSUME IInv, std_unblock
    PROVE  IInv'
<1> USE IpBlockAssumption DEF IInv
<1>1. RemoveRecord /\ entry' = None /\ UNCHANGED <<now, conns, pc, hold>>
  BY DEF std_unblock, RemoveRecord
<1>2. HoldInv' /\ BusyInv' /\ FailInv'
  BY <1>1 DEF HoldInv, BusyInv, Busy, FailInv
<1>3. RefCountExact'
  BY <1>1, RefRemove
<1>4. TypeOK'
  <2>1. CASE entry = None
    BY <1>1, <2>1 DEF RemoveRecord, TypeOK, recVars
  <2>2. CASE entry # None
    <3>1. entry \in Rec /\ ref_cnt[entry] \in Nat /\ ref_cnt[entry] > 0
      BY <2>2, RefFacts DEF TypeOK
    <3> QED
      BY <1>1, <2>2, <3>1 DEF RemoveRecord, node_put, TypeOK
  <2> QED
    BY <2>1, <2>2
<1> QED
  BY <1>2, <1>3, <1>4

\* Nothing but the clock moves.
LEMMA TickStep ==
    ASSUME IInv, Tick \/ UNCHANGED vars
    PROVE  IInv'
<1> USE DEF IInv
<1>1. UNCHANGED <<entry, mem, ref_cnt, failed_auths, timestamp, is_manual, created, exposed, conns, pc, hold>>
  BY DEF Tick, vars, recVars
<1>2. now' \in 0..MaxTime
  BY IpBlockAssumption DEF Tick, vars, TypeOK
<1>3. TypeOK' /\ HoldInv' /\ BusyInv' /\ FailInv'
  BY <1>1, <1>2 DEF TypeOK, HoldInv, BusyInv, Busy, FailInv, Spent
<1>4. RefCountExact'
  BY <1>1, RefSame
<1> QED
  BY <1>3, <1>4

-----------------------------------------------------------------------------
(* The theorems.                                                            *)

LEMMA NextInv == IInv /\ [Next]_vars => IInv'
<1> SUFFICES ASSUME IInv, [Next]_vars
             PROVE  IInv'
  OBVIOUS
<1> QED
  BY ConnectStep, CheckStep, RemoveExpiredStep, AuthFailsStep, CountStep, AddFirstStep,
     PutStep, LeavesStep, std_ipblockStep, std_unblockStep, TickStep DEF Next

\* The inductive invariant holds of the block record in every behaviour.
THEOREM Invariance == Spec => []IInv
  BY InitInv, NextInv, PTL DEF Spec

\* Types: among them, no reference count ever goes below zero and the number
\* of open connections stays one.
THEOREM TypeCorrect == Spec => []TypeOK
<1>1. IInv => TypeOK
  BY DEF IInv
<1> QED
  BY <1>1, Invariance, PTL

\* Lookups and removals of any number of workers and of the console keep the
\* count of std_ipb_rec exact, and free it with the last reference.
THEOREM CountsExact == Spec => []RefCountExact
<1>1. IInv => RefCountExact
  BY DEF IInv
<1> QED
  BY <1>1, Invariance, PTL

\* No worker looks at a record that another or the console has freed.
THEOREM MemorySafe == Spec => []NoDangling
<1>1. IInv => NoDangling
  BY RefFacts DEF IInv, NoDangling, TypeOK
<1> QED
  BY <1>1, Invariance, PTL

\* A blocked address stays blocked while its record lives and has not expired,
\* whatever the number of connections: the count wraps, and lifts the block,
\* only if more of them were open when it came to the limit than fit into the
\* rest of its eight bits.
THEOREM StaysBlocked == Spec => BlockSticks
<1> DEFINE Stick == entry # None /\ entry' = entry /\ chk_std_block(entry) = "BLOCKED"
                    => chk_std_block(entry)' # "NOT_BLOCKED" \/ MayWrap(entry)
<1>1. IInv /\ [Next]_vars => [Stick]_vars
  <2> SUFFICES ASSUME IInv, Next, entry # None, entry' = entry,
                      chk_std_block(entry) = "BLOCKED", ~ MayWrap(entry)
               PROVE  chk_std_block(entry)' # "NOT_BLOCKED"
    BY DEF vars
  <2> USE DEF IInv
  <2>1. PICK r \in Rec : r = entry
    BY DEF TypeOK
  <2>2. mem[r] # "unused"
    BY <2>1, RefFacts
  <2>3. failed_auths[r] \in 0..(UINT8 - 1) /\ exposed[r] \in 0..MaxConns
    BY DEF TypeOK
  <2>4. is_manual'[r] = is_manual[r]
    BY <2>1, <2>2 DEF Next, Connect, Check, RemoveExpired, AuthFails, Count, AddFirst, Put, Leaves,
       std_ipblock, std_unblock, Tick, AddRecord, RemoveRecord, node_put, htable_get,
       std_ipb_rec_create, recVars, TypeOK
  <2>5. \/ failed_auths'[r] = failed_auths[r]
        \/ \E w \in Worker : /\ pc[w] = "count" /\ hold[w] = r
                             /\ failed_auths'[r] = (failed_auths[r] + 1) % UINT8
    BY <2>1, <2>2 DEF Next, Connect, Check, RemoveExpired, AuthFails, Count, AddFirst, Put, Leaves,
       std_ipblock, std_unblock, Tick, AddRecord, RemoveRecord, node_put, htable_get,
       std_ipb_rec_create, recVars, TypeOK
  <2>6. CASE is_manual[r]
    BY <2>1, <2>4, <2>6 DEF chk_std_block
  <2>7. CASE ~ is_manual[r]
    <3>1. failed_auths[r] >= AUTHBLOCK_FAIL_THRES
      BY <2>1, <2>7 DEF chk_std_block
    <3>2. failed_auths'[r] >= AUTHBLOCK_FAIL_THRES
      <4>1. ASSUME NEW w \in Worker, pc[w] = "count", hold[w] = r,
                   failed_auths'[r] = (failed_auths[r] + 1) % UINT8
            PROVE  failed_auths'[r] >= AUTHBLOCK_FAIL_THRES
        <5>1. failed_auths[r] + 1 < UINT8
          BY <2>1, <2>7, <4>1, CountNoWrap
        <5> QED
          BY <2>3, <3>1, <4>1, <5>1, IpBlockAssumption
      <4> QED
        BY <2>5, <3>1, <4>1
    <3> QED
      BY <2>1, <2>4, <2>7, <3>2 DEF chk_std_block
  <2> QED
    BY <2>6, <2>7
<1> QED
  BY <1>1, Invariance, PTL DEF Spec, BlockSticks

=============================================================================
