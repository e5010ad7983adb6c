--------------------------- MODULE MsgQueueProofs ---------------------------
(***************************************************************************)
(* Proofs about MsgQueue, for any finite set of nodes and any senders and   *)
(* producers: the list stays sound and in the order in which messages came, *)
(* the eventfd counts it exactly, and it implements MsgFifo.                *)
(***************************************************************************)
EXTENDS MsgQueue, FiniteSetTheorems, TLAPS

\* Counting the nodes of the list when one enters or leaves it.
LEMMA QueuedFinite == IsFiniteSet(Queued) /\ Cardinality(Queued) \in Nat
BY MsgQueueAssumption, FS_Subset, FS_CardinalityType DEF Queued

LEMMA Entered ==
    ASSUME TypeOK, NEW m \in Message, where[m] # "queue",
           where' = [where EXCEPT ![m] = "queue"]
    PROVE  /\ Queued' = Queued \cup {m} /\ m \notin Queued
           /\ Cardinality(Queued') = Cardinality(Queued) + 1
<1>1. Queued' = Queued \cup {m} /\ m \notin Queued
  BY DEF Queued, TypeOK
<1> QED
  BY <1>1, QueuedFinite, FS_AddElement

LEMMA Left ==
    ASSUME TypeOK, NEW m \in Queued, NEW l \in {"heap", "out"},
           where' = [where EXCEPT ![m] = l]
    PROVE  /\ Queued' = Queued \ {m} /\ m \in Message
           /\ Cardinality(Queued') = Cardinality(Queued) - 1
<1>1. Queued' = Queued \ {m} /\ m \in Message
  BY DEF Queued, TypeOK
<1> QED
  BY <1>1, QueuedFinite, FS_RemoveElement

\* The set of threads in mpscq_enqueue is empty or a singleton.
LEMMA EnqueuingCount ==
    ASSUME IInv
    PROVE  /\ enqueuing = {} \/ \E t : enqueuing = {t}
           /\ enqueuing = {} => Cardinality(enqueuing) = 0
           /\ \A t : enqueuing = {t} => Cardinality(enqueuing) = 1
<1>1. enqueuing = {} \/ \E t : enqueuing = {t}
  BY DEF IInv, LockInv, TypeOK
<1> QED
  BY <1>1, FS_EmptySet, FS_Singleton

\* A node that is both ends of a sound list is all of it.
LEMMA Alone ==
    ASSUME ListSound, Open, head # None, head = tail
    PROVE  Queued = {head}
<1> DEFINE S == Queued \ {head}
<1>0. None \notin Queued
  BY MsgQueueAssumption DEF Queued
<1>1. ASSUME NEW x \in S PROVE prev[x] \in S
  BY <1>0 DEF ListSound
<1>2. S = {}
  BY <1>1 DEF ListSound
<1>3. head \in Queued
  BY DEF ListSound
<1> QED
  BY <1>2, <1>3

-----------------------------------------------------------------------------
(* One lemma per action that touches the list, the mutex or the eventfd.    *)

LEMMA EnqueueLinkStep ==
    ASSUME IInv, NEW t \in Thread, NEW m \in Message, NEW s \in Sender, EnqueueLink(t, m, s)
    PROVE  IInv'
<1> USE DEF IInv
<1>1. /\ Open /\ where[m] = "heap" /\ t \notin enqueuing
      /\ t = Consumer => pc \in {"idle", "ready", "done"}
      /\ where' = [where EXCEPT ![m] = "queue"] /\ older' = [older EXCEPT ![m] = Queued]
      /\ subject' = [subject EXCEPT ![m] = s]
      /\ UNCHANGED <<qmode, eventfd, pc, mnode, name, taken>>
  BY DEF EnqueueLink
<1>2. /\ qmode = "MPSC" => lock = None /\ lock' = t /\ enqueuing' = enqueuing \cup {t}
      /\ qmode = "SPSC" => lock' = lock /\ enqueuing' = enqueuing
  BY DEF EnqueueLink, Acquire
<1>3. /\ Queued' = Queued \cup {m} /\ m \notin Queued
      /\ Cardinality(Queued') = Cardinality(Queued) + 1
  BY <1>1, Entered
<1>4. /\ head' = m
      /\ tail' = IF head = None THEN m ELSE tail
      /\ next' = [next EXCEPT ![m] = head]
      /\ prev' = IF head = None THEN [prev EXCEPT ![m] = None]
                                ELSE [prev EXCEPT ![m] = None, ![head] = m]
  BY DEF EnqueueLink, LinkAtHead
<1>5. TypeOK'
  <2>1. next' \in [Message -> Message \cup {None}] /\ prev' \in [Message -> Message \cup {None}]
    BY <1>4 DEF TypeOK
  <2>2. enqueuing' \in SUBSET Thread /\ lock' \in Thread \cup {None}
    BY <1>2 DEF TypeOK
  <2>3. where' \in [Message -> {"heap", "queue", "out"}] /\ subject' \in [Message -> Sender]
    BY <1>1 DEF TypeOK
  <2>4. older' \in [Message -> SUBSET Message]
    BY <1>1 DEF TypeOK, Queued
  <2> QED BY <1>1, <1>4, <2>1, <2>2, <2>3, <2>4 DEF TypeOK
<1>6. ListSound'
  <2>0. m # None /\ Queued \subseteq Message /\ None \notin Queued /\ Open'
    BY <1>1, MsgQueueAssumption DEF Queued, Open
  <2>l. ListSound!2
    BY <1>1 DEF ListSound
  <2>1. /\ next'[m] = head /\ prev'[m] = None
        /\ \A x \in Message : x # m => next'[x] = next[x]
        /\ \A x \in Message : x # m /\ x # head => prev'[x] = prev[x]
        /\ head # None => head \in Message /\ head # m /\ prev'[head] = m
    <3>1. head # None => head \in Message /\ head # m
      BY <1>3, <2>0, <2>l
    <3> QED BY <3>1, <1>4 DEF TypeOK
  <2>a. ASSUME NEW S \in SUBSET Queued', S # {}
        PROVE  \E x \in S : prev'[x] \notin S
    <3>1. CASE m \in S
      BY <3>1, <2>0, <2>1, <1>3
    <3>2. CASE m \notin S
      <4>1. S \in SUBSET Queued
        BY <3>2, <1>3
      <4>2. PICK x \in S : prev[x] \notin S
        BY <4>1, <2>a, <2>l
      <4>3. prev'[x] = prev[x] \/ prev'[x] = m
        BY <4>1, <4>2, <3>2, <2>0, <2>1
      <4> QED BY <4>2, <4>3, <3>2
    <3> QED BY <3>1, <3>2
  <2>2. CASE head = None
    <3>1. Queued = {} /\ Queued' = {m} /\ tail' = m /\ head' = m
      BY <2>2, <2>l, <1>3, <1>4
    <3> QED BY <3>1, <2>0, <2>1, <2>2, <2>a DEF ListSound
  <2>3. CASE head # None
    <3>1. tail' = tail /\ tail # None /\ head \in Queued /\ tail \in Queued
      BY <2>3, <2>l, <1>4
    <3>2. head' # None /\ tail' # None /\ {head', tail'} \subseteq Queued' \cup {None} /\ Queued' # {}
      BY <3>1, <2>0, <1>3, <1>4
    <3>3. ASSUME NEW x \in Queued'
          PROVE  /\ next'[x] \in Queued' \cup {None}
                 /\ prev'[x] \in Queued' \cup {None}
                 /\ next'[x] = None <=> x = tail'
                 /\ prev'[x] = None <=> x = head'
                 /\ next'[x] # None => prev'[next'[x]] = x
                 /\ prev'[x] # None => next'[prev'[x]] = x
      <4>1. CASE x = m
        BY <4>1, <3>1, <2>0, <2>1, <2>3, <1>3, <1>4
      <4>2. CASE x # m
        <5>1. x \in Queued /\ x \in Message
          BY <4>2, <2>0, <1>3
        <5>2. /\ next'[x] = next[x] /\ next[x] \in Queued \cup {None}
              /\ next[x] = None <=> x = tail
              /\ prev[x] \in Queued \cup {None}
              /\ prev[x] = None <=> x = head
          BY <5>1, <4>2, <2>1, <2>l
        <5>3. next[x] # None => next[x] # head /\ prev'[next[x]] = x
          <6> SUFFICES ASSUME next[x] # None PROVE next[x] # head /\ prev'[next[x]] = x
            OBVIOUS
          <6>1. next[x] \in Queued /\ prev[next[x]] = x /\ next[x] # m
            BY <5>1, <5>2, <2>l, <1>3
          <6>2. next[x] # head
            BY <6>1, <5>1, <3>1, <2>0, <2>l
          <6> QED BY <6>1, <6>2, <2>0, <2>1
        <5>4. CASE x = head
          <6>1. prev'[x] = m /\ next'[m] = x
            BY <5>4, <2>1, <2>3
          <6> QED BY <6>1, <5>2, <5>3, <4>2, <3>1, <2>0, <1>3, <1>4
        <5>5. CASE x # head
          <6>1. prev'[x] = prev[x] /\ prev[x] \in Queued /\ next[prev[x]] = x
            BY <5>1, <5>2, <5>5, <4>2, <2>1, <2>l
          <6>2. prev[x] # m /\ next'[prev[x]] = x
            BY <6>1, <2>0, <2>1, <1>3
          <6> QED BY <6>1, <6>2, <5>2, <5>3, <4>2, <3>1, <2>0, <1>3, <1>4
        <5> QED BY <5>4, <5>5
      <4> QED BY <4>1, <4>2
    <3> QED BY <3>2, <3>3, <2>a DEF ListSound
  <2> QED BY <2>2, <2>3
<1>7. LockInv'
  <2>1. CASE qmode = "SPSC"
    BY <2>1, <1>1, <1>2 DEF LockInv
  <2>2. CASE qmode = "MPSC"
    <3>1. enqueuing' = {t} /\ lock' = t /\ ~ InList /\ t # None
      BY <2>2, <1>2, MsgQueueAssumption DEF LockInv, Thread
    <3> QED BY <3>1, <2>2, <1>1 DEF LockInv, InList
  <2> QED BY <2>1, <2>2 DEF TypeOK
<1>8. EventfdExact'
  <2> SUFFICES ASSUME qmode = "MPSC" PROVE EventfdExact!2'
    BY <1>1 DEF EventfdExact
  <2>1. lock = None /\ enqueuing = {} /\ enqueuing' = {t} /\ pc # "unlink"
    BY <1>2 DEF LockInv, InList
  <2>2. Cardinality(enqueuing) = 0 /\ Cardinality(enqueuing') = 1
    BY <2>1, FS_EmptySet, FS_Singleton
  <2>3. Cardinality(Queued) = eventfd
    BY <2>1, <2>2, <1>1 DEF EventfdExact, TypeOK
  <2> QED BY <2>1, <2>2, <2>3, <1>1, <1>3 DEF TypeOK
<1>9. CallInv'
  <2>1. m # taken
    BY <1>1 DEF CallInv
  <2>2. \A x \in Message : where'[x] = "out" <=> x = taken
    BY <2>1, <1>1 DEF CallInv, TypeOK
  <2>3. pc = "unlink" => tail' # None
    BY <1>4, MsgQueueAssumption DEF CallInv
  <2> QED BY <2>2, <2>3, <1>1, <1>3 DEF CallInv
<1> QED
  BY <1>5, <1>6, <1>7, <1>8, <1>9

\* Steps that leave the list alone.
LEMMA ListFrame ==
    ASSUME ListSound, UNCHANGED <<linkVars, where>>, Open' => Open
    PROVE  ListSound' /\ Queued' = Queued
BY DEF ListSound, linkVars, Queued

LEMMA EnqueueSignalStep ==
    ASSUME IInv, NEW t \in Thread, EnqueueSignal(t)
    PROVE  IInv'
<1> USE DEF IInv
<1>1. /\ t \in enqueuing /\ enqueuing' = enqueuing \ {t} /\ eventfd' = eventfd + 1
      /\ UNCHANGED <<qmode, linkVars, subject, pc, mnode, name, taken, where, older>>
  BY DEF EnqueueSignal
<1>2. qmode = "MPSC" /\ lock' = None /\ lock # None /\ enqueuing = {lock} /\ ~ InList
  BY <1>1 DEF EnqueueSignal, Release, LockInv, TypeOK
<1>3. enqueuing = {t} /\ enqueuing' = {}
  BY <1>1, <1>2
<1>4. ListSound' /\ Queued' = Queued
  BY <1>1, ListFrame DEF Open
<1>5. TypeOK'
  BY <1>1, <1>2, <1>3 DEF TypeOK, linkVars
<1>6. LockInv'
  BY <1>1, <1>2, <1>3 DEF LockInv, InList
<1>7. EventfdExact'
  <2>1. Cardinality(enqueuing) = 1 /\ Cardinality(enqueuing') = 0
    BY <1>3, FS_EmptySet, FS_Singleton
  <2> SUFFICES ASSUME Open PROVE EventfdExact!2'
    BY <1>1 DEF EventfdExact, Open
  <2>2. Cardinality(Queued) = eventfd + 1 + 0
    BY <2>1, <1>2 DEF EventfdExact, InList
  <2> QED BY <2>1, <2>2, <1>1, <1>2, <1>4 DEF TypeOK, InList
<1>8. CallInv'
  BY <1>1, <1>4 DEF CallInv, TypeOK, linkVars
<1> QED
  BY <1>4, <1>5, <1>6, <1>7, <1>8

LEMMA PollStep ==
    ASSUME IInv, Poll \/ DequeueNothing \/ FreeTaken
    PROVE  IInv'
<1> USE DEF IInv, At
<1>1. CASE Poll
  <2>1. ListSound' /\ Queued' = Queued
    BY <1>1, ListFrame DEF Poll, Open, linkVars
  <2>2. TypeOK' /\ LockInv' /\ CallInv'
    BY <1>1, <2>1 DEF Poll, TypeOK, LockInv, InList, CallInv, linkVars
  <2>3. EventfdExact'
    BY <1>1, <2>1 DEF Poll, EventfdExact, Open
  <2> QED BY <2>1, <2>2, <2>3
<1>2. CASE DequeueNothing
  <2>1. ListSound' /\ Queued' = Queued
    BY <1>2, ListFrame DEF DequeueNothing, Open, linkVars
  <2>2. TypeOK' /\ LockInv' /\ CallInv'
    BY <1>2, <2>1 DEF DequeueNothing, TypeOK, LockInv, InList, CallInv, linkVars
  <2>3. EventfdExact'
    BY <1>2, <2>1 DEF DequeueNothing, EventfdExact, Open
  <2> QED BY <2>1, <2>2, <2>3
<1>3. CASE FreeTaken
  <2>1. /\ pc = "done" /\ pc' = "idle" /\ where' = [where EXCEPT ![taken] = "heap"] /\ taken' = None
        /\ UNCHANGED <<qmode, head, tail, next, prev, subject, eventfd, lock, enqueuing, mnode, name, older>>
    BY <1>3 DEF FreeTaken, linkVars
  <2>2. taken \in Message /\ where[taken] = "out"
    BY <2>1 DEF CallInv, TypeOK
  <2>3. Queued' = Queued
    BY <2>1, <2>2 DEF Queued, TypeOK
  <2>4. ListSound'
    BY <2>1, <2>3 DEF ListSound, Open
  <2>5. TypeOK' /\ LockInv'
    BY <2>1 DEF TypeOK, LockInv, InList
  <2>6. CallInv'
    <3>1. \A x \in Message : where'[x] # "out" /\ x # None
      BY <2>1, <2>2, MsgQueueAssumption DEF CallInv, TypeOK
    <3> QED BY <3>1, <2>1, <2>3 DEF CallInv
  <2>7. EventfdExact'
    BY <2>1, <2>3 DEF EventfdExact, Open
  <2> QED BY <2>4, <2>5, <2>6, <2>7
<1> QED
  BY <1>1, <1>2, <1>3

LEMMA DequeueStartStep ==
    ASSUME IInv, DequeueStart
    PROVE  IInv'
<1> USE DEF IInv, At
<1>1. /\ pc = "ready" /\ pc' = "unlink" /\ tail # None /\ Consumer \notin enqueuing
      /\ UNCHANGED <<qmode, linkVars, subject, enqueuing, mnode, name, taken, where, older>>
  BY DEF DequeueStart
<1>2. /\ qmode = "MPSC" => lock = None /\ lock' = Consumer /\ eventfd > 0 /\ eventfd' = eventfd - 1
      /\ qmode = "SPSC" => lock' = lock /\ eventfd' = eventfd
  BY <1>1 DEF DequeueStart, Acquire, eventfd_read, CallInv
<1>3. ListSound' /\ Queued' = Queued
  BY <1>1, ListFrame DEF Open
<1>4. TypeOK'
  BY <1>1, <1>2 DEF TypeOK, linkVars, Thread
<1>5. LockInv'
  BY <1>1, <1>2, MsgQueueAssumption DEF LockInv, InList, TypeOK
<1>6. EventfdExact'
  <2> SUFFICES ASSUME qmode = "MPSC" PROVE EventfdExact!2'
    BY <1>1 DEF EventfdExact
  <2>1. enqueuing = {} /\ Cardinality(enqueuing) = 0
    BY <1>2, FS_EmptySet DEF LockInv
  <2>2. Cardinality(Queued) = eventfd + 0 + 0
    BY <2>1, <1>1 DEF EventfdExact, Open
  <2> QED BY <2>1, <2>2, <1>1, <1>2, <1>3 DEF TypeOK
<1>7. CallInv'
  BY <1>1, <1>3 DEF CallInv, TypeOK, linkVars
<1> QED
  BY <1>3, <1>4, <1>5, <1>6, <1>7

LEMMA DequeueUnlinkStep ==
    ASSUME IInv, DequeueUnlink
    PROVE  IInv'
<1> USE DEF IInv, At
<1>1. /\ pc = "unlink" /\ pc' = "done" /\ Consumer \notin enqueuing
      /\ head' = IF prev[tail] = None THEN None ELSE head
      /\ next' = IF prev[tail] = None THEN next ELSE [next EXCEPT ![prev[tail]] = None]
      /\ tail' = prev[tail]
      /\ prev' = [prev EXCEPT ![tail] = None]
      /\ taken' = tail
      /\ where' = [where EXCEPT ![tail] = "out"]
      /\ older' = [x \in Message |-> IF x = tail THEN {} ELSE older[x] \ {tail}]
      /\ UNCHANGED <<qmode, subject, eventfd, enqueuing, mnode, name>>
  BY DEF DequeueUnlink, Leave
<1>2. /\ qmode = "MPSC" => lock # None /\ lock' = None /\ enqueuing = {}
      /\ qmode = "SPSC" => lock' = lock
  BY <1>1 DEF DequeueUnlink, Release, LockInv, InList
<1>l. ListSound!2 /\ tail # None /\ tail \in Queued
  BY <1>1 DEF ListSound, CallInv, Open
<1>3. /\ Queued' = Queued \ {tail} /\ tail \in Message
      /\ Cardinality(Queued') = Cardinality(Queued) - 1
  BY <1>1, <1>l, Left
<1>4. TypeOK'
  <2>1. prev[tail] # None => prev[tail] \in Message
    BY <1>3 DEF TypeOK
  <2>2. next' \in [Message -> Message \cup {None}] /\ prev' \in [Message -> Message \cup {None}]
    BY <2>1, <1>1, <1>3 DEF TypeOK
  <2>3. where' \in [Message -> {"heap", "queue", "out"}]
    BY <1>1, <1>3 DEF TypeOK
  <2>4. lock' \in Thread \cup {None}
    BY <1>2 DEF TypeOK
  <2>5. older' \in [Message -> SUBSET Message]
    BY <1>1 DEF TypeOK
  <2> QED BY <1>1, <1>3, <2>2, <2>3, <2>4, <2>5 DEF TypeOK
<1>5. ListSound'
  <2>0. None \notin Queued /\ Queued \subseteq Message
    BY MsgQueueAssumption DEF Queued
  <2>1. ASSUME NEW S \in SUBSET Queued', S # {}
        PROVE  \E x \in S : prev'[x] \notin S
    <3>1. S \in SUBSET Queued /\ \A x \in S : x \in Message /\ prev'[x] = prev[x]
      BY <2>0, <1>1, <1>3 DEF TypeOK
    <3> QED BY <3>1, <2>1, <1>l
  <2>2. CASE prev[tail] = None
    <3>1. head = tail
      BY <2>2, <1>l
    <3>2. Queued' = {} /\ head' = None /\ tail' = None
      BY <3>1, <2>0, <2>2, <1>1, <1>3, <1>l, Alone
    <3> QED BY <3>2, <2>1 DEF ListSound
  <2>3. CASE prev[tail] # None
    <3> SUFFICES ASSUME NEW p, p = prev[tail] PROVE ListSound'
      OBVIOUS
    <3>1. /\ p \in Queued /\ p # tail /\ next[p] = tail /\ p # None
          /\ head # tail /\ head # None /\ head \in Queued
      BY <2>0, <2>3, <1>l
    <3>2. /\ head' = head /\ tail' = p /\ next'[p] = None
          /\ \A x \in Queued' : x # p => next'[x] = next[x]
          /\ \A x \in Queued' : prev'[x] = prev[x] /\ x \in Queued /\ x # tail
          /\ p \in Queued' /\ head \in Queued'
      BY <3>1, <2>0, <2>3, <1>1, <1>3 DEF TypeOK
    <3>3. ASSUME NEW x \in Queued'
          PROVE  /\ next'[x] \in Queued' \cup {None}
                 /\ prev'[x] \in Queued' \cup {None}
                 /\ next'[x] = None <=> x = tail'
                 /\ prev'[x] = None <=> x = head'
                 /\ next'[x] # None => prev'[next'[x]] = x
                 /\ prev'[x] # None => next'[prev'[x]] = x
      <4>1. /\ x \in Queued /\ x # tail /\ prev'[x] = prev[x]
            /\ next[x] \in Queued /\ next[x] # None /\ prev[next[x]] = x
            /\ prev[x] \in Queued \cup {None}
            /\ prev[x] = None <=> x = head
        BY <3>2, <2>0, <1>l
      <4>2. prev[x] # None => prev[x] # tail /\ prev[x] \in Queued' /\ next[prev[x]] = x /\ prev[x] # p
        BY <4>1, <3>1, <2>0, <1>3, <1>l
      <4>3. CASE x = p
        BY <4>1, <4>2, <4>3, <3>1, <3>2, <2>0
      <4>4. CASE x # p
        <5>1. next[x] # tail /\ next[x] \in Queued' /\ next'[x] = next[x]
          BY <4>1, <4>4, <3>2, <1>3
        <5> QED BY <5>1, <4>1, <4>2, <4>4, <3>2, <2>0
      <4> QED BY <4>3, <4>4
    <3> QED BY <3>2, <3>3, <3>1, <2>0, <2>1 DEF ListSound
  <2> QED BY <2>2, <2>3
<1>6. LockInv'
  BY <1>1, <1>2 DEF LockInv, InList
<1>7. EventfdExact'
  <2> SUFFICES ASSUME qmode = "MPSC" PROVE EventfdExact!2'
    BY <1>1 DEF EventfdExact
  <2>1. enqueuing = {} /\ Cardinality(enqueuing) = 0
    BY <1>2, FS_EmptySet
  <2>2. Cardinality(Queued) = eventfd + 0 + 1
    BY <2>1, <1>1 DEF EventfdExact, Open
  <2> QED BY <2>1, <2>2, <1>1, <1>3 DEF TypeOK
<1>8. CallInv'
  <2>1. taken = None /\ mnode = None /\ tail # None
    BY <1>1, <1>l DEF CallInv
  <2>2. \A x \in Message : where'[x] = "out" <=> x = tail
    BY <2>1, <1>1, <1>3, MsgQueueAssumption DEF CallInv, TypeOK
  <2> QED BY <2>1, <2>2, <1>1 DEF CallInv
<1> QED
  BY <1>4, <1>5, <1>6, <1>7, <1>8

\* Taking the mutex for a flush, moving its cursor and giving it back.
LEMMA FlushWalkStep ==
    ASSUME IInv, FlushStart \/ FlushSkip \/ FlushEnd
    PROVE  IInv'
<1> USE DEF IInv, At
<1>0. /\ UNCHANGED <<qmode, linkVars, subject, eventfd, enqueuing, taken, where, older>>
      /\ pc \in {"done", "flush"} /\ pc' \in {"done", "flush"} /\ Consumer \notin enqueuing
  BY DEF FlushStart, FlushSkip, FlushEnd
<1>1. ListSound' /\ Queued' = Queued /\ Open
  BY <1>0, ListFrame DEF Open
<1>2. EventfdExact'
  BY <1>0, <1>1 DEF EventfdExact, Open
<1>n. None \notin Queued /\ None \notin Sender /\ Consumer # None
  BY MsgQueueAssumption DEF Queued
<1>3. CASE FlushStart
  <2>1. /\ pc = "done" /\ qmode = "MPSC" /\ lock = None /\ lock' = Consumer
        /\ mnode' = head /\ name' = subject[taken] /\ pc' = "flush"
    BY <1>3 DEF FlushStart, Acquire
  <2>2. taken \in Message /\ subject[taken] \in Sender
    BY <2>1 DEF CallInv, TypeOK
  <2>3. TypeOK'
    BY <2>1, <2>2, <1>0 DEF TypeOK, linkVars, Thread
  <2>4. LockInv'
    BY <2>1, <1>0, <1>n DEF LockInv, InList
  <2>5. CallInv'
    BY <2>1, <2>2, <1>0, <1>1, <1>n DEF CallInv, ListSound, linkVars
  <2> QED BY <2>3, <2>4, <2>5, <1>1, <1>2
<1>4. CASE FlushSkip
  <2>1. pc = "flush" /\ mnode # None /\ mnode' = next[mnode] /\ UNCHANGED <<lock, pc, name>>
    BY <1>4 DEF FlushSkip
  <2>2. mnode \in Queued /\ next[mnode] \in Queued \cup {None}
    BY <2>1, <1>1 DEF CallInv, ListSound
  <2>3. TypeOK' /\ LockInv'
    BY <2>1, <2>2, <1>0 DEF TypeOK, LockInv, InList, Queued, linkVars
  <2>4. CallInv'
    BY <2>1, <2>2, <1>0, <1>1 DEF CallInv, linkVars
  <2> QED BY <2>3, <2>4, <1>1, <1>2
<1>5. CASE FlushEnd
  <2>1. pc = "flush" /\ mnode = None /\ mnode' = None /\ name' = None /\ pc' = "done"
    BY <1>5 DEF FlushEnd
  <2>2. qmode = "MPSC" /\ lock' = None /\ lock = Consumer /\ enqueuing = {}
    BY <2>1, <1>5 DEF FlushEnd, Release, LockInv, InList, TypeOK
  <2>3. TypeOK' /\ LockInv'
    BY <2>1, <2>2, <1>0 DEF TypeOK, LockInv, InList, linkVars
  <2>4. CallInv'
    BY <2>1, <1>0, <1>1 DEF CallInv, linkVars
  <2> QED BY <2>3, <2>4, <1>1, <1>2
<1> QED
  BY <1>3, <1>4, <1>5

\* Unlinking any node of a sound list leaves it sound.
LEMMA UnlinkSound ==
    ASSUME TypeOK, Open, Open', ListSound, NEW m \in Queued, Unlink(m), Queued' = Queued \ {m}
    PROVE  ListSound'
<1> SUFFICES ASSUME NEW p, NEW n, p = prev[m], n = next[m] PROVE ListSound'
  OBVIOUS
<1>0. None \notin Queued /\ Queued \subseteq Message /\ m # None
  BY MsgQueueAssumption DEF Queued
<1>l. ListSound!2
  BY DEF ListSound
<1>1. /\ tail' = IF tail = m THEN p ELSE tail
      /\ head' = IF p = None THEN n ELSE head
      /\ next' = [x \in Message |-> IF x = m THEN None ELSE IF x = p THEN n ELSE next[x]]
      /\ prev' = [x \in Message |-> IF x = m THEN None ELSE IF x = n THEN p ELSE prev[x]]
  BY DEF Unlink
<1>2. /\ p \in Queued \cup {None} /\ n \in Queued \cup {None}
      /\ p = None <=> m = head
      /\ n = None <=> m = tail
      /\ p # None => next[p] = m
      /\ n # None => prev[n] = m
  BY <1>l
<1>3. p # m /\ n # m
  <2>1. \E x \in {m} : prev[x] \notin {m}
    BY <1>l
  <2>2. p # m
    BY <2>1
  <2> QED BY <2>2, <1>2, <1>0
<1>4. /\ \A x \in Queued' : x \in Queued /\ x # m /\ x \in Message
      /\ \A x \in Queued' : next'[x] = IF x = p THEN n ELSE next[x]
      /\ \A x \in Queued' : prev'[x] = IF x = n THEN p ELSE prev[x]
  BY <1>0, <1>1
<1>5. ASSUME NEW S \in SUBSET Queued', S # {}
      PROVE  \E x \in S : prev'[x] \notin S
  <2>1. S \in SUBSET Queued /\ S \cup {m} \in SUBSET Queued /\ m \notin S
    BY <1>4
  <2>2. PICK x \in S : prev[x] \notin S
    BY <2>1, <1>5, <1>l
  <2>3. CASE x # n \/ p \notin S
    BY <2>2, <2>3, <1>4
  <2>4. CASE x = n /\ p \in S
    <3>1. PICK y \in S \cup {m} : prev[y] \notin S \cup {m}
      BY <2>1, <1>l
    <3>2. y # m /\ y # n
      BY <3>1, <2>2, <2>4, <2>1, <1>0, <1>2
    <3> QED BY <3>1, <3>2, <1>4
  <2> QED BY <2>3, <2>4
<1>6. ASSUME NEW x \in Queued'
      PROVE  /\ next'[x] \in Queued' \cup {None}
             /\ next'[x] = None <=> x = tail'
             /\ next'[x] # None => prev'[next'[x]] = x
  <2>1. /\ x \in Queued /\ x # m /\ next[x] \in Queued \cup {None}
        /\ next[x] = None <=> x = tail
        /\ next[x] # None => prev[next[x]] = x
    BY <1>4, <1>l
  <2>2. CASE x = p
    <3>1. next'[x] = n /\ n \in Queued' \cup {None} /\ p # None
      BY <2>1, <2>2, <1>0, <1>2, <1>3, <1>4
    <3>2. n = None <=> x = tail'
      BY <2>1, <2>2, <3>1, <1>1, <1>2, <1>3, <1>0
    <3>3. n # None => prev'[n] = x
      BY <3>1, <2>2, <1>4
    <3> QED BY <3>1, <3>2, <3>3
  <2>3. CASE x # p
    <3>1. next[x] # m /\ next'[x] = next[x]
      BY <2>1, <2>3, <1>0, <1>4
    <3>2. next[x] # None => next[x] \in Queued' /\ next[x] # n
      BY <3>1, <2>1, <1>2, <1>0
    <3>3. next[x] # None => prev'[next[x]] = x
      BY <3>2, <2>1, <1>4
    <3>4. x = tail <=> x = tail'
      BY <2>1, <2>3, <1>1
    <3> QED BY <3>1, <3>2, <3>3, <3>4, <2>1
  <2> QED BY <2>2, <2>3
<1>7. ASSUME NEW x \in Queued'
      PROVE  /\ prev'[x] \in Queued' \cup {None}
             /\ prev'[x] = None <=> x = head'
             /\ prev'[x] # None => next'[prev'[x]] = x
  <2>1. /\ x \in Queued /\ x # m /\ prev[x] \in Queued \cup {None}
        /\ prev[x] = None <=> x = head
        /\ prev[x] # None => next[prev[x]] = x
    BY <1>4, <1>l
  <2>2. CASE x = n
    <3>1. prev'[x] = p /\ p \in Queued' \cup {None} /\ n # None
      BY <2>1, <2>2, <1>0, <1>2, <1>3, <1>4
    <3>2. p = None <=> x = head'
      <4>1. x # head
        BY <2>1, <2>2, <1>0, <1>2
      <4> QED BY <4>1, <2>2, <1>1
    <3>3. p # None => next'[p] = x
      BY <3>1, <2>2, <1>4
    <3> QED BY <3>1, <3>2, <3>3
  <2>3. CASE x # n
    <3>1. prev[x] # m /\ prev'[x] = prev[x]
      BY <2>1, <2>3, <1>4, <1>0
    <3>2. prev[x] # None => prev[x] \in Queued' /\ prev[x] # p
      BY <3>1, <2>1, <1>2, <1>0
    <3>3. prev[x] # None => next'[prev[x]] = x
      BY <3>2, <2>1, <1>4
    <3>4. x = head <=> x = head'
      BY <2>1, <2>3, <1>1, <1>2
    <3> QED BY <3>1, <3>2, <3>3, <3>4, <2>1
  <2> QED BY <2>2, <2>3
<1>8. /\ head' = None <=> Queued' = {}
      /\ tail' = None <=> Queued' = {}
      /\ {head', tail'} \subseteq Queued' \cup {None}
  <2>1. CASE p = None /\ n = None
    <3>1. Queued' = {}
      BY <2>1, <1>0, <1>2, <1>l, Alone
    <3> QED BY <3>1, <2>1, <1>1, <1>2
  <2>2. CASE p = None /\ n # None
    BY <2>2, <1>0, <1>1, <1>2, <1>3, <1>l
  <2>3. CASE p # None
    BY <2>3, <1>0, <1>1, <1>2, <1>3, <1>l
  <2> QED BY <2>1, <2>2, <2>3
<1> QED
  BY <1>5, <1>6, <1>7, <1>8 DEF ListSound

LEMMA FlushOneStep ==
    ASSUME IInv, FlushOne
    PROVE  IInv'
<1> USE DEF IInv, At
<1>1. /\ pc = "flush" /\ mnode # None /\ Unlink(mnode) /\ mnode' = next[mnode]
      /\ where' = [where EXCEPT ![mnode] = "heap"] /\ eventfd_read /\ Consumer \notin enqueuing
      /\ older' = [x \in Message |-> IF x = mnode THEN {} ELSE older[x] \ {mnode}]
      /\ UNCHANGED <<qmode, subject, lock, enqueuing, pc, name, taken>>
  BY DEF FlushOne, Leave
<1>2. mnode \in Queued /\ qmode = "MPSC" /\ enqueuing = {}
  BY <1>1 DEF CallInv, LockInv, InList, TypeOK
<1>3. /\ Queued' = Queued \ {mnode} /\ mnode \in Message
      /\ Cardinality(Queued') = Cardinality(Queued) - 1
  BY <1>1, <1>2, Left
<1>4. Open /\ Open'
  BY <1>1 DEF Open
<1>5. ListSound'
  BY <1>1, <1>2, <1>3, <1>4, UnlinkSound
<1>6. Cardinality(enqueuing) = 0 /\ Cardinality(Queued) = eventfd /\ eventfd > 0 /\ eventfd' = eventfd - 1
  <2>1. Cardinality(enqueuing) = 0
    BY <1>2, FS_EmptySet
  <2>2. Cardinality(Queued) = eventfd + 0 + 0
    BY <2>1, <1>1, <1>2, <1>4 DEF EventfdExact
  <2>3. Cardinality(Queued') \in Nat
    BY <1>3, QueuedFinite, FS_RemoveElement, FS_CardinalityType
  <2>4. Cardinality(Queued) = eventfd /\ eventfd > 0
    BY <2>2, <2>3, <1>3 DEF TypeOK
  <2> QED BY <2>1, <2>4, <1>1, <1>2 DEF eventfd_read
<1>7. EventfdExact'
  BY <1>1, <1>3, <1>6 DEF EventfdExact, TypeOK
<1>8. LockInv'
  BY <1>1, <1>2 DEF LockInv, InList
<1>9. next[mnode] \in Queued' \cup {None}
  <2>1. \E x \in {mnode} : prev[x] \notin {mnode}
    BY <1>2, <1>4 DEF ListSound
  <2> QED BY <2>1, <1>2, <1>3, <1>4 DEF ListSound
<1>10. TypeOK'
  <2>1. /\ tail' \in Message \cup {None} /\ head' \in Message \cup {None}
        /\ next' \in [Message -> Message \cup {None}]
        /\ prev' \in [Message -> Message \cup {None}]
    BY <1>1, <1>3 DEF Unlink, TypeOK
  <2>2. where' \in [Message -> {"heap", "queue", "out"}] /\ mnode' \in Message \cup {None}
    BY <1>1, <1>3 DEF TypeOK
  <2>3. older' \in [Message -> SUBSET Message]
    BY <1>1 DEF TypeOK
  <2> QED BY <2>1, <2>2, <2>3, <1>1, <1>6 DEF TypeOK
<1>11. CallInv'
  <2>1. mnode # taken
    BY <1>2 DEF CallInv, Queued
  <2>2. \A x \in Message : where'[x] = "out" <=> x = taken
    BY <2>1, <1>1 DEF CallInv, TypeOK
  <2> QED BY <2>2, <1>1, <1>9 DEF CallInv
<1> QED
  BY <1>5, <1>7, <1>8, <1>10, <1>11

LEMMA DestroyStep ==
    ASSUME IInv, SeqInv, DestroyStart \/ DestroyOne \/ DestroyEnd
    PROVE  IInv'
<1> USE DEF IInv, At
<1>1. /\ pc \in {"idle", "destroy"} /\ pc' \in {"destroy", "destroyed"} /\ taken' = taken
      /\ UNCHANGED <<qmode, head, tail, next, prev, subject, eventfd, enqueuing, name>>
  BY DEF DestroyStart, DestroyOne, DestroyEnd, linkVars
<1>2. ListSound' /\ EventfdExact'
  BY <1>1 DEF ListSound, EventfdExact, Open
<1>n. Consumer # None /\ Consumer \in Thread /\ None \notin Message
  BY MsgQueueAssumption DEF Thread
<1>3. CASE DestroyStart
  <2>1. /\ pc = "idle" /\ pc' = "destroy" /\ enqueuing = {} /\ mnode' = head /\ UNCHANGED <<where, older>>
        /\ qmode = "MPSC" => lock = None /\ lock' = Consumer
        /\ qmode = "SPSC" => lock' = lock
    BY <1>3 DEF DestroyStart, Acquire
  <2>2. head \in Queued \cup {None} /\ Queued' = Queued
    BY <2>1 DEF ListSound, Open, Queued
  <2>3. TypeOK'
    BY <1>1, <1>n, <2>1 DEF TypeOK
  <2>4. LockInv'
    BY <1>1, <1>n, <2>1 DEF LockInv, InList
  <2>5. CallInv'
    BY <1>1, <2>1, <2>2 DEF CallInv
  <2> QED BY <1>2, <2>3, <2>4, <2>5
<1>4. CASE DestroyOne
  <2>1. /\ pc = "destroy" /\ pc' = "destroy" /\ mnode # None /\ mnode' = next[mnode] /\ lock' = lock
        /\ where' = [where EXCEPT ![mnode] = "heap"]
        /\ older' = [x \in Message |-> IF x = mnode THEN {} ELSE older[x] \ {mnode}]
    BY <1>4 DEF DestroyOne, Leave
  <2>2. mnode \in Queued /\ mnode \in Message
    BY <2>1 DEF CallInv, Queued
  <2>3. Queued' = Queued \ {mnode}
    BY <2>1, <2>2, Left
  <2>4. next[mnode] \in Queued' \cup {None}
    BY <2>2, <2>3 DEF SeqInv, LinkInv, UpTo
  <2>5. TypeOK'
    BY <1>1, <2>1, <2>2 DEF TypeOK
  <2>6. LockInv'
    BY <1>1, <2>1 DEF LockInv, InList
  <2>7. \A x \in Message : where'[x] = "out" <=> x = taken
    BY <2>1, <2>2 DEF CallInv, Queued, TypeOK
  <2>8. CallInv'
    BY <1>1, <2>1, <2>4, <2>7 DEF CallInv
  <2> QED BY <1>2, <2>5, <2>6, <2>8
<1>5. CASE DestroyEnd
  <2>1. /\ pc = "destroy" /\ pc' = "destroyed" /\ mnode = None /\ UNCHANGED <<mnode, where, older>>
        /\ qmode = "MPSC" => lock' = None
        /\ qmode = "SPSC" => lock' = lock
    BY <1>5 DEF DestroyEnd, Release
  <2>2. qmode = "MPSC" => enqueuing = {}
    BY <2>1 DEF LockInv, InList
  <2>3. TypeOK'
    BY <1>1, <2>1 DEF TypeOK
  <2>4. LockInv'
    BY <1>1, <2>1, <2>2 DEF LockInv, InList
  <2>5. CallInv'
    BY <1>1, <2>1 DEF CallInv, Queued
  <2> QED BY <1>2, <2>3, <2>4, <2>5
<1> QED
  BY <1>3, <1>4, <1>5

-----------------------------------------------------------------------------
(* The order of the list.                                                   *)

\* A message is unlinked, or freed with nothing linked to it.
LEMMA RemoveOne ==
    ASSUME TypeOK, LinkInv, NEW m \in Queued, Queued' = Queued \ {m},
           older' = [x \in Message |-> IF x = m THEN {} ELSE older[x] \ {m}],
           \A x \in Queued \ {m} : next'[x] = (IF next[x] = m THEN next[m] ELSE next[x])
    PROVE  /\ LinkInv'
           /\ next[m] # m /\ older[m] = UpTo(next[m]) /\ UpTo(m) = older[m] \cup {m} /\ m \notin older[m]
           /\ \A k \in Message \cup {None} : k # m => (IF k = None THEN {} ELSE older'[k] \cup {k}) = UpTo(k) \ {m}
<1>0. m \in Message /\ m # None /\ None \notin Message /\ Queued \subseteq Message
  BY MsgQueueAssumption DEF Queued
<1>1. m \notin older[m]
  BY <1>0 DEF LinkInv
<1>2. older[m] = UpTo(next[m]) /\ UpTo(m) = older[m] \cup {m}
  BY <1>0 DEF LinkInv, UpTo
<1>3. next[m] # m
  BY <1>0, <1>1, <1>2 DEF UpTo
<1>4. ASSUME NEW k \in Message \cup {None}, k # m
      PROVE  (IF k = None THEN {} ELSE older'[k] \cup {k}) = UpTo(k) \ {m}
  <2>1. CASE k = None
    BY <2>1 DEF UpTo
  <2>2. CASE k # None
    <3>1. older'[k] = older[k] \ {m}
      BY <1>4, <2>2
    <3> QED
      BY <1>4, <2>2, <3>1 DEF UpTo
  <2> QED
    BY <2>1, <2>2
<1>5. \A x \in Message : older'[x] \subseteq Queued' /\ (x \notin Queued' => older'[x] = {})
  BY <1>0 DEF LinkInv
<1>6. \A x, y \in Message : y \in older'[x] => x \notin older'[y]
  <2> SUFFICES ASSUME NEW x \in Message, NEW y \in Message, y \in older'[x]
               PROVE  x \notin older'[y]
    OBVIOUS
  <2>1. y \in older[x] /\ x \notin older[y]
    BY DEF LinkInv
  <2> QED
    BY <2>1
<1>7. ASSUME NEW x \in Queued'
      PROVE  older'[x] = (IF next'[x] = None THEN {} ELSE older'[next'[x]] \cup {next'[x]})
  <2>1. x \in Queued \ {m} /\ older'[x] = older[x] \ {m} /\ older[x] = UpTo(next[x]) /\ next[x] \in Message \cup {None}
    BY <1>0 DEF LinkInv, TypeOK
  <2>2. next[m] \in Message \cup {None}
    BY <1>0 DEF TypeOK
  <2>3. CASE next[x] = m
    <3>1. next'[x] = next[m]
      BY <2>1, <2>3
    <3>2. older'[x] = UpTo(next[m]) \ {m}
      BY <1>1, <1>2, <2>1, <2>3
    <3> QED
      BY <1>3, <1>4, <2>2, <3>1, <3>2
  <2>4. CASE next[x] # m
    <3>1. next'[x] = next[x]
      BY <2>1, <2>4
    <3> QED
      BY <1>4, <2>1, <2>4, <3>1
  <2> QED
    BY <2>3, <2>4
<1>8. LinkInv'
  BY <1>5, <1>6, <1>7 DEF LinkInv, UpTo
<1> QED
  BY <1>1, <1>2, <1>3, <1>4, <1>8

LEMMA EnqueueSeq ==
    ASSUME IInv, SeqInv, NEW t \in Thread, NEW m \in Message, NEW s \in Sender, EnqueueLink(t, m, s)
    PROVE  SeqInv'
<1>1. /\ Open /\ where[m] = "heap" /\ where' = [where EXCEPT ![m] = "queue"] /\ pc' = pc
      /\ older' = [older EXCEPT ![m] = Queued] /\ next' = [next EXCEPT ![m] = head] /\ head' = m
  BY DEF EnqueueLink, LinkAtHead
<1>2. Queued' = Queued \cup {m} /\ m \notin Queued /\ TypeOK /\ LinkInv /\ Queued = UpTo(head)
  BY <1>1, Entered DEF IInv, SeqInv, WalkInv
<1>3. pc # "flush"
  BY DEF EnqueueLink, Acquire, IInv, LockInv, InList, TypeOK
<1>4. m # None /\ None \notin Message /\ Queued \subseteq Message
  BY MsgQueueAssumption DEF Queued
<1>5. /\ older'[m] = Queued /\ next'[m] = head
      /\ \A x \in Message : x # m => older'[x] = older[x] /\ next'[x] = next[x] /\ m \notin older[x]
  BY <1>1, <1>2 DEF LinkInv, TypeOK
<1>6. \A x \in Message : older'[x] \subseteq Queued' /\ (x \notin Queued' => older'[x] = {})
  BY <1>2, <1>5 DEF LinkInv
<1>7. \A x, y \in Message : y \in older'[x] => x \notin older'[y]
  BY <1>2, <1>5 DEF LinkInv
<1>8. ASSUME NEW x \in Queued'
      PROVE  older'[x] = (IF next'[x] = None THEN {} ELSE older'[next'[x]] \cup {next'[x]})
  <2>1. CASE x = m
    <3>1. head # m
      BY <1>2, <1>4 DEF UpTo
    <3>2. head # None => older'[head] = older[head]
      BY <1>2, <1>5, <3>1 DEF TypeOK
    <3> QED
      BY <1>2, <1>5, <2>1, <3>2 DEF UpTo
  <2>2. CASE x # m
    <3>1. x \in Queued /\ older'[x] = older[x] /\ next'[x] = next[x] /\ older[x] = UpTo(next[x]) /\ m \notin older[x]
      BY <1>2, <1>4, <1>5, <2>2 DEF LinkInv
    <3>2. next[x] # None => next[x] \in Message /\ next[x] # m
      BY <1>4, <3>1 DEF UpTo, TypeOK, IInv
    <3>3. next[x] # None => older'[next[x]] = older[next[x]]
      BY <1>5, <3>2
    <3> QED
      BY <3>1, <3>3 DEF UpTo
  <2> QED
    BY <2>1, <2>2
<1>9. LinkInv'
  BY <1>6, <1>7, <1>8 DEF LinkInv, UpTo
<1>10. WalkInv'
  BY <1>1, <1>2, <1>3, <1>4, <1>5 DEF WalkInv, UpTo, Open
<1> QED
  BY <1>9, <1>10 DEF SeqInv

\* Steps that move no message into or out of the list.
LEMMA StillSeq ==
    ASSUME IInv, SeqInv,
           \/ \E t \in Thread : EnqueueSignal(t)
           \/ Poll \/ DequeueStart \/ DequeueNothing \/ FreeTaken
           \/ FlushStart \/ FlushSkip \/ FlushEnd \/ DestroyStart \/ DestroyEnd \/ UNCHANGED vars
    PROVE  SeqInv'
<1> USE DEF At
<1>1. /\ UNCHANGED <<head, next, subject, older>>
      /\ UNCHANGED where \/ FreeTaken
  BY DEF EnqueueSignal, Poll, DequeueStart, DequeueNothing, FreeTaken, FlushStart, FlushSkip, FlushEnd,
         DestroyStart, DestroyEnd, vars, linkVars
<1>2. Queued' = Queued
  <2>1. CASE UNCHANGED where
    BY <2>1 DEF Queued
  <2>2. CASE FreeTaken
    <3>1. where' = [where EXCEPT ![taken] = "heap"] /\ pc = "done"
      BY <2>2 DEF FreeTaken
    <3>2. taken \in Message /\ where[taken] = "out"
      BY <3>1 DEF IInv, CallInv, TypeOK
    <3> QED
      BY <3>1, <3>2 DEF Queued, IInv, TypeOK
  <2> QED
    BY <1>1, <2>1, <2>2
<1>3. LinkInv'
  BY <1>1, <1>2 DEF SeqInv, LinkInv, UpTo
<1>4. WalkInv'
  <2>1. CASE FlushStart
    <3>1. pc = "done" /\ pc' = "flush" /\ mnode' = head
      BY <2>1 DEF FlushStart
    <3> QED
      BY <1>1, <1>2, <3>1 DEF SeqInv, WalkInv, UpTo, Open
  <2>2. CASE FlushSkip
    <3>1. pc = "flush" /\ pc' = pc /\ mnode # None /\ mnode' = next[mnode] /\ subject[mnode] # name /\ name' = name
      BY <2>2 DEF FlushSkip
    <3>2. mnode \in Queued /\ older[mnode] = UpTo(next[mnode])
      BY <3>1 DEF IInv, CallInv, SeqInv, LinkInv
    <3>3. {m \in Queued : subject[m] = name} \subseteq UpTo(next[mnode])
      BY <3>1, <3>2 DEF SeqInv, WalkInv, UpTo
    <3> QED
      BY <1>1, <1>2, <3>1, <3>3 DEF SeqInv, WalkInv, UpTo, Open
  <2>3. CASE DestroyStart
    <3>1. pc = "idle" /\ pc' = "destroy" /\ mnode' = head
      BY <2>3 DEF DestroyStart
    <3> QED
      BY <1>1, <1>2, <3>1 DEF SeqInv, WalkInv, UpTo, Open
  <2>4. CASE DestroyEnd
    <3>1. pc = "destroy" /\ pc' = "destroyed" /\ mnode = None
      BY <2>4 DEF DestroyEnd
    <3> QED
      BY <1>1, <1>2, <3>1 DEF SeqInv, WalkInv, UpTo, Open
  <2>5. CASE ~(FlushStart \/ FlushSkip \/ DestroyStart \/ DestroyEnd)
    <3>1. \/ pc' = pc /\ mnode' = mnode /\ name' = name
          \/ pc' \in {"idle", "ready", "unlink", "done"} /\ pc \in {"idle", "ready", "done", "flush"}
      BY <2>5 DEF EnqueueSignal, Poll, DequeueStart, DequeueNothing, FreeTaken, FlushEnd, vars, callVars
    <3> QED
      BY <1>1, <1>2, <3>1 DEF SeqInv, WalkInv, UpTo, Open
  <2> QED
    BY <2>1, <2>2, <2>3, <2>4, <2>5
<1> QED
  BY <1>3, <1>4 DEF SeqInv

LEMMA DequeueSeq ==
    ASSUME IInv, SeqInv, DequeueUnlink
    PROVE  SeqInv'
<1>1. /\ pc = "unlink" /\ pc' = "done"
      /\ head' = (IF prev[tail] = None THEN None ELSE head)
      /\ next' = (IF prev[tail] = None THEN next ELSE [next EXCEPT ![prev[tail]] = None])
      /\ where' = [where EXCEPT ![tail] = "out"]
      /\ older' = [x \in Message |-> IF x = tail THEN {} ELSE older[x] \ {tail}]
  BY DEF DequeueUnlink, At, Leave
<1>2. TypeOK /\ ListSound /\ Open /\ LinkInv /\ tail \in Queued /\ tail # None /\ Queued = UpTo(head)
  BY <1>1 DEF IInv, SeqInv, WalkInv, ListSound, CallInv, Open
<1>3. Queued' = Queued \ {tail} /\ tail \in Message /\ None \notin Queued /\ Queued \subseteq Message
  BY <1>1, <1>2, Left, MsgQueueAssumption DEF Queued
<1>4. \A x \in Queued \ {tail} : next'[x] = (IF next[x] = tail THEN next[tail] ELSE next[x])
  <2>1. next[tail] = None /\ prev[tail] \in Queued \cup {None}
    BY <1>2 DEF ListSound
  <2>2. \A x \in Queued : next[x] = tail <=> (x = prev[tail])
    BY <1>2, <1>3 DEF ListSound
  <2> QED
    BY <1>1, <1>2, <1>3, <2>1, <2>2 DEF TypeOK
<1>5. PICK m \in Queued : m = tail
  BY <1>2
<1>6. /\ LinkInv'
      /\ \A k \in Message \cup {None} : k # m => (IF k = None THEN {} ELSE older'[k] \cup {k}) = UpTo(k) \ {m}
  BY <1>1, <1>2, <1>3, <1>4, <1>5, RemoveOne
<1>7. Queued' = UpTo(head)'
  <2>1. CASE prev[tail] = None
    <3>1. head = tail /\ head # None
      BY <1>2, <2>1 DEF ListSound
    <3>2. Queued' = {} /\ head' = None
      BY <1>1, <1>2, <1>3, <2>1, <3>1, Alone
    <3> QED
      BY <3>2 DEF UpTo
  <2>2. CASE prev[tail] # None
    <3>1. head' = head /\ head # tail /\ head \in Message \cup {None}
      BY <1>1, <1>2, <2>2 DEF ListSound, TypeOK
    <3> QED
      BY <1>2, <1>3, <1>5, <1>6, <3>1 DEF UpTo
  <2> QED
    BY <2>1, <2>2
<1>8. WalkInv'
  BY <1>1, <1>7 DEF WalkInv, Open
<1> QED
  BY <1>6, <1>8 DEF SeqInv

LEMMA FlushSeq ==
    ASSUME IInv, SeqInv, FlushOne
    PROVE  SeqInv'
<1>1. /\ pc = "flush" /\ mnode # None /\ Unlink(mnode) /\ mnode' = next[mnode]
      /\ where' = [where EXCEPT ![mnode] = "heap"] /\ UNCHANGED <<pc, name, subject>>
      /\ older' = [x \in Message |-> IF x = mnode THEN {} ELSE older[x] \ {mnode}]
  BY DEF FlushOne, At, Leave
<1>2. TypeOK /\ ListSound /\ Open /\ LinkInv /\ mnode \in Queued /\ Queued = UpTo(head)
  BY <1>1 DEF IInv, SeqInv, WalkInv, CallInv, Open
<1>3. Queued' = Queued \ {mnode} /\ mnode \in Message /\ None \notin Queued /\ Queued \subseteq Message
  BY <1>1, <1>2, Left, MsgQueueAssumption DEF Queued
<1>4. \A x \in Queued \ {mnode} : next'[x] = (IF next[x] = mnode THEN next[mnode] ELSE next[x])
  <2>1. \A x \in Queued : next[x] = mnode <=> (x = prev[mnode])
    BY <1>2, <1>3 DEF ListSound
  <2>2. next' = [x \in Message |-> IF x = mnode THEN None ELSE IF x = prev[mnode] THEN next[mnode] ELSE next[x]]
    BY <1>1 DEF Unlink
  <2> QED
    BY <1>3, <2>1, <2>2
<1>5. PICK m \in Queued : m = mnode
  BY <1>2
<1>6. /\ LinkInv'
      /\ next[m] # m /\ older[m] = UpTo(next[m]) /\ UpTo(m) = older[m] \cup {m} /\ m \notin older[m]
      /\ \A k \in Message \cup {None} : k # m => (IF k = None THEN {} ELSE older'[k] \cup {k}) = UpTo(k) \ {m}
  BY <1>1, <1>2, <1>3, <1>4, <1>5, RemoveOne
<1>7. PICK n \in Message \cup {None} : n = next[m]
  BY <1>3, <1>5 DEF IInv, TypeOK
<1>8. (IF n = None THEN {} ELSE older'[n] \cup {n}) = UpTo(m) \ {m}
  BY <1>6, <1>7
<1>9. Queued' = UpTo(head)'
  <2>1. head' = (IF prev[mnode] = None THEN next[mnode] ELSE head)
    BY <1>1 DEF Unlink
  <2>2. CASE prev[mnode] = None
    <3>1. head = m /\ head' = n
      BY <1>2, <1>5, <1>7, <2>1, <2>2 DEF ListSound
    <3> QED
      BY <1>2, <1>3, <1>5, <1>8, <3>1 DEF UpTo
  <2>3. CASE prev[mnode] # None
    <3>1. head' = head /\ head # m /\ head \in Message \cup {None}
      BY <1>2, <1>5, <2>1, <2>3 DEF ListSound, TypeOK
    <3> QED
      BY <1>2, <1>3, <1>5, <1>6, <3>1 DEF UpTo
  <2> QED
    BY <2>2, <2>3
<1>10. {x \in Queued' : subject'[x] = name'} \subseteq UpTo(mnode)'
  <2>1. {x \in Queued : subject[x] = name} \subseteq UpTo(m)
    BY <1>1, <1>5 DEF SeqInv, WalkInv
  <2>2. mnode' = n
    BY <1>1, <1>5, <1>7
  <2>3. {x \in Queued' : subject'[x] = name'} \subseteq UpTo(m) \ {m}
    BY <1>1, <1>3, <1>5, <2>1
  <2> QED
    BY <1>8, <2>2, <2>3 DEF UpTo
<1>11. WalkInv'
  BY <1>1, <1>9, <1>10 DEF WalkInv, Open
<1> QED
  BY <1>6, <1>11 DEF SeqInv

LEMMA DestroySeq ==
    ASSUME IInv, SeqInv, DestroyOne
    PROVE  SeqInv'
<1>1. /\ pc = "destroy" /\ pc' = pc /\ mnode # None /\ mnode' = next[mnode] /\ next' = next
      /\ where' = [where EXCEPT ![mnode] = "heap"]
      /\ older' = [x \in Message |-> IF x = mnode THEN {} ELSE older[x] \ {mnode}]
  BY DEF DestroyOne, At, Leave, linkVars
<1>2. TypeOK /\ LinkInv /\ mnode \in Queued /\ Queued = UpTo(mnode)
  BY <1>1 DEF IInv, SeqInv, WalkInv, CallInv
<1>3. Queued' = Queued \ {mnode} /\ mnode \in Message /\ None \notin Queued /\ Queued \subseteq Message
  BY <1>1, <1>2, Left, MsgQueueAssumption DEF Queued
<1>4. \A x \in Queued \ {mnode} : next'[x] = (IF next[x] = mnode THEN next[mnode] ELSE next[x])
  <2> SUFFICES ASSUME NEW x \in Queued \ {mnode}
               PROVE  next[x] # mnode
    BY <1>1
  <2>1. x \in older[mnode]
    BY <1>1, <1>2 DEF UpTo
  <2>2. mnode \notin older[x] /\ older[x] = UpTo(next[x])
    BY <1>2, <1>3, <2>1 DEF LinkInv
  <2> QED
    BY <1>1, <2>2 DEF UpTo
<1>5. PICK m \in Queued : m = mnode
  BY <1>2
<1>6. /\ LinkInv'
      /\ next[m] # m /\ older[m] = UpTo(next[m]) /\ UpTo(m) = older[m] \cup {m} /\ m \notin older[m]
      /\ \A k \in Message \cup {None} : k # m => (IF k = None THEN {} ELSE older'[k] \cup {k}) = UpTo(k) \ {m}
  BY <1>1, <1>2, <1>3, <1>4, <1>5, RemoveOne
<1>7. PICK n \in Message \cup {None} : n = next[m]
  BY <1>3, <1>5 DEF IInv, TypeOK
<1>8. (IF n = None THEN {} ELSE older'[n] \cup {n}) = UpTo(m) \ {m}
  BY <1>6, <1>7
<1>9. Queued' = UpTo(mnode)'
  <2>1. mnode' = n
    BY <1>1, <1>5, <1>7
  <2> QED
    BY <1>2, <1>3, <1>5, <1>8, <2>1 DEF UpTo
<1>10. WalkInv'
  BY <1>1, <1>9 DEF WalkInv, Open
<1> QED
  BY <1>6, <1>10 DEF SeqInv

LEMMA StepSeq == IInv /\ SeqInv /\ [Next]_vars => SeqInv'
BY EnqueueSeq, StillSeq, DequeueSeq, FlushSeq, DestroySeq DEF Next, ConsumerStep, Destroyed

-----------------------------------------------------------------------------
(* The theorems.                                                            *)

LEMMA InitHolds == Init => IInv /\ SeqInv
<1> SUFFICES ASSUME Init PROVE IInv /\ SeqInv
  OBVIOUS
<1>1. Queued = {} /\ Cardinality(Queued) = 0 /\ Cardinality(enqueuing) = 0
  BY FS_EmptySet DEF Init, Queued
<1>2. TypeOK
  BY DEF Init, TypeOK
<1>3. ListSound
  BY <1>1 DEF Init, ListSound
<1>4. EventfdExact
  BY <1>1 DEF Init, EventfdExact
<1>5. LockInv /\ CallInv
  BY MsgQueueAssumption DEF Init, LockInv, CallInv, InList
<1>6. SeqInv
  BY <1>1 DEF Init, SeqInv, LinkInv, WalkInv, UpTo
<1> QED
  BY <1>2, <1>3, <1>4, <1>5, <1>6 DEF IInv

LEMMA StepHolds == IInv /\ SeqInv /\ [Next]_vars => IInv'
<1> SUFFICES ASSUME IInv, SeqInv, [Next]_vars PROVE IInv'
  OBVIOUS
<1>1. ASSUME NEW t \in Thread, NEW m \in Message, NEW s \in Sender, EnqueueLink(t, m, s) PROVE IInv'
  BY <1>1, EnqueueLinkStep
<1>2. ASSUME NEW t \in Thread, EnqueueSignal(t) PROVE IInv'
  BY <1>2, EnqueueSignalStep
<1>3. CASE ConsumerStep
  BY <1>3, PollStep, DequeueStartStep, DequeueUnlinkStep, FlushWalkStep, FlushOneStep, DestroyStep DEF ConsumerStep
<1>5. CASE UNCHANGED vars
  <2>1. UNCHANGED <<qmode, head, tail, next, prev, subject, eventfd, lock, enqueuing, pc, mnode, name, taken, where, older>>
    BY <1>5 DEF vars, linkVars, callVars
  <2>2. ListSound' /\ Queued' = Queued
    BY <2>1, ListFrame DEF IInv, Open, linkVars
  <2>3. TypeOK' /\ LockInv' /\ CallInv'
    BY <2>1, <2>2 DEF IInv, TypeOK, LockInv, CallInv, InList
  <2>4. EventfdExact'
    BY <2>1, <2>2 DEF IInv, EventfdExact, Open
  <2> QED BY <2>2, <2>3, <2>4 DEF IInv
<1> QED
  BY <1>1, <1>2, <1>3, <1>5 DEF Next, Destroyed

\* IInv and SeqInv, the list and its order, the counter, the mutex and what the
\* consumer knows taken together, hold in every state of mpscq_enqueue, mpscq_dequeue,
\* mpscq_flush_msgs_with_subject and mpscq_destroy.
THEOREM Invariance == Spec => [](IInv /\ SeqInv)
BY InitHolds, StepHolds, StepSeq, PTL DEF Spec

\* The links of the list are sound whatever was enqueued, dequeued or flushed.
THEOREM ListStaysSound == Spec => []ListSound
<1>1. IInv => ListSound
  BY DEF IInv
<1> QED
  BY <1>1, Invariance, PTL

\* The eventfd agrees with the list: no wakeup is lost and none is spurious.
THEOREM SignalsExact == Spec => []EventfdExact
<1>1. IInv => EventfdExact
  BY DEF IInv
<1> QED
  BY <1>1, Invariance, PTL

\* The branch of mpscq_dequeue that "should not happen" does not happen.
THEOREM DequeueFindsOne == Spec => []NeverEmpty
<1>1. IInv => NeverEmpty
  <2> SUFFICES ASSUME IInv, qmode = "MPSC", pc = "ready", lock = None, tail = None PROVE FALSE
    BY DEF NeverEmpty
  <2>1. Open /\ eventfd > 0 /\ enqueuing = {} /\ Queued = {} /\ eventfd \in Nat
    BY DEF IInv, Open, CallInv, LockInv, ListSound, TypeOK
  <2>2. Cardinality(Queued) = 0 /\ Cardinality(enqueuing) = 0
    BY <2>1, FS_EmptySet
  <2>3. Cardinality(Queued) = eventfd + 0 + 0
    BY <2>1, <2>2 DEF IInv, EventfdExact
  <2> QED BY <2>1, <2>2, <2>3
<1> QED
  BY <1>1, Invariance, PTL

\* mpscq_destroy frees every message that is left, for it walks them all.
THEOREM DestroyLeavesNothing == Spec => []NothingLeft
<1>1. SeqInv => NothingLeft
  BY DEF SeqInv, WalkInv, NothingLeft
<1> QED
  BY <1>1, Invariance, PTL

-----------------------------------------------------------------------------
(* MsgQueue implements MsgFifo.                                             *)

Quiet == pc \in {"idle", "ready", "done"}

\* Outside the list, its users see every message that is linked.
LEMMA ViewQuiet ==
    ASSUME NEW Q, NEW old \in [Message -> SUBSET Message],
           \A m \in Message : old[m] \subseteq Q /\ (m \notin Q => old[m] = {})
    PROVE  old = [m \in Message |-> IF m \in Q THEN old[m] \cap Q ELSE {}]
<1>1. \A m \in Message : old[m] = IF m \in Q THEN old[m] \cap Q ELSE {}
  OBVIOUS
<1> QED
  BY <1>1

LEMMA SeesAll ==
    ASSUME IInv, SeqInv, Quiet
    PROVE  Contents = Queued /\ Arrival = older /\ Dequeued = taken
<1>1. Contents = Queued
  BY DEF Contents, Open, Quiet
<1>2. Arrival = older
  BY <1>1, ViewQuiet DEF Arrival, IInv, TypeOK, SeqInv, LinkInv
<1> QED
  BY <1>1, <1>2 DEF Dequeued, Quiet

LEMMA WillSeeAll ==
    ASSUME IInv', SeqInv', Quiet'
    PROVE  Contents' = Queued' /\ Arrival' = older' /\ Dequeued' = taken'
<1>1. Contents' = Queued'
  BY DEF Contents, Open, Quiet
<1>2. Arrival' = older'
  BY <1>1, ViewQuiet DEF Arrival, IInv, TypeOK, SeqInv, LinkInv
<1> QED
  BY <1>1, <1>2 DEF Dequeued, Quiet

\* A step that its users do not see.
LEMMA Unseen ==
    ASSUME Contents' = Contents, UNCHANGED subject, Dequeued' = Dequeued,
           \A m \in Contents : older'[m] \cap Contents = older[m] \cap Contents
    PROVE  UNCHANGED <<Contents, Arrival, subject, Dequeued>>
<1>1. Arrival' = Arrival
  BY DEF Arrival
<1> QED
  BY <1>1

\* A step that takes the messages in S out of their sight.
LEMMA TakesAway ==
    ASSUME IInv, SeqInv, Quiet, NEW S \in SUBSET Message,
           Contents' = Queued \ S, UNCHANGED older
    PROVE  Fifo!FifoRemove(S)
<1>1. Contents = Queued /\ Arrival = older
  BY SeesAll
<1>2. \A m \in Message : (IF m \in Queued \ S THEN older[m] \cap (Queued \ S) ELSE {})
                         = (IF m \in S THEN {} ELSE older[m] \ S)
  BY DEF SeqInv, LinkInv
<1>3. Arrival' = [m \in Message |-> IF m \in Queued \ S THEN older[m] \cap (Queued \ S) ELSE {}]
  BY DEF Arrival
<1> QED
  BY <1>1, <1>2, <1>3 DEF Fifo!FifoRemove

LEMMA EnqueueRefines ==
    ASSUME IInv, SeqInv, IInv', SeqInv',
           NEW t \in Thread, NEW m \in Message, NEW s \in Sender, EnqueueLink(t, m, s)
    PROVE  Fifo!FifoEnqueue(m, s)
<1>1. /\ where[m] = "heap" /\ where' = [where EXCEPT ![m] = "queue"]
      /\ older' = [older EXCEPT ![m] = Queued]
      /\ subject' = [subject EXCEPT ![m] = s] /\ taken' = taken /\ pc' = pc
  BY DEF EnqueueLink
<1>2. Quiet /\ Quiet'
  <2>1. /\ qmode \in {"SPSC", "MPSC"} /\ t # None
        /\ pc \in {"idle", "ready", "unlink", "done", "flush", "destroy", "destroyed"}
    BY MsgQueueAssumption DEF IInv, TypeOK, Thread
  <2>2. pc \notin {"unlink", "flush", "destroy", "destroyed"}
    BY <2>1 DEF EnqueueLink, Acquire, IInv, LockInv, InList, Open
  <2> QED
    BY <1>1, <2>1, <2>2 DEF Quiet
<1>3. Contents = Queued /\ Arrival = older /\ Dequeued = taken
  BY <1>2, SeesAll
<1>4. Contents' = Queued' /\ Arrival' = older' /\ Dequeued' = taken'
  BY <1>2, WillSeeAll
<1>5. Queued' = Queued \cup {m} /\ m \notin Queued
  BY <1>1, Entered DEF IInv
<1>6. m # taken
  BY <1>1 DEF IInv, CallInv
<1> QED
  BY <1>1, <1>3, <1>4, <1>5, <1>6 DEF Fifo!FifoEnqueue

LEMMA DequeueRefines ==
    ASSUME IInv, SeqInv, IInv', SeqInv', DequeueStart
    PROVE  Fifo!FifoDequeue
<1>1. /\ pc = "ready" /\ pc' = "unlink" /\ tail # None
      /\ UNCHANGED <<tail, subject, where, older, name, taken>>
  BY DEF DequeueStart, At, linkVars
<1>2. Quiet /\ Open /\ tail \in Queued /\ tail \in Message /\ next[tail] = None /\ taken = None
  BY <1>1 DEF Quiet, Open, IInv, ListSound, CallInv, Queued
<1>3. Contents = Queued /\ Arrival = older /\ Dequeued = taken
  BY <1>2, SeesAll
<1>4. Dequeued' = tail /\ older[tail] = {}
  BY <1>1, <1>2 DEF Dequeued, SeqInv, LinkInv, UpTo
<1>5. Contents' = Queued \ {tail}
  BY <1>1 DEF Contents, Queued, Open
<1>6. Fifo!FifoRemove({tail})
  BY <1>1, <1>2, <1>5, TakesAway
<1> QED
  BY <1>1, <1>2, <1>3, <1>4, <1>6 DEF Fifo!FifoDequeue

LEMMA FreeRefines ==
    ASSUME IInv, SeqInv, IInv', SeqInv', FreeTaken
    PROVE  Fifo!FifoFree
<1>1. /\ pc = "done" /\ pc' = "idle" /\ taken' = None /\ UNCHANGED <<subject, older>>
      /\ where' = [where EXCEPT ![taken] = "heap"]
  BY DEF FreeTaken, At
<1>2. taken # None /\ where[taken] = "out" /\ taken \in Message
  BY <1>1 DEF IInv, CallInv, TypeOK
<1>3. Contents = Queued /\ Arrival = older /\ Dequeued = taken
  BY <1>1, SeesAll DEF Quiet
<1>4. Contents' = Queued' /\ Arrival' = older' /\ Dequeued' = taken'
  BY <1>1, WillSeeAll DEF Quiet
<1>5. Queued' = Queued
  BY <1>1, <1>2 DEF Queued, IInv, TypeOK
<1> QED
  BY <1>1, <1>2, <1>3, <1>4, <1>5 DEF Fifo!FifoFree

LEMMA FlushRefines ==
    ASSUME IInv, SeqInv, FlushStart
    PROVE  \E s \in Sender : Fifo!FifoFlush(s)
<1>1. /\ pc = "done" /\ pc' = "flush" /\ name' = subject[taken]
      /\ UNCHANGED <<tail, subject, where, older, taken>>
  BY DEF FlushStart, At, linkVars
<1>2. subject[taken] \in Sender /\ Quiet
  BY <1>1 DEF IInv, CallInv, TypeOK, Quiet
<1> DEFINE S == {m \in Queued : subject[m] = subject[taken]}
<1>3. Contents = Queued
  BY <1>2, SeesAll
<1>4. Contents' = Queued \ S
  BY <1>1 DEF Contents, Queued, Open
<1>5. S \in SUBSET Message
  BY DEF Queued
<1>6. Fifo!FifoRemove(S)
  <2> HIDE DEF S
  <2> QED
    BY <1>1, <1>2, <1>4, <1>5, TakesAway
<1>7. UNCHANGED <<subject, Dequeued>>
  BY <1>1 DEF Dequeued
<1> QED
  BY <1>2, <1>3, <1>6, <1>7 DEF Fifo!FifoFlush

LEMMA DestroyRefines ==
    ASSUME IInv, SeqInv, DestroyStart
    PROVE  Fifo!FifoDestroy
<1>1. pc = "idle" /\ pc' = "destroy" /\ UNCHANGED <<tail, subject, older, taken>>
  BY DEF DestroyStart, At, linkVars
<1>2. Quiet /\ Queued \in SUBSET Message
  BY <1>1 DEF Quiet, Queued
<1>3. Contents = Queued
  BY <1>2, SeesAll
<1>4. Contents' = Queued \ Queued
  BY <1>1 DEF Contents, Open
<1>5. Fifo!FifoRemove(Queued)
  BY <1>1, <1>2, <1>4, TakesAway
<1>6. UNCHANGED <<subject, Dequeued>>
  BY <1>1 DEF Dequeued
<1> QED
  BY <1>3, <1>5, <1>6 DEF Fifo!FifoDestroy

\* The rest of a call is not seen: the message is gone since DequeueStart, the
\* flushed ones since FlushStart, and all of them since DestroyStart.
LEMMA UnlinkUnseen ==
    ASSUME IInv, SeqInv, DequeueUnlink
    PROVE  UNCHANGED <<Contents, Arrival, subject, Dequeued>>
<1>1. /\ pc = "unlink" /\ pc' = "done" /\ taken' = tail /\ UNCHANGED subject
      /\ where' = [where EXCEPT ![tail] = "out"]
      /\ older' = [x \in Message |-> IF x = tail THEN {} ELSE older[x] \ {tail}]
  BY DEF DequeueUnlink, At, Leave
<1>2. TypeOK /\ tail \in Queued
  BY <1>1 DEF IInv, CallInv, ListSound, Open
<1>3. Queued' = Queued \ {tail}
  BY <1>1, <1>2, Left
<1>4. Contents = Queued \ {tail} /\ Contents' = Queued' /\ Dequeued = tail /\ Dequeued' = taken'
  BY <1>1 DEF Contents, Open, Dequeued
<1>5. \A m \in Contents : older'[m] \cap Contents = older[m] \cap Contents
  BY <1>1, <1>4 DEF Queued
<1> QED
  BY <1>1, <1>3, <1>4, <1>5, Unseen

LEMMA FlushUnseen ==
    ASSUME IInv, SeqInv, FlushOne
    PROVE  UNCHANGED <<Contents, Arrival, subject, Dequeued>>
<1>1. /\ pc = "flush" /\ pc' = pc /\ mnode # None /\ subject[mnode] = name
      /\ UNCHANGED <<subject, name, taken>> /\ where' = [where EXCEPT ![mnode] = "heap"]
      /\ older' = [x \in Message |-> IF x = mnode THEN {} ELSE older[x] \ {mnode}]
  BY DEF FlushOne, At, Leave
<1>2. TypeOK /\ mnode \in Queued
  BY <1>1 DEF IInv, CallInv
<1>3. Queued' = Queued \ {mnode}
  BY <1>1, <1>2, Left
<1>4. Contents = {m \in Queued : subject[m] # name} /\ Contents' = {m \in Queued' : subject[m] # name}
  BY <1>1 DEF Contents, Open
<1>5. Contents' = Contents /\ mnode \notin Contents /\ Contents \subseteq Message
  BY <1>1, <1>3, <1>4 DEF Queued
<1>6. \A m \in Contents : older'[m] \cap Contents = older[m] \cap Contents
  BY <1>1, <1>5
<1>7. Dequeued' = Dequeued
  BY <1>1 DEF Dequeued
<1> QED
  BY <1>1, <1>5, <1>6, <1>7, Unseen

LEMMA RestUnseen ==
    ASSUME IInv, SeqInv,
           \/ \E t \in Thread : EnqueueSignal(t)
           \/ Poll \/ DequeueNothing \/ FlushSkip \/ FlushEnd \/ DestroyEnd \/ UNCHANGED vars
    PROVE  UNCHANGED <<Contents, Arrival, subject, Dequeued>>
<1>1. UNCHANGED <<tail, subject, where, older, taken>>
  BY DEF EnqueueSignal, Poll, DequeueNothing, FlushSkip, FlushEnd, DestroyEnd, vars, linkVars, callVars
<1>2. \/ pc' = pc /\ name' = name
      \/ Quiet /\ Quiet'
      \/ FlushEnd
      \/ ~ Open /\ ~ Open'
  BY DEF EnqueueSignal, Poll, DequeueNothing, FlushSkip, DestroyEnd, vars, callVars, At, Quiet, Open
<1>3. Queued' = Queued
  BY <1>1 DEF Queued
<1>4. Contents' = Contents /\ Dequeued' = Dequeued
  <2>1. CASE pc' = pc /\ name' = name
    BY <1>1, <1>3, <2>1 DEF Contents, Open, Dequeued
  <2>2. CASE Quiet /\ Quiet'
    BY <1>1, <1>3, <2>2 DEF Contents, Open, Dequeued, Quiet
  <2>3. CASE FlushEnd
    <3>1. pc = "flush" /\ pc' = "done" /\ mnode = None
      BY <2>3 DEF FlushEnd, At
    <3>2. {m \in Queued : subject[m] = name} = {}
      BY <3>1 DEF SeqInv, WalkInv, UpTo
    <3> QED
      BY <1>1, <1>3, <3>1, <3>2 DEF Contents, Open, Dequeued
  <2>4. CASE ~ Open /\ ~ Open'
    BY <1>1, <2>4 DEF Contents, Open, Dequeued
  <2> QED
    BY <1>2, <2>1, <2>2, <2>3, <2>4
<1> QED
  BY <1>1, <1>4, Unseen

LEMMA DestroyUnseen ==
    ASSUME DestroyOne
    PROVE  UNCHANGED <<Contents, Arrival, subject, Dequeued>>
<1>1. pc = "destroy" /\ UNCHANGED <<pc, tail, subject, taken>>
  BY DEF DestroyOne, At, linkVars
<1>2. Contents = {} /\ Contents' = {} /\ Dequeued' = Dequeued
  BY <1>1 DEF Contents, Open, Dequeued
<1> QED
  BY <1>1, <1>2, Unseen

LEMMA NextRefines ==
    ASSUME IInv, SeqInv, IInv', SeqInv', [Next]_vars
    PROVE  [Fifo!FifoNext]_<<Contents, Arrival, subject, Dequeued>>
<1>1. ASSUME NEW t \in Thread, NEW m \in Message, NEW s \in Sender, EnqueueLink(t, m, s)
      PROVE  Fifo!FifoNext
  BY <1>1, EnqueueRefines DEF Fifo!FifoNext
<1>2. CASE DequeueStart
  BY <1>2, DequeueRefines DEF Fifo!FifoNext
<1>3. CASE FreeTaken
  BY <1>3, FreeRefines DEF Fifo!FifoNext
<1>4. CASE FlushStart
  BY <1>4, FlushRefines DEF Fifo!FifoNext
<1>5. CASE DestroyStart
  BY <1>5, DestroyRefines DEF Fifo!FifoNext
<1>6. CASE DequeueUnlink \/ FlushOne \/ DestroyOne
  BY <1>6, UnlinkUnseen, FlushUnseen, DestroyUnseen
<1>7. CASE \/ \E t \in Thread : EnqueueSignal(t)
           \/ Poll \/ DequeueNothing \/ FlushSkip \/ FlushEnd \/ DestroyEnd \/ UNCHANGED vars
  BY <1>7, RestUnseen
<1> QED
  BY <1>1, <1>2, <1>3, <1>4, <1>5, <1>6, <1>7 DEF Next, ConsumerStep, Destroyed

\* The linked list implements the queue its users rely on: messages come out in
\* the order in which the mutex let them in, mpscq_flush_msgs_with_subject takes
\* all of one sender and nothing else, and each call takes effect at once.
THEOREM Refinement == Spec => FifoSpec
<1>1. Init => Fifo!FifoInit
  <2> SUFFICES ASSUME Init PROVE Fifo!FifoInit
    OBVIOUS
  <2>1. Queued = {} /\ pc = "idle"
    BY DEF Init, Queued
  <2>2. Contents = {} /\ Dequeued = taken
    BY <2>1 DEF Contents, Dequeued
  <2>3. Arrival = [m \in Message |-> {}]
    BY <2>2 DEF Arrival
  <2> QED
    BY <2>2, <2>3 DEF Init, Fifo!FifoInit
<1>2. (IInv /\ SeqInv) /\ (IInv /\ SeqInv)' /\ [Next]_vars
        => [Fifo!FifoNext]_<<Contents, Arrival, subject, Dequeued>>
  BY NextRefines
<1> QED
  BY <1>1, <1>2, Invariance, PTL DEF Spec, FifoSpec, Fifo!FifoSpec, Fifo!fifoVars

=============================================================================
