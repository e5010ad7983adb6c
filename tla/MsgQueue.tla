------------------------------ MODULE MsgQueue ------------------------------
(***************************************************************************)
(* server/thrdmsg_mpscq.c: the queue through which the workers hand         *)
(* messages to the worker that owns the recipient.                          *)
(*                                                                          *)
(* A doubly linked list: producers insert at the head, the one consumer     *)
(* takes from the tail.  In MODE_MPSC a mutex guards the list and a         *)
(* semaphore eventfd, watched by the consumer's epoll instance, counts the  *)
(* messages.  In MODE_SPSC (the control queue of a client) there is neither *)
(* and producer and consumer are the same worker.                           *)
(*                                                                          *)
(* Each operation is split where another thread, or epoll reading the       *)
(* eventfd, can see an intermediate state.                                  *)
(***************************************************************************)
EXTENDS Integers, FiniteSets

CONSTANTS
    Message,    \* addresses of mpsc_msg_node; freed ones are allocated again
    Sender,     \* values of subject_name
    Producer,   \* the other workers
    Consumer,   \* the worker that owns the recipient
    None        \* NULL, and no thread

ASSUME MsgQueueAssumption ==
    /\ IsFiniteSet(Message)
    /\ Consumer \notin Producer
    /\ None \notin Message \cup Sender \cup Producer \cup {Consumer}

Thread == Producer \cup {Consumer}

VARIABLES
    qmode,      \* "SPSC" or "MPSC", fixed by mpscq_create
    head,       \* head.next: the newest message
    tail,       \* the oldest message
    next, prev, \* the links of each node
    subject,    \* its subject_name
    eventfd,    \* the counter of the eventfd
    lock,       \* the thread that holds the mutex
    enqueuing,  \* the threads in mpscq_enqueue, linked but not signalled
    pc,         \* where the consumer is between epoll_wait and free()
    mnode,      \* the consumer's cursor in a flush, and the walk of destroy
    name,       \* the subject it flushes
    taken,      \* the message it has dequeued and not yet freed
    where,      \* "heap" (not allocated), "queue" or "out" (dequeued)
    older       \* history: the queued messages that came before each one

linkVars == <<head, tail, next, prev>>
callVars == <<enqueuing, pc, mnode, name, taken>>
vars == <<qmode, linkVars, subject, eventfd, lock, callVars, where, older>>

Queued == {m \in Message : where[m] = "queue"}

TypeOK ==
    /\ qmode \in {"SPSC", "MPSC"}
    /\ head \in Message \cup {None}
    /\ tail \in Message \cup {None}
    /\ next \in [Message -> Message \cup {None}]
    /\ prev \in [Message -> Message \cup {None}]
    /\ subject \in [Message -> Sender]
    /\ eventfd \in Nat
    /\ lock \in Thread \cup {None}
    /\ enqueuing \in SUBSET Thread
    /\ pc \in {"idle", "ready", "unlink", "done", "flush", "destroy", "destroyed"}
    /\ mnode \in Message \cup {None}
    /\ name \in Sender \cup {None}
    /\ taken \in Message \cup {None}
    /\ where \in [Message -> {"heap", "queue", "out"}]
    /\ older \in [Message -> SUBSET Message]

\* mpscq_create
Init ==
    /\ qmode \in {"SPSC", "MPSC"}
    /\ head = None
    /\ tail = None
    /\ next = [m \in Message |-> None]
    /\ prev = [m \in Message |-> None]
    /\ subject \in [Message -> Sender]
    /\ eventfd = 0
    /\ lock = None
    /\ enqueuing = {}
    /\ pc = "idle"
    /\ mnode = None
    /\ name = None
    /\ taken = None
    /\ where = [m \in Message |-> "heap"]
    /\ older = [m \in Message |-> {}]

Open == pc \notin {"destroy", "destroyed"}

\* Message m leaves the list: it goes to place p, and none comes after it.
Leave(m, p) ==
    /\ where' = [where EXCEPT ![m] = p]
    /\ older' = [x \in Message |-> IF x = m THEN {} ELSE older[x] \ {m}]

\* The consumer is at label l, and not inside an mpscq_enqueue of its own.
At(l) == pc = l /\ Consumer \notin enqueuing

\* The mutex is taken in MODE_MPSC only.
Acquire(t) ==
    IF qmode = "MPSC" THEN lock = None /\ lock' = t ELSE UNCHANGED lock

Release ==
    IF qmode = "MPSC" THEN lock' = None ELSE UNCHANGED lock

-----------------------------------------------------------------------------
(* mpscq_enqueue                                                            *)

\* Mutant: the new head is not linked to the rest of the list.
LinkAtHead_NoNext(m) ==
    /\ prev' = IF head = None THEN [prev EXCEPT ![m] = None]
                              ELSE [prev EXCEPT ![m] = None, ![head] = m]
    /\ tail' = IF head = None THEN m ELSE tail
    /\ head' = m
    /\ UNCHANGED next

\* The node, fresh from msg_node_create, is linked before the head.
LinkAtHead(m) ==
    /\ prev' = IF head = None THEN [prev EXCEPT ![m] = None]
                              ELSE [prev EXCEPT ![m] = None, ![head] = m]
    /\ next' = [next EXCEPT ![m] = head]
    /\ tail' = IF head = None THEN m ELSE tail
    /\ head' = m

\* A thread takes the mutex and links its message.  The consumer itself
\* enqueues when it handles a message for one of its own clients, and it is
\* the only one to fill a control queue.
EnqueueLink(t, m, s) ==
    /\ Open
    /\ t \notin enqueuing
    /\ t = Consumer => pc \in {"idle", "ready", "done"}
    /\ qmode = "SPSC" => t = Consumer
    /\ where[m] = "heap"
    /\ Acquire(t)
    /\ LinkAtHead(m)
    /\ subject' = [subject EXCEPT ![m] = s]
    /\ where' = [where EXCEPT ![m] = "queue"]
    /\ older' = [older EXCEPT ![m] = Queued]
    /\ enqueuing' = IF qmode = "MPSC" THEN enqueuing \cup {t} ELSE enqueuing
    /\ UNCHANGED <<qmode, eventfd, pc, mnode, name, taken>>

\* eventfd_write, then the mutex is released.
EnqueueSignal(t) ==
    /\ t \in enqueuing
    /\ eventfd' = eventfd + 1
    /\ Release
    /\ enqueuing' = enqueuing \ {t}
    /\ UNCHANGED <<qmode, linkVars, subject, pc, mnode, name, taken, where, older>>

-----------------------------------------------------------------------------
(* mpscq_dequeue                                                            *)

\* epoll_wait reports the eventfd readable: the consumer will dequeue.  The
\* control queue is polled without a signal.
Poll ==
    /\ At("idle")
    /\ qmode = "MPSC" => eventfd > 0
    /\ pc' = "ready"
    /\ UNCHANGED <<qmode, linkVars, subject, eventfd, lock, enqueuing, mnode, name, taken, where, older>>

\* A semaphore eventfd counts down by one per read; at 0 the read fails.
eventfd_read ==
    eventfd' = IF qmode = "MPSC" /\ eventfd > 0 THEN eventfd - 1 ELSE eventfd

DequeueStart ==
    /\ At("ready")
    /\ Acquire(Consumer)
    /\ tail # None
    /\ eventfd_read
    /\ pc' = "unlink"
    /\ UNCHANGED <<qmode, linkVars, subject, enqueuing, mnode, name, taken, where, older>>

\* "This should not happen.": the queue is empty, NULL is returned.
DequeueNothing ==
    /\ At("ready")
    /\ lock = None
    /\ tail = None
    /\ pc' = "idle"
    /\ UNCHANGED <<qmode, linkVars, subject, eventfd, lock, enqueuing, mnode, name, taken, where, older>>

DequeueUnlink ==
    /\ At("unlink")
    /\ head' = IF prev[tail] = None THEN None ELSE head
    /\ next' = IF prev[tail] = None THEN next ELSE [next EXCEPT ![prev[tail]] = None]
    /\ tail' = prev[tail]
    /\ prev' = [prev EXCEPT ![tail] = None]
    /\ taken' = tail
    /\ Leave(tail, "out")
    /\ Release
    /\ pc' = "done"
    /\ UNCHANGED <<qmode, subject, eventfd, enqueuing, mnode, name>>

\* The consumer has sent or dropped the message, and frees it.
FreeTaken ==
    /\ At("done")
    /\ where' = [where EXCEPT ![taken] = "heap"]
    /\ taken' = None
    /\ pc' = "idle"
    /\ UNCHANGED <<qmode, linkVars, subject, eventfd, lock, enqueuing, mnode, name, older>>

-----------------------------------------------------------------------------
(* mpscq_flush_msgs_with_subject                                            *)

\* Called by the consumer while it holds the message it has just dequeued;
\* a control queue is left alone.
FlushStart ==
    /\ At("done")
    /\ qmode = "MPSC"
    /\ Acquire(Consumer)
    /\ mnode' = head
    /\ name' = subject[taken]
    /\ pc' = "flush"
    /\ UNCHANGED <<qmode, linkVars, subject, eventfd, enqueuing, taken, where, older>>

FlushSkip ==
    /\ At("flush")
    /\ mnode # None
    /\ subject[mnode] # name
    /\ mnode' = next[mnode]
    /\ UNCHANGED <<qmode, linkVars, subject, eventfd, lock, enqueuing, pc, name, taken, where, older>>

\* Mutant: the older neighbour keeps its link to the removed node.
Unlink_NoPrev(m) ==
    LET p == prev[m]
        n == next[m]
    IN /\ tail' = IF tail = m THEN p ELSE tail
       /\ head' = IF p = None THEN n ELSE head
       /\ next' = [x \in Message |-> IF x = m THEN None ELSE IF x = p THEN n ELSE next[x]]
       /\ prev' = [prev EXCEPT ![m] = None]

\* Unlink, clear both links, free, and count the eventfd down by one.
Unlink(m) ==
    LET p == prev[m]
        n == next[m]
    IN /\ tail' = IF tail = m THEN p ELSE tail
       /\ head' = IF p = None THEN n ELSE head
       /\ next' = [x \in Message |-> IF x = m THEN None ELSE IF x = p THEN n ELSE next[x]]
       /\ prev' = [x \in Message |-> IF x = m THEN None ELSE IF x = n THEN p ELSE prev[x]]

\* Mutant: a flushed message is not read off the eventfd.
FlushOne_NoRead ==
    /\ At("flush")
    /\ mnode # None
    /\ subject[mnode] = name
    /\ Unlink(mnode)
    /\ mnode' = next[mnode]
    /\ Leave(mnode, "heap")
    /\ UNCHANGED <<qmode, subject, eventfd, lock, enqueuing, pc, name, taken>>

FlushOne ==
    /\ At("flush")
    /\ mnode # None
    /\ subject[mnode] = name
    /\ Unlink(mnode)
    /\ mnode' = next[mnode]
    /\ Leave(mnode, "heap")
    /\ eventfd_read
    /\ UNCHANGED <<qmode, subject, lock, enqueuing, pc, name, taken>>

FlushEnd ==
    /\ At("flush")
    /\ mnode = None
    /\ Release
    /\ name' = None
    /\ pc' = "done"
    /\ UNCHANGED <<qmode, linkVars, subject, eventfd, enqueuing, mnode, taken, where, older>>

-----------------------------------------------------------------------------

(* mpscq_destroy, from free_std_client.  The reference count guarantees the  *)
(* caller that no one is in a call.                                         *)

DestroyStart ==
    /\ At("idle")
    /\ enqueuing = {}
    /\ Acquire(Consumer)
    /\ mnode' = head
    /\ pc' = "destroy"
    /\ UNCHANGED <<qmode, linkVars, subject, eventfd, enqueuing, name, taken, where, older>>

\* Every node from head.next on is freed.
DestroyOne ==
    /\ At("destroy")
    /\ mnode # None
    /\ mnode' = next[mnode]
    /\ Leave(mnode, "heap")
    /\ UNCHANGED <<qmode, linkVars, subject, eventfd, lock, enqueuing, pc, name, taken>>

DestroyEnd ==
    /\ At("destroy")
    /\ mnode = None
    /\ Release
    /\ pc' = "destroyed"
    /\ UNCHANGED <<qmode, linkVars, subject, eventfd, enqueuing, mnode, name, taken, where, older>>

Destroyed ==
    /\ pc = "destroyed"
    /\ UNCHANGED vars

ConsumerStep ==
    \/ Poll
    \/ DequeueStart
    \/ DequeueNothing
    \/ DequeueUnlink
    \/ FreeTaken
    \/ FlushStart
    \/ FlushSkip
    \/ FlushOne
    \/ FlushEnd
    \/ DestroyStart
    \/ DestroyOne
    \/ DestroyEnd

Next ==
    \/ \E t \in Thread, m \in Message, s \in Sender : EnqueueLink(t, m, s)
    \/ \E t \in Thread : EnqueueSignal(t)
    \/ ConsumerStep
    \/ Destroyed

Spec == Init /\ [][Next]_vars

-----------------------------------------------------------------------------
(* Properties.                                                              *)

\* The list is sound: its ends are None together and exactly when it is empty,
\* links stay inside it, next and prev are inverses, and only the newest node
\* has no predecessor, only the oldest no successor.  No pointer of a node in
\* the list, and neither end, leads to a node that was freed, and nothing that
\* is queued is cut off from the ends in a ring of its own.
ListSound ==
    Open =>
    /\ head = None <=> Queued = {}
    /\ tail = None <=> Queued = {}
    /\ {head, tail} \subseteq Queued \cup {None}
    /\ \A m \in Queued :
        /\ next[m] \in Queued \cup {None}
        /\ prev[m] \in Queued \cup {None}
        /\ next[m] = None <=> m = tail
        /\ prev[m] = None <=> m = head
        /\ next[m] # None => prev[next[m]] = m
        /\ prev[m] # None => next[prev[m]] = m
    /\ \A S \in SUBSET Queued : S # {} => \E m \in S : prev[m] \notin S

\* The eventfd counts the messages: it differs from their number only inside
\* a call that holds the mutex, by the one message that call is about.
EventfdExact ==
    qmode = "MPSC" /\ Open =>
        Cardinality(Queued) =
            eventfd + Cardinality(enqueuing) + IF pc = "unlink" THEN 1 ELSE 0

\* mpscq_dequeue of a signalled queue never meets the branch that logs "This
\* should not happen.": a readable eventfd promises a message, whatever was
\* enqueued or flushed since epoll_wait looked.
NeverEmpty == qmode = "MPSC" /\ pc = "ready" /\ lock = None => tail # None

\* mpscq_destroy leaves no message behind: the list it walks is all of them.
NothingLeft == pc = "destroyed" => Queued = {}

\* What the users of the queue see in it: a dequeue, a flush and a destruction
\* take effect when they take the mutex.
Contents ==
    {m \in Queued : /\ Open
                    /\ pc = "unlink" => m # tail
                    /\ pc = "flush" => subject[m] # name}

Arrival == [m \in Message |-> IF m \in Contents THEN older[m] \cap Contents ELSE {}]

Dequeued == IF pc = "unlink" THEN tail ELSE taken

\* The linked list with its locks, links and eventfd implements a FIFO queue.
Fifo == INSTANCE MsgFifo WITH queue <- Contents, older <- Arrival, taken <- Dequeued
FifoSpec == Fifo!FifoSpec

-----------------------------------------------------------------------------
(* The inductive invariant.                                                 *)

InList == pc \in {"unlink", "flush", "destroy"}

\* At most one thread is inside the list.
LockInv ==
    /\ qmode = "SPSC" => lock = None /\ enqueuing = {} /\ pc # "flush" /\ eventfd = 0
    /\ qmode = "MPSC" /\ lock = None => enqueuing = {} /\ ~ InList
    /\ qmode = "MPSC" /\ lock # None => (InList => lock = Consumer)
                                        /\ enqueuing = (IF InList THEN {} ELSE {lock})

\* What the consumer knows: what it took is out of the list, what it is about
\* to take is there, and its cursor is on the list.
CallInv ==
    /\ \A m \in Message : where[m] = "out" <=> m = taken
    /\ taken # None <=> pc \in {"done", "flush"}
    /\ pc = "unlink" => tail # None
    /\ qmode = "MPSC" /\ pc = "ready" => eventfd > 0
    /\ name # None <=> pc = "flush"
    /\ mnode # None => pc \in {"flush", "destroy"} /\ mnode \in Queued

IInv == TypeOK /\ ListSound /\ EventfdExact /\ LockInv /\ CallInv

-----------------------------------------------------------------------------
(* The inductive invariant behind NothingLeft and FifoSpec: the links are    *)
(* in the order in which the messages came.                                 *)

UpTo(m) == IF m = None THEN {} ELSE older[m] \cup {m}

\* What came before a message is what came before its neighbour, and that.
LinkInv ==
    /\ \A m \in Message : older[m] \subseteq Queued /\ (m \notin Queued => older[m] = {})
    /\ \A m, x \in Message : x \in older[m] => m \notin older[x]
    /\ \A m \in Queued : older[m] = UpTo(next[m])

\* All that is left to flush is at the cursor or behind it; so is all that is
\* left of a queue that is being destroyed.
WalkInv ==
    /\ Open => Queued = UpTo(head)
    /\ pc = "flush" => {m \in Queued : subject[m] = name} \subseteq UpTo(mnode)
    /\ pc = "destroy" => Queued = UpTo(mnode)
    /\ pc = "destroyed" => Queued = {}

SeqInv == LinkInv /\ WalkInv

=============================================================================
