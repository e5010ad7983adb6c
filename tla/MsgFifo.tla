------------------------------- MODULE MsgFifo -------------------------------
(***************************************************************************)
(* What a message queue between workers promises: first in, first out, one  *)
(* receiver, and the removal of everything one sender has put in.  It is    *)
(* the interface of server/thrdmsg_mpscq.h as its users in worker.c see it; *)
(* MsgQueue, the linked list with its eventfd, is shown to implement it.    *)
(***************************************************************************)
CONSTANTS
    Message,    \* message nodes
    Sender,     \* values of a node's subject_name
    None

VARIABLES
    queue,      \* the messages in the queue
    older,      \* for each of them, those that came before it
    subject,    \* subject_name of each message
    taken       \* the message the receiver has dequeued and not yet freed

fifoVars == <<queue, older, subject, taken>>

FifoInit ==
    /\ queue = {}
    /\ older = [m \in Message |-> {}]
    /\ subject \in [Message -> Sender]
    /\ taken = None

\* The messages in S leave the queue, the others keep their order.
FifoRemove(S) ==
    /\ queue' = queue \ S
    /\ older' = [m \in Message |-> IF m \in S THEN {} ELSE older[m] \ S]

\* A message comes after all that are there.
FifoEnqueue(m, s) ==
    /\ m \notin queue /\ m # taken
    /\ queue' = queue \cup {m}
    /\ older' = [older EXCEPT ![m] = queue]
    /\ subject' = [subject EXCEPT ![m] = s]
    /\ UNCHANGED taken

\* The receiver gets the message that no other came before.
FifoDequeue ==
    /\ taken = None
    /\ taken' \in queue
    /\ older[taken'] = {}
    /\ FifoRemove({taken'})
    /\ UNCHANGED subject

\* The receiver is done with the message it took.
FifoFree ==
    /\ taken # None
    /\ taken' = None
    /\ UNCHANGED <<queue, older, subject>>

FifoFlush(s) ==
    /\ FifoRemove({m \in queue : subject[m] = s})
    /\ UNCHANGED <<subject, taken>>

\* The queue is destroyed with what is left in it.
FifoDestroy ==
    /\ FifoRemove(queue)
    /\ UNCHANGED <<subject, taken>>

FifoNext ==
    \/ \E m \in Message, s \in Sender : FifoEnqueue(m, s)
    \/ FifoDequeue
    \/ FifoFree
    \/ \E s \in Sender : FifoFlush(s)
    \/ FifoDestroy

FifoSpec == FifoInit /\ [][FifoNext]_fifoVars

=============================================================================
