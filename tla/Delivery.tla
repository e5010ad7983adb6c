------------------------------ MODULE Delivery ------------------------------
(***************************************************************************)
(* server/worker.c: how the worker that owns a client gets its messages and *)
(* its responses onto the client's socket (wt_serve_response, send_one_msg, *)
(* wt_handle_outbound_data and wt_handle_queued_messages), while the other  *)
(* workers keep filling its message queue and its senders come and go.      *)
(*                                                                          *)
(* temp_send_storage holds the message that is partly on the wire.  Whether *)
(* the worker comes back to it depends on what it has asked epoll to watch: *)
(* the socket for writing, and the eventfd of the message queue.  Both      *)
(* queues are first in, first out (MsgFifo, implemented by MsgQueue).       *)
(***************************************************************************)
EXTENDS Integers, Sequences, FiniteSets

CONSTANTS
    Sender,     \* user names that send to this client
    None,       \* NULL; and the empty subject_name of a control message
    Units,      \* pieces in which a message can reach the socket
    SendBuf,    \* pieces the socket holds before send_fn says EBLOCK
    MaxMsgs,    \* bound: messages per sender
    MaxReqs     \* bound: requests the client makes

\* A message has the name of the user who sent it; a response or a notice of
\* the server has none.  A notice has number 0.
Msg == [subject : Sender \cup {None}, no : Nat]
Notice == [subject |-> None, no |-> 0]

ASSUME DeliveryAssumption ==
    /\ None \notin Sender \cup Msg
    /\ Units \in Nat \ {0}
    /\ SendBuf \in Nat \ {0}
    /\ MaxMsgs \in Nat
    /\ MaxReqs \in Nat

VARIABLES
    connected,  \* the names htable_get_cond finds, not DISCONNECTED
    left,       \* history: the names that were not connected at some time
    sent,       \* messages each sender has enqueued so far
    userq,      \* pending_userdata_queue
    ctrlq,      \* pending_ctrl_queue
    tss,        \* temp_send_storage
    buf_offset, \* its pieces that are on the wire
    msg,        \* the message just dequeued, before it becomes tss
    sockEv,     \* epoll interest in the socket
    queueEv,    \* epoll interest in the eventfd of userq
    revents,    \* events epoll_wait has reported and that are not handled yet
    pc,         \* where the worker is
    caller,     \* the handler send_one_msg returns to
    inbox,      \* requests received and not yet read
    asked,      \* requests the client has made
    room,       \* pieces the socket still takes
    wire        \* history: the pieces written to the socket

othersVars == <<connected, left, sent>>
sendVars == <<tss, buf_offset, msg>>
epollVars == <<sockEv, queueEv>>
peerVars == <<inbox, asked>>
vars == <<othersVars, userq, ctrlq, sendVars, epollVars, revents, pc, caller, peerVars, room, wire>>

TypeOK ==
    /\ connected \in SUBSET Sender
    /\ left \in SUBSET Sender
    /\ sent \in [Sender -> Nat]
    /\ userq \in Seq(Msg)
    /\ ctrlq \in Seq(Msg)
    /\ tss \in Msg \cup {None}
    /\ buf_offset \in Nat
    /\ msg \in Msg \cup {None}
    /\ sockEv \in SUBSET {"IN", "OUT"}
    /\ queueEv \in SUBSET {"IN"}
    /\ revents \in SUBSET {"IN", "OUT", "QUEUE"}
    /\ pc \in {"wait", "batch", "inbound", "respond", "send", "drain", "take",
               "check", "flush", "closed"}
    /\ caller \in {"outbound", "queued", "last"}
    /\ inbox \in Nat
    /\ asked \in Nat
    /\ room \in Nat
    /\ wire \in Seq(Msg \X Nat)

\* The client has authenticated: its queues exist and epoll watches both.
Init ==
    /\ connected \in SUBSET Sender
    /\ left = Sender \ connected
    /\ sent = [s \in Sender |-> 0]
    /\ userq = <<>>
    /\ ctrlq = <<>>
    /\ tss = None
    /\ buf_offset = 0
    /\ msg = None
    /\ sockEv = {"IN"}
    /\ queueEv = {"IN"}
    /\ revents = {}
    /\ pc = "wait"
    /\ caller = "queued"
    /\ inbox = 0
    /\ asked = 0
    /\ room = SendBuf
    /\ wire = <<>>

Open == pc # "closed"

-----------------------------------------------------------------------------
(* The other threads, the senders and the client itself.                    *)

\* A worker has read a message of a connected user, and enqueues it.
Enqueue(s) ==
    /\ Open
    /\ s \in connected
    /\ sent[s] < MaxMsgs
    /\ sent' = [sent EXCEPT ![s] = @ + 1]
    /\ userq' = Append(userq, [subject |-> s, no |-> sent[s] + 1])
    /\ UNCHANGED <<connected, left, ctrlq, sendVars, epollVars, revents, pc, caller, peerVars, room, wire>>

Disconnect(s) ==
    /\ s \in connected
    /\ connected' = connected \ {s}
    /\ left' = left \cup {s}
    /\ UNCHANGED <<sent, userq, ctrlq, sendVars, epollVars, revents, pc, caller, peerVars, room, wire>>

Connect(s) ==
    /\ s \notin connected
    /\ connected' = connected \cup {s}
    /\ UNCHANGED <<left, sent, userq, ctrlq, sendVars, epollVars, revents, pc, caller, peerVars, room, wire>>

\* The client makes a request; the client reads from its end of the socket.
PeerAsks ==
    /\ Open
    /\ asked < MaxReqs
    /\ asked' = asked + 1
    /\ inbox' = inbox + 1
    /\ UNCHANGED <<othersVars, userq, ctrlq, sendVars, epollVars, revents, pc, caller, room, wire>>

PeerReads ==
    /\ Open
    /\ room < SendBuf
    /\ room' = room + 1
    /\ UNCHANGED <<othersVars, userq, ctrlq, sendVars, epollVars, revents, pc, caller, peerVars, wire>>

-----------------------------------------------------------------------------
(* The worker: epoll_wait and the dispatch of wt_handle_clientevent.        *)

Goto(l) == pc' = l

\* What epoll reports: an fd is ready and its interest is registered.
Ready ==
    {e \in {"IN", "OUT", "QUEUE"} :
        \/ e = "IN" /\ "IN" \in sockEv /\ inbox > 0
        \/ e = "OUT" /\ "OUT" \in sockEv /\ room > 0
        \/ e = "QUEUE" /\ "IN" \in queueEv /\ userq # <<>>}

epoll_wait ==
    /\ pc = "wait"
    /\ Ready # {}
    /\ revents' = Ready
    /\ Goto("batch")
    /\ UNCHANGED <<othersVars, userq, ctrlq, sendVars, epollVars, caller, peerVars, room, wire>>

BatchDone ==
    /\ pc = "batch"
    /\ revents = {}
    /\ Goto("wait")
    /\ UNCHANGED <<othersVars, userq, ctrlq, sendVars, epollVars, revents, caller, peerVars, room, wire>>

\* EPOLLIN is handled before EPOLLOUT of the same event; the event of the
\* queue is another one, and may come before or after.
HandleIn ==
    /\ pc = "batch"
    /\ "IN" \in revents
    /\ revents' = revents \ {"IN"}
    /\ Goto("inbound")
    /\ UNCHANGED <<othersVars, userq, ctrlq, sendVars, epollVars, caller, peerVars, room, wire>>

\* The prologue of both sending handlers: whoever tss is from may have left
\* since its first piece was sent; then a notice follows it.
NotifyIfGone(c) ==
    /\ ctrlq' = IF tss # None /\ tss.subject # None /\ tss.subject \notin connected
                THEN Append(ctrlq, Notice) ELSE ctrlq
    /\ caller' = c
    /\ Goto(IF tss # None THEN "send" ELSE "drain")

HandleOut ==
    /\ pc = "batch"
    /\ "OUT" \in revents /\ "IN" \notin revents
    /\ revents' = revents \ {"OUT"}
    /\ NotifyIfGone("outbound")
    /\ UNCHANGED <<othersVars, userq, sendVars, epollVars, peerVars, room, wire>>

HandleQueue ==
    /\ pc = "batch"
    /\ "QUEUE" \in revents
    /\ revents' = revents \ {"QUEUE"}
    /\ NotifyIfGone("queued")
    /\ UNCHANGED <<othersVars, userq, sendVars, epollVars, peerVars, room, wire>>

-----------------------------------------------------------------------------
(* wt_serve_response, for each request wt_handle_inbound_data reads.        *)

Response == [subject |-> None, no |-> asked - inbox + 1]

\* Mutant: the response is sent at once, whatever is already waiting.
ServeLater_Jumps ==
    /\ pc = "inbound"
    /\ inbox > 0
    /\ tss # None
    /\ inbox' = inbox - 1
    /\ tss' = Response /\ buf_offset' = 0
    /\ Goto("respond")
    /\ UNCHANGED <<othersVars, userq, ctrlq, msg, epollVars, revents, caller, asked, room, wire>>

\* A message is on its way already: the response waits in the control queue.
ServeLater ==
    /\ pc = "inbound"
    /\ inbox > 0
    /\ tss # None
    /\ inbox' = inbox - 1
    /\ ctrlq' = Append(ctrlq, Response)
    /\ UNCHANGED <<othersVars, userq, sendVars, epollVars, revents, pc, caller, asked, room, wire>>

ServeNow ==
    /\ pc = "inbound"
    /\ inbox > 0
    /\ tss = None
    /\ inbox' = inbox - 1
    /\ tss' = Response /\ buf_offset' = 0
    /\ Goto("respond")
    /\ UNCHANGED <<othersVars, userq, ctrlq, msg, epollVars, revents, caller, asked, room, wire>>

InboundDone ==
    /\ pc = "inbound"
    /\ inbox = 0
    /\ Goto("batch")
    /\ UNCHANGED <<othersVars, userq, ctrlq, sendVars, epollVars, revents, caller, peerVars, room, wire>>

\* Mutant: the worker does not ask to be told when the socket takes more.
RespondBlocked_NotArmed ==
    /\ pc = "respond"
    /\ room = 0
    /\ Goto("inbound")
    /\ UNCHANGED <<othersVars, userq, ctrlq, sendVars, epollVars, revents, caller, peerVars, room, wire>>

\* EBLOCK: the socket is watched for writing, the queue stays watched too.
RespondBlocked ==
    /\ pc = "respond"
    /\ room = 0
    /\ sockEv' = {"IN", "OUT"}
    /\ Goto("inbound")
    /\ UNCHANGED <<othersVars, userq, ctrlq, sendVars, queueEv, revents, caller, peerVars, room, wire>>

-----------------------------------------------------------------------------
(* send_one_msg, and the same loop in wt_serve_response.                    *)

\* send_fn takes a piece.  The last one frees the message.
SendUnit ==
    /\ pc \in {"respond", "send"}
    /\ room > 0
    /\ room' = room - 1
    /\ wire' = Append(wire, <<tss, buf_offset + 1>>)
    /\ IF buf_offset + 1 < Units
       THEN buf_offset' = buf_offset + 1 /\ UNCHANGED <<tss, pc>>
       ELSE /\ tss' = None /\ buf_offset' = 0
            /\ Goto(IF pc = "respond" THEN "inbound"
                    ELSE IF caller = "last" THEN "batch" ELSE "drain")
    /\ UNCHANGED <<othersVars, userq, ctrlq, msg, epollVars, revents, caller, peerVars>>

\* EBLOCK: wt_handle_outbound_data leaves the registrations as they are,
\* wt_handle_queued_messages swaps the queue for the socket.
SendBlocked ==
    /\ pc = "send"
    /\ room = 0
    /\ sockEv' = IF caller = "outbound" THEN sockEv ELSE {"IN", "OUT"}
    /\ queueEv' = IF caller = "outbound" THEN queueEv ELSE {}
    /\ Goto("batch")
    /\ UNCHANGED <<othersVars, userq, ctrlq, sendVars, revents, caller, peerVars, room, wire>>

\* send_fn fails, or the client hangs up: the client is cleaned up (Session).
Fail ==
    /\ pc \in {"respond", "send", "batch"}
    /\ Goto("closed")
    /\ UNCHANGED <<othersVars, userq, ctrlq, sendVars, epollVars, revents, caller, peerVars, room, wire>>

-----------------------------------------------------------------------------
(* wt_handle_outbound_data and wt_handle_queued_messages, after tss is sent *)

\* Mutant: the newest response is sent first.
DrainOne_Newest ==
    /\ pc = "drain"
    /\ ctrlq # <<>>
    /\ tss' = ctrlq[Len(ctrlq)] /\ buf_offset' = 0
    /\ ctrlq' = SubSeq(ctrlq, 1, Len(ctrlq) - 1)
    /\ Goto("send")
    /\ UNCHANGED <<othersVars, userq, msg, epollVars, revents, caller, peerVars, room, wire>>

\* Both send what is in the control queue first.
DrainOne ==
    /\ pc = "drain"
    /\ ctrlq # <<>>
    /\ tss' = Head(ctrlq) /\ buf_offset' = 0
    /\ ctrlq' = Tail(ctrlq)
    /\ Goto("send")
    /\ UNCHANGED <<othersVars, userq, msg, epollVars, revents, caller, peerVars, room, wire>>

\* Mutant: the queue that was switched off is not switched on again.
OutboundDone_QueueOff ==
    /\ pc = "drain" /\ ctrlq = <<>> /\ caller = "outbound"
    /\ sockEv' = {"IN"}
    /\ Goto("batch")
    /\ UNCHANGED <<othersVars, userq, ctrlq, sendVars, queueEv, revents, caller, peerVars, room, wire>>

\* Nothing waits: the socket is no longer watched for writing, the queue is.
OutboundDone ==
    /\ pc = "drain" /\ ctrlq = <<>> /\ caller = "outbound"
    /\ sockEv' = {"IN"}
    /\ queueEv' = {"IN"}
    /\ Goto("batch")
    /\ UNCHANGED <<othersVars, userq, ctrlq, sendVars, revents, caller, peerVars, room, wire>>

\* One message is dequeued; there is one (NeverEmpty of MsgQueue).
Take ==
    /\ pc = "drain" /\ ctrlq = <<>> /\ caller = "queued"
    /\ userq # <<>>
    /\ msg' = Head(userq)
    /\ userq' = Tail(userq)
    /\ Goto("check")
    /\ UNCHANGED <<othersVars, ctrlq, tss, buf_offset, epollVars, revents, caller, peerVars, room, wire>>

\* Its sender is still there: it is sent.
SendTaken ==
    /\ pc = "check"
    /\ msg.subject \in connected
    /\ tss' = msg /\ buf_offset' = 0 /\ msg' = None
    /\ caller' = "last"
    /\ Goto("send")
    /\ UNCHANGED <<othersVars, userq, ctrlq, epollVars, revents, peerVars, room, wire>>

\* Its sender is gone: a notice takes its place ...
NotifyGone ==
    /\ pc = "check"
    /\ msg.subject \notin connected
    /\ ctrlq' = Append(ctrlq, Notice)
    /\ Goto("flush")
    /\ UNCHANGED <<othersVars, userq, sendVars, epollVars, revents, caller, peerVars, room, wire>>

\* ... and everything queued under that name is dropped, the rest stays in its
\* order.  In between the name may have connected again and sent more.
Flush ==
    LET kept == {i \in 1..Len(userq) : userq[i].subject # msg.subject}
        n == Cardinality(kept)
    IN
    /\ pc = "flush"
    /\ \E f \in [1..n -> kept] :
         /\ \A i, j \in 1..n : i < j => f[i] < f[j]
         /\ kept = {f[i] : i \in 1..n}
         /\ userq' = [i \in 1..n |-> userq[f[i]]]
    /\ msg' = None
    /\ tss' = Head(ctrlq) /\ buf_offset' = 0
    /\ ctrlq' = Tail(ctrlq)
    /\ caller' = "last"
    /\ Goto("send")
    /\ UNCHANGED <<othersVars, epollVars, revents, peerVars, room, wire>>

WorkerStep ==
    \/ epoll_wait \/ BatchDone
    \/ HandleIn \/ HandleOut \/ HandleQueue
    \/ ServeLater \/ ServeNow \/ InboundDone \/ RespondBlocked
    \/ SendUnit \/ SendBlocked
    \/ DrainOne \/ OutboundDone
    \/ Take \/ SendTaken \/ NotifyGone \/ Flush

Next ==
    \/ \E s \in Sender : Enqueue(s) \/ Disconnect(s) \/ Connect(s)
    \/ PeerAsks
    \/ PeerReads
    \/ WorkerStep
    \/ Fail

Spec == Init /\ [][Next]_vars

\* The worker keeps running, and a client that stays connected keeps reading.
Fairness == WF_vars(WorkerStep) /\ WF_vars(PeerReads)

FairSpec == Spec /\ Fairness

-----------------------------------------------------------------------------
(* Properties.                                                              *)

\* When the worker goes to sleep, whatever still waits will wake it: a partly
\* sent message and what is queued behind it through the socket, messages in
\* the queue through the eventfd or, while that is off, through the socket.
NoneStranded ==
    pc = "wait" =>
        /\ tss # None => "OUT" \in sockEv
        /\ ctrlq # <<>> => tss # None
        /\ queueEv = {} => "OUT" \in sockEv

\* The pieces of a message follow each other on the wire: a response, a notice
\* or another user's message is never sent into the middle of one.
WholeMessages ==
    \A i \in 1..Len(wire) :
        LET piece == wire[i][2]
        IN IF piece = 1 THEN i = 1 \/ wire[i - 1][2] = Units
           ELSE i > 1 /\ wire[i - 1] = <<wire[i][1], piece - 1>>

\* What the wire holds of one name is in the order it was sent, once each, and
\* has gaps only for a name that has left; the responses have none.
InOrder ==
    \A i, j \in 1..Len(wire) :
        /\ i < j /\ wire[i][2] = 1 /\ wire[j][2] = 1
        /\ wire[i][1].subject = wire[j][1].subject /\ wire[i][1].no > 0 /\ wire[j][1].no > 0
        => /\ wire[i][1].no < wire[j][1].no
           /\ wire[i][1].subject \in left
              \/ \E k \in 1..Len(wire) : wire[k] = <<[wire[j][1] EXCEPT !.no = @ - 1], 1>>

\* Everything that waits for the client is sent, or the client is gone.
EventuallySent ==
    (tss # None \/ ctrlq # <<>> \/ userq # <<>>)
        ~> (pc = "closed" \/ (tss = None /\ ctrlq = <<>> /\ userq = <<>>))

-----------------------------------------------------------------------------
(* The inductive invariant.                                                 *)

\* The control queue is empty when nothing is being sent, except on the way
\* from one message to the next.
CtrlInv ==
    /\ pc \in {"wait", "batch", "inbound"} /\ tss = None => ctrlq = <<>>
    /\ pc \in {"respond", "check"} => ctrlq = <<>>
    /\ pc = "send" /\ caller = "last" => ctrlq = <<>>
    /\ pc = "flush" => ctrlq = <<Notice>>

\* When there is a message to go on with.
TssInv ==
    /\ pc = "respond" \/ (pc = "send" /\ caller # "last") => tss # None
    /\ pc \in {"drain", "check", "flush"} => tss = None

\* What epoll watches.  An EPOLLOUT that was reported is still wanted.
EpollInv ==
    /\ pc \in {"wait", "batch", "inbound"} /\ tss # None => "OUT" \in sockEv
    /\ queueEv = {} => "OUT" \in sockEv
    /\ "OUT" \in revents => "OUT" \in sockEv
    /\ pc \in {"send", "drain"} /\ caller = "outbound" => "OUT" \in sockEv \ revents
    /\ pc = "drain" => caller \in {"outbound", "queued"}
    /\ caller \in {"outbound", "queued", "last"}

\* The counts that number the responses.
CountInv == asked \in Nat /\ inbox \in 0..asked

IInv == Open => ctrlq \in Seq(Msg) /\ CountInv /\ CtrlInv /\ TssInv /\ EpollInv

-----------------------------------------------------------------------------
(* The inductive invariant behind WholeMessages and InOrder.                *)

\* Where the worker has a message, and whose.
HandInv ==
    /\ Sender \ connected \subseteq left
    /\ msg # None => tss = None /\ msg.subject \in Sender /\ pc \in {"check", "flush"}
    /\ pc \in {"check", "flush"} => msg # None
    /\ pc = "flush" => msg.subject \in left
    /\ pc = "send" => tss # None

OnWire(m) == \E k \in 1..Len(wire) : wire[k] = <<m, 1>>

\* A message that is partly sent is the last on the wire.
WireInv ==
    /\ buf_offset < Units
    /\ tss = None => buf_offset = 0
    /\ buf_offset = 0 => wire = <<>> \/ wire[Len(wire)][2] = Units
    /\ buf_offset > 0 => wire # <<>> /\ wire[Len(wire)] = <<tss, buf_offset>> /\ OnWire(tss)

\* How many messages of a name, or responses, there were so far.
Total == [s \in Sender \cup {None} |-> IF s = None THEN asked - inbox ELSE sent[s]]

\* The message the worker is about to send, which is in no queue.
InHand == {m \in {msg} \cup (IF buf_offset = 0 THEN {tss} ELSE {}) : m # None}

Before(m, q) == m.subject = q.subject /\ q.no > 0 => m.no < q.no

\* Both queues, and what was taken out of them last, are in the order sent.
QueueInv ==
    /\ \A i \in 1..Len(userq) : userq[i].subject \in Sender /\ userq[i].no > 0
    /\ \A i \in 1..Len(ctrlq) : ctrlq[i].subject = None
    /\ \A q \in {userq, ctrlq} :
         /\ \A i \in 1..Len(q) : q[i].no <= Total[q[i].subject]
         /\ \A i, j \in 1..Len(q) : i < j => Before(q[i], q[j])
         /\ \A m \in InHand : \A i \in 1..Len(q) : Before(m, q[i])
    /\ \A m \in InHand : m.no <= Total[m.subject]

\* So is the wire, and all on it was sent before what is not.
OrderInv ==
    /\ \A k \in 1..Len(wire) :
         /\ wire[k][1].no <= Total[wire[k][1].subject]
         /\ \A m \in InHand : Before(wire[k][1], m)
         /\ \A q \in {userq, ctrlq} : \A i \in 1..Len(q) : Before(wire[k][1], q[i])
    /\ \A j, k \in 1..Len(wire) :
         j < k /\ wire[j][2] = 1 /\ wire[k][2] = 1 => Before(wire[j][1], wire[k][1])

\* Nothing is lost of a name that never left, and no response.
GapInv ==
    \A s \in (Sender \cup {None}) \ left : \A n \in 1..Total[s] :
        LET m == [subject |-> s, no |-> n]
        IN  OnWire(m) \/ m \in InHand \/ \E q \in {userq, ctrlq} : \E i \in 1..Len(q) : q[i] = m

SentInv == TypeOK /\ HandInv /\ WireInv /\ QueueInv /\ OrderInv /\ GapInv /\ WholeMessages

=============================================================================
