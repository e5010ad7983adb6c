--------------------------- MODULE DeliveryProofs ---------------------------
(***************************************************************************)
(* Proofs about Delivery, for any senders, message sizes and socket         *)
(* buffers: whatever the handlers leave behind, epoll watches something     *)
(* that brings the worker back to it; and what is on the wire are whole     *)
(* messages, those of a sender in the order sent.                           *)
(***************************************************************************)
EXTENDS Delivery, SequenceTheorems, FiniteSetTheorems, TLAPS

\* Control messages are never NULL, and queueing them keeps the queue one of
\* messages.
LEMMA MessageFacts ==
    ASSUME ctrlq \in Seq(Msg), CountInv
    PROVE  /\ Notice \in Msg /\ Append(ctrlq, Notice) \in Seq(Msg)
           /\ inbox > 0 => Response \in Msg /\ Append(ctrlq, Response) \in Seq(Msg)
           /\ None \notin Msg
           /\ ctrlq # <<>> => Head(ctrlq) \in Msg /\ Tail(ctrlq) \in Seq(Msg)
<1>1. Notice \in Msg
  BY DEF Notice, Msg
<1>2. inbox > 0 => Response \in Msg
  BY DEF Response, Msg, CountInv
<1> QED
  BY <1>1, <1>2, DeliveryAssumption

\* Steps of the other threads, of the senders and of the client.
LEMMA OthersStep ==
    ASSUME IInv, \/ \E s \in Sender : Enqueue(s) \/ Disconnect(s) \/ Connect(s)
                 \/ PeerAsks \/ PeerReads \/ Fail \/ UNCHANGED vars
    PROVE  IInv'
<1>1. CASE Fail
  BY <1>1 DEF Fail, Goto, IInv, Open
<1>2. CASE ~ Fail
  <2>1. UNCHANGED <<ctrlq, tss, sockEv, queueEv, revents, pc, caller>>
    BY <1>2 DEF Enqueue, Disconnect, Connect, PeerAsks, PeerReads, vars, sendVars, epollVars
  <2>c. UNCHANGED <<inbox, asked>> \/ (inbox' = inbox + 1 /\ asked' = asked + 1)
    BY <1>2 DEF Enqueue, Disconnect, Connect, PeerAsks, PeerReads, vars, peerVars
  <2>2. CountInv => CountInv'
    BY <2>c DEF CountInv
  <2>3. Open' = Open
    BY <2>1 DEF Open
  <2>4. CtrlInv /\ TssInv /\ EpollInv => CtrlInv' /\ TssInv' /\ EpollInv'
    BY <2>1 DEF CtrlInv, TssInv, EpollInv
  <2> QED BY <2>1, <2>2, <2>3, <2>4 DEF IInv
<1> QED
  BY <1>1, <1>2

\* Steps between epoll_wait and the handlers.
LEMMA DispatchStep ==
    ASSUME IInv, epoll_wait \/ BatchDone \/ HandleIn \/ HandleOut \/ HandleQueue
    PROVE  IInv'
<1> USE DEF Goto
<1>1. /\ Open /\ ctrlq \in Seq(Msg) /\ CountInv /\ CtrlInv /\ TssInv /\ EpollInv
      /\ UNCHANGED <<tss, sockEv, queueEv, inbox, asked>>
  BY DEF epoll_wait, BatchDone, HandleIn, HandleOut, HandleQueue, IInv, Open, sendVars, epollVars, peerVars
<1>2. CountInv'
  BY <1>1 DEF CountInv
<1>3. "OUT" \in revents' => "OUT" \in sockEv
  BY <1>1 DEF epoll_wait, BatchDone, HandleIn, HandleOut, HandleQueue, Ready, EpollInv
<1>4. CASE epoll_wait \/ BatchDone \/ HandleIn
  <2>1. /\ ctrlq' = ctrlq /\ caller' = caller
        /\ pc \in {"wait", "batch"} /\ pc' \in {"wait", "batch", "inbound"}
    BY <1>4 DEF epoll_wait, BatchDone, HandleIn
  <2> QED BY <2>1, <1>1, <1>2, <1>3 DEF IInv, CtrlInv, TssInv, EpollInv
<1>5. CASE HandleOut \/ HandleQueue
  <2>1. /\ pc = "batch" /\ pc' = (IF tss # None THEN "send" ELSE "drain")
        /\ ctrlq' \in Seq(Msg) /\ (tss = None => ctrlq' = ctrlq)
        /\ caller' \in {"outbound", "queued"}
        /\ caller' = "outbound" => "OUT" \in revents \ revents'
    BY <1>1, <1>5, MessageFacts DEF HandleOut, HandleQueue, NotifyIfGone
  <2>2. CtrlInv' /\ TssInv'
    BY <2>1, <1>1 DEF CtrlInv, TssInv
  <2>3. EpollInv'
    BY <2>1, <1>1, <1>3 DEF EpollInv
  <2> QED BY <2>1, <2>2, <2>3, <1>2 DEF IInv
<1> QED
  BY <1>4, <1>5

\* wt_serve_response, and the end of wt_handle_inbound_data.
LEMMA InboundStep ==
    ASSUME IInv, ServeLater \/ ServeNow \/ InboundDone \/ RespondBlocked
    PROVE  IInv'
<1> USE DEF Goto
<1>1. /\ Open /\ ctrlq \in Seq(Msg) /\ CountInv /\ CtrlInv /\ TssInv /\ EpollInv
      /\ UNCHANGED <<queueEv, revents, caller>>
  BY DEF ServeLater, ServeNow, InboundDone, RespondBlocked, IInv, Open, epollVars
<1>2. CountInv'
  BY <1>1 DEF ServeLater, ServeNow, InboundDone, RespondBlocked, CountInv, peerVars
<1>3. CASE ServeLater
  <2>1. /\ pc = "inbound" /\ tss # None /\ ctrlq' \in Seq(Msg)
        /\ UNCHANGED <<tss, sockEv, pc>>
    BY <1>1, <1>3, MessageFacts DEF ServeLater, sendVars, epollVars
  <2> QED BY <2>1, <1>1, <1>2 DEF IInv, CtrlInv, TssInv, EpollInv
<1>4. CASE ServeNow
  <2>1. pc = "inbound" /\ tss = None /\ tss' # None /\ pc' = "respond" /\ UNCHANGED <<ctrlq, sockEv>>
    BY <1>1, <1>4, MessageFacts DEF ServeNow, epollVars
  <2> QED BY <2>1, <1>1, <1>2 DEF IInv, CtrlInv, TssInv, EpollInv
<1>5. CASE InboundDone
  <2>1. pc = "inbound" /\ pc' = "batch" /\ UNCHANGED <<tss, ctrlq, sockEv>>
    BY <1>5 DEF InboundDone, sendVars, epollVars
  <2> QED BY <2>1, <1>1, <1>2 DEF IInv, CtrlInv, TssInv, EpollInv
<1>6. CASE RespondBlocked
  <2>1. pc = "respond" /\ pc' = "inbound" /\ sockEv' = {"IN", "OUT"} /\ UNCHANGED <<tss, ctrlq>>
    BY <1>6 DEF RespondBlocked, sendVars
  <2> QED BY <2>1, <1>1, <1>2 DEF IInv, CtrlInv, TssInv, EpollInv
<1> QED
  BY <1>3, <1>4, <1>5, <1>6

\* send_one_msg, and the loop of wt_serve_response.
LEMMA SendStep ==
    ASSUME IInv, SendUnit \/ SendBlocked
    PROVE  IInv'
<1> USE DEF Goto
<1>1. /\ Open /\ ctrlq \in Seq(Msg) /\ CountInv /\ CtrlInv /\ TssInv /\ EpollInv
      /\ UNCHANGED <<ctrlq, revents, caller, inbox, asked>>
  BY DEF SendUnit, SendBlocked, IInv, Open, peerVars
<1>2. CountInv'
  BY <1>1 DEF CountInv
<1>3. CASE SendBlocked
  <2>1. pc = "send" /\ pc' = "batch" /\ tss' = tss
    BY <1>3 DEF SendBlocked, sendVars
  <2>2. CASE caller = "outbound"
    <3>1. UNCHANGED <<sockEv, queueEv>> /\ "OUT" \in sockEv
      BY <2>1, <2>2, <1>1, <1>3 DEF SendBlocked, EpollInv
    <3> QED BY <3>1, <2>1, <2>2, <1>1, <1>2 DEF IInv, CtrlInv, TssInv, EpollInv
  <2>3. CASE caller # "outbound"
    <3>1. "OUT" \in sockEv'
      BY <2>3, <1>3 DEF SendBlocked
    <3> QED BY <3>1, <2>1, <1>1, <1>2 DEF IInv, CtrlInv, TssInv, EpollInv
  <2> QED BY <2>2, <2>3
<1>4. CASE SendUnit
  <2>1. /\ pc \in {"respond", "send"} /\ UNCHANGED <<sockEv, queueEv>>
        /\ \/ tss' = tss /\ pc' = pc
           \/ tss' = None /\ pc' = (IF pc = "respond" THEN "inbound"
                                    ELSE IF caller = "last" THEN "batch" ELSE "drain")
    BY <1>4 DEF SendUnit, epollVars
  <2>2. CASE tss' = tss /\ pc' = pc
    BY <2>1, <2>2, <1>1, <1>2 DEF IInv, CtrlInv, TssInv, EpollInv
  <2>3. CASE /\ tss' = None
             /\ pc' = (IF pc = "respond" THEN "inbound" ELSE IF caller = "last" THEN "batch" ELSE "drain")
    <3>1. CtrlInv' /\ TssInv'
      BY <2>1, <2>3, <1>1 DEF CtrlInv, TssInv
    <3>2. EpollInv'
      BY <2>1, <2>3, <1>1 DEF EpollInv
    <3> QED BY <3>1, <3>2, <1>1, <1>2 DEF IInv
  <2> QED BY <2>1, <2>2, <2>3
<1> QED
  BY <1>3, <1>4

\* Emptying the control queue, then the message queue.
LEMMA QueueStep ==
    ASSUME IInv, DrainOne \/ OutboundDone \/ Take \/ SendTaken \/ NotifyGone \/ Flush
    PROVE  IInv'
<1> USE DEF Goto
<1>1. /\ Open /\ ctrlq \in Seq(Msg) /\ CountInv /\ CtrlInv /\ TssInv /\ EpollInv
      /\ UNCHANGED <<revents, inbox, asked>>
  BY DEF DrainOne, OutboundDone, Take, SendTaken, NotifyGone, Flush, IInv, Open, peerVars
<1>2. CountInv'
  BY <1>1 DEF CountInv
<1>3. CASE DrainOne
  <2>1. /\ pc = "drain" /\ pc' = "send" /\ tss' # None /\ ctrlq' \in Seq(Msg)
        /\ UNCHANGED <<sockEv, queueEv, caller>>
    BY <1>1, <1>3, MessageFacts DEF DrainOne, epollVars
  <2> QED BY <2>1, <1>1, <1>2 DEF IInv, CtrlInv, TssInv, EpollInv
<1>4. CASE OutboundDone
  <2>1. /\ pc = "drain" /\ pc' = "batch" /\ ctrlq = <<>> /\ queueEv' = {"IN"}
        /\ UNCHANGED <<tss, ctrlq, caller>> /\ caller = "outbound"
    BY <1>4 DEF OutboundDone, sendVars
  <2> QED BY <2>1, <1>1, <1>2 DEF IInv, CtrlInv, TssInv, EpollInv
<1>5. CASE Take
  <2>1. pc = "drain" /\ pc' = "check" /\ ctrlq = <<>> /\ UNCHANGED <<tss, ctrlq, sockEv, queueEv, caller>>
    BY <1>5 DEF Take, epollVars
  <2> QED BY <2>1, <1>1, <1>2 DEF IInv, CtrlInv, TssInv, EpollInv
<1>6. CASE SendTaken
  <2>1. pc = "check" /\ pc' = "send" /\ caller' = "last" /\ UNCHANGED <<ctrlq, sockEv, queueEv>>
    BY <1>6 DEF SendTaken, epollVars
  <2> QED BY <2>1, <1>1, <1>2 DEF IInv, CtrlInv, TssInv, EpollInv
<1>7. CASE NotifyGone
  <2>1. /\ pc = "check" /\ pc' = "flush" /\ ctrlq' = Append(ctrlq, Notice) /\ ctrlq' \in Seq(Msg)
        /\ UNCHANGED <<tss, sockEv, queueEv, caller>>
    BY <1>1, <1>7, MessageFacts DEF NotifyGone, sendVars, epollVars
  <2>2. ctrlq' = <<Notice>>
    BY <2>1, <1>1 DEF CtrlInv
  <2> QED BY <2>1, <2>2, <1>1, <1>2 DEF IInv, CtrlInv, TssInv, EpollInv
<1>8. CASE Flush
  <2>1. /\ pc = "flush" /\ pc' = "send" /\ caller' = "last" /\ ctrlq' = Tail(ctrlq)
        /\ UNCHANGED <<sockEv, queueEv>>
    BY <1>8 DEF Flush, epollVars
  <2>2. ctrlq' = <<>>
    BY <2>1, <1>1 DEF CtrlInv
  <2>3. ctrlq' \in Seq(Msg)
    BY <2>2, EmptySeq
  <2> QED BY <2>1, <2>2, <2>3, <1>1, <1>2 DEF IInv, CtrlInv, TssInv, EpollInv
<1> QED
  BY <1>3, <1>4, <1>5, <1>6, <1>7, <1>8

-----------------------------------------------------------------------------
(* The order of the messages.                                               *)

LEMMA ConstantFacts ==
    /\ None \notin Sender /\ None \notin Msg
    /\ Units \in Nat \ {0} /\ SendBuf \in Nat \ {0}
BY DeliveryAssumption

LEMMA MsgFields ==
    ASSUME NEW m \in Msg
    PROVE  /\ m # None /\ m.subject \in Sender \cup {None} /\ m.no \in Nat
           /\ m = [subject |-> m.subject, no |-> m.no]
BY DeliveryAssumption DEF Msg

LEMMA TotalValue ==
    /\ \A s \in Sender \cup {None} : Total[s] = (IF s = None THEN asked - inbox ELSE sent[s])
    /\ \A s \in Sender \cup {None} : Total'[s] = (IF s = None THEN asked' - inbox' ELSE sent'[s])
BY DEF Total

LEMMA TotalFacts ==
    ASSUME TypeOK
    PROVE  /\ \A s \in Sender : Total[s] = sent[s] /\ Total[s] \in Int
           /\ Total[None] = asked - inbox /\ Total[None] \in Int
<1>1. \A s \in Sender \cup {None} : Total[s] = (IF s = None THEN asked - inbox ELSE sent[s])
  BY TotalValue
<1>2. asked - inbox \in Int /\ \A s \in Sender : sent[s] \in Int /\ s # None
  BY ConstantFacts DEF TypeOK
<1> QED
  BY <1>1, <1>2

\* What is not NULL is a message.
LEMMA PendingFacts ==
    ASSUME TypeOK
    PROVE  /\ \A m \in InHand : m \in Msg
           /\ userq \in Seq(Msg) /\ ctrlq \in Seq(Msg)
           /\ \A i \in 1..Len(userq) : userq[i] \in Msg
           /\ \A i \in 1..Len(ctrlq) : ctrlq[i] \in Msg
           /\ \A k \in 1..Len(wire) : wire[k][1] \in Msg /\ wire[k][2] \in Nat
BY DEF InHand, TypeOK

\* A step that moves no message: names may leave, the worker may go anywhere.
LEMMA OrderFrame ==
    ASSUME SentInv, UNCHANGED <<userq, ctrlq, wire>>, Total' = Total, InHand' = InHand, left \subseteq left'
    PROVE  QueueInv' /\ OrderInv' /\ GapInv' /\ WholeMessages'
<1>1. \A m : OnWire(m)' = OnWire(m)
  BY DEF OnWire
<1>2. QueueInv'
  BY DEF SentInv, QueueInv
<1>3. OrderInv'
  BY DEF SentInv, OrderInv
<1>4. GapInv'
  BY <1>1 DEF SentInv, GapInv
<1>5. WholeMessages'
  BY DEF SentInv, WholeMessages
<1> QED
  BY <1>2, <1>3, <1>4, <1>5

LEMMA WireFrame ==
    ASSUME WireInv, UNCHANGED <<tss, buf_offset, wire>>
    PROVE  WireInv'
BY DEF WireInv, OnWire

LEMMA IdleSteps ==
    ASSUME SentInv, IInv,
           \/ \E s \in Sender : Disconnect(s) \/ Connect(s)
           \/ PeerAsks \/ PeerReads \/ Fail \/ UNCHANGED vars
           \/ epoll_wait \/ BatchDone \/ HandleIn \/ InboundDone \/ RespondBlocked
           \/ SendBlocked \/ OutboundDone
    PROVE  SentInv'
<1> USE DEF Goto
<1>1. /\ UNCHANGED <<sent, userq, ctrlq, tss, buf_offset, msg, wire>>
      /\ left \subseteq left'
  BY DEF Disconnect, Connect, PeerAsks, PeerReads, Fail, epoll_wait, BatchDone, HandleIn, InboundDone,
         RespondBlocked, SendBlocked, OutboundDone, vars, othersVars, sendVars
<1>2. UNCHANGED <<inbox, asked>> \/ (inbox' = inbox + 1 /\ asked' = asked + 1)
  BY DEF Disconnect, Connect, PeerAsks, PeerReads, Fail, epoll_wait, BatchDone, HandleIn, InboundDone,
         RespondBlocked, SendBlocked, OutboundDone, vars, peerVars
<1>3. asked' - inbox' = asked - inbox /\ asked' \in Nat /\ inbox' \in Nat
  <2>1. asked \in Nat /\ inbox \in Nat
    BY DEF SentInv, TypeOK
  <2>2. CASE UNCHANGED <<inbox, asked>>
    BY <2>1, <2>2
  <2>3. CASE inbox' = inbox + 1 /\ asked' = asked + 1
    BY <2>1, <2>3
  <2> QED
    BY <1>2, <2>2, <2>3
<1>4. WireInv' /\ QueueInv' /\ OrderInv' /\ GapInv' /\ WholeMessages'
  <2>1. Total' = Total /\ InHand' = InHand
    BY <1>1, <1>3 DEF Total, InHand
  <2> QED
    BY <1>1, <2>1, OrderFrame, WireFrame DEF SentInv
<1>5. /\ connected' \in SUBSET Sender /\ left' \in SUBSET Sender
      /\ Sender \ connected' \subseteq left'
  BY DEF SentInv, TypeOK, HandInv, Disconnect, Connect, PeerAsks, PeerReads, Fail, epoll_wait, BatchDone, HandleIn,
         InboundDone, RespondBlocked, SendBlocked, OutboundDone, vars, othersVars
<1>6. room' \in Nat
  BY DEF SentInv, TypeOK, Disconnect, Connect, PeerAsks, PeerReads, Fail, epoll_wait, BatchDone, HandleIn,
         InboundDone, RespondBlocked, SendBlocked, OutboundDone, vars
<1>7. /\ sockEv' \in SUBSET {"IN", "OUT"} /\ queueEv' \in SUBSET {"IN"}
      /\ revents' \in SUBSET {"IN", "OUT", "QUEUE"}
  BY DEF SentInv, TypeOK, Disconnect, Connect, PeerAsks, PeerReads, Fail, epoll_wait, BatchDone, HandleIn,
         InboundDone, RespondBlocked, SendBlocked, OutboundDone, vars, epollVars, Ready
<1>8. /\ caller' = caller
      /\ \/ pc' = pc
         \/ pc \notin {"check", "flush"} /\ pc' \in {"closed", "batch", "wait", "inbound"}
  BY DEF Disconnect, Connect, PeerAsks, PeerReads, Fail, epoll_wait, BatchDone, HandleIn,
         InboundDone, RespondBlocked, SendBlocked, OutboundDone, vars
<1>9. TypeOK'
  BY <1>1, <1>3, <1>5, <1>6, <1>7, <1>8 DEF SentInv, TypeOK
<1>10. HandInv'
  BY <1>1, <1>5, <1>8 DEF SentInv, HandInv
<1> QED
  BY <1>4, <1>9, <1>10 DEF SentInv

\* One message more at the end of a queue, of a name that all before it were
\* sent before.
LEMMA AppendFacts ==
    ASSUME NEW q \in Seq(Msg), NEW m \in Msg
    PROVE  /\ Append(q, m) \in Seq(Msg) /\ Len(Append(q, m)) = Len(q) + 1 /\ Len(q) \in Nat
           /\ \A i \in 1..Len(q) : Append(q, m)[i] = q[i]
           /\ Append(q, m)[Len(q) + 1] = m
OBVIOUS

LEMMA TailFacts ==
    ASSUME NEW q \in Seq(Msg), q # <<>>
    PROVE  /\ Head(q) = q[1] /\ Head(q) \in Msg /\ Tail(q) \in Seq(Msg) /\ Len(Tail(q)) = Len(q) - 1 /\ Len(q) \in Nat \ {0}
           /\ \A i \in 1..Len(q) - 1 : Tail(q)[i] = q[i + 1]
<1>1. Len(q) \in Nat \ {0}
  BY EmptySeq
<1> QED
  BY <1>1

LEMMA EnqueueStep ==
    ASSUME SentInv, NEW s \in Sender, Enqueue(s)
    PROVE  SentInv'
<1> DEFINE m == [subject |-> s, no |-> sent[s] + 1]
<1>1. /\ UNCHANGED <<connected, left, ctrlq, tss, buf_offset, msg, sockEv, queueEv, revents, pc, caller, inbox, asked, room, wire>>
      /\ sent' = [sent EXCEPT ![s] = sent[s] + 1] /\ userq' = Append(userq, m)
  BY DEF Enqueue, sendVars, epollVars, peerVars
<1>2. m \in Msg /\ sent[s] \in Nat
  BY DEF SentInv, TypeOK, Msg
<1>3. m.subject = s /\ m.no = sent[s] + 1 /\ s # None
  BY ConstantFacts
<1> HIDE DEF m
<1>4. userq \in Seq(Msg) /\ ctrlq \in Seq(Msg)
  BY DEF SentInv, TypeOK
<1>5. /\ userq' \in Seq(Msg) /\ Len(userq') = Len(userq) + 1 /\ Len(userq) \in Nat
      /\ (\A i \in 1..Len(userq) : userq'[i] = userq[i]) /\ userq'[Len(userq) + 1] = m
  BY <1>1, <1>2, <1>4, AppendFacts
<1>6. TypeOK'
  BY <1>1, <1>2, <1>5 DEF SentInv, TypeOK
<1>7. HandInv'
  BY <1>1 DEF SentInv, HandInv
<1>8. InHand' = InHand /\ (\A x : OnWire(x)' = OnWire(x))
  BY <1>1 DEF InHand, OnWire
<1>9. WireInv' /\ WholeMessages'
  BY <1>1, <1>8 DEF SentInv, WireInv, WholeMessages
<1>10. /\ Total[s] = sent[s] /\ Total'[s] = sent[s] + 1
       /\ \A x \in Sender \cup {None} : x # s => Total'[x] = Total[x]
       /\ \A x \in Sender \cup {None} : Total[x] \in Int /\ Total[x] <= Total'[x]
  <2>1. Total[s] = sent[s] /\ Total'[s] = sent[s] + 1
    BY <1>1, <1>2, <1>3, TotalValue DEF SentInv, TypeOK
  <2>2. \A x \in Sender : x # s => sent'[x] = sent[x]
    BY <1>1 DEF SentInv, TypeOK
  <2>3. \A x \in Sender \cup {None} : x # s => Total'[x] = Total[x]
    BY <1>1, <2>2, TotalValue
  <2>4. \A x \in Sender \cup {None} : Total[x] \in Int
    BY TotalFacts DEF SentInv
  <2> QED
    BY <1>2, <2>1, <2>3, <2>4
<1>11. \A x \in Msg : x.no <= Total[x.subject] => x.no <= Total'[x.subject] /\ Before(x, m)
  <2> SUFFICES ASSUME NEW x \in Msg, x.no <= Total[x.subject]
               PROVE  x.no <= Total'[x.subject] /\ Before(x, m)
    OBVIOUS
  <2>1. x.subject \in Sender \cup {None} /\ x.no \in Nat
    BY MsgFields
  <2> QED
    BY <1>2, <1>3, <1>10, <2>1 DEF Before
<1>12. \A x \in InHand : x \in Msg
  BY PendingFacts DEF SentInv
<1>13. \A i \in 1..Len(userq) : userq[i] \in Msg
  BY PendingFacts DEF SentInv
<1>14. \A i \in 1..Len(ctrlq) : ctrlq[i] \in Msg
  BY PendingFacts DEF SentInv
<1>15. \A k \in 1..Len(wire) : wire[k][1] \in Msg
  BY PendingFacts DEF SentInv
<1>16. QueueInv'
  <2>1. \A i \in 1..Len(userq') : userq'[i].subject \in Sender /\ userq'[i].no > 0
    BY <1>2, <1>3, <1>5 DEF SentInv, QueueInv
  <2>2. \A i \in 1..Len(ctrlq) : ctrlq[i].subject = None /\ ctrlq[i].no <= Total'[ctrlq[i].subject]
    BY <1>11, <1>14 DEF SentInv, QueueInv
  <2>3. \A i \in 1..Len(userq') : userq'[i].no <= Total'[userq'[i].subject]
    BY <1>2, <1>3, <1>5, <1>10, <1>11, <1>13 DEF SentInv, QueueInv
  <2>4. \A i, j \in 1..Len(userq') : i < j => Before(userq'[i], userq'[j])
    BY <1>5, <1>11, <1>13 DEF SentInv, QueueInv
  <2>5. \A x \in InHand : \A i \in 1..Len(userq') : Before(x, userq'[i])
    BY <1>5, <1>11, <1>12 DEF SentInv, QueueInv
  <2>6. \A x \in InHand : x.no <= Total'[x.subject]
    BY <1>11, <1>12 DEF SentInv, QueueInv
  <2> QED
    BY <1>1, <1>8, <2>1, <2>2, <2>3, <2>4, <2>5, <2>6 DEF SentInv, QueueInv
<1>17. OrderInv'
  <2>1. \A k \in 1..Len(wire) : wire[k][1].no <= Total'[wire[k][1].subject]
    BY <1>11, <1>15 DEF SentInv, OrderInv
  <2>2. \A k \in 1..Len(wire) : \A i \in 1..Len(userq') : Before(wire[k][1], userq'[i])
    BY <1>5, <1>11, <1>15 DEF SentInv, OrderInv
  <2> QED
    BY <1>1, <1>8, <2>1, <2>2 DEF SentInv, OrderInv
<1>18. GapInv'
  <2> SUFFICES ASSUME NEW x \in (Sender \cup {None}) \ left, NEW n \in 1..Total'[x]
               PROVE  LET y == [subject |-> x, no |-> n]
                      IN  \/ OnWire(y)' \/ y \in InHand'
                          \/ \E i \in 1..Len(userq') : userq'[i] = y
                          \/ \E i \in 1..Len(ctrlq') : ctrlq'[i] = y
    BY <1>1 DEF GapInv
  <2>1. CASE x = s /\ n = sent[s] + 1
    BY <1>5, <2>1 DEF m
  <2>2. CASE ~(x = s /\ n = sent[s] + 1)
    <3>1. n \in 1..Total[x]
      BY <1>2, <1>10, <2>2
    <3>2. LET y == [subject |-> x, no |-> n]
          IN  \/ OnWire(y) \/ y \in InHand
              \/ \E i \in 1..Len(userq) : userq[i] = y
              \/ \E i \in 1..Len(ctrlq) : ctrlq[i] = y
      BY <3>1 DEF SentInv, GapInv
    <3> QED
      BY <1>1, <1>5, <1>8, <3>2
  <2> QED
    BY <2>1, <2>2
<1> QED
  BY <1>6, <1>7, <1>9, <1>16, <1>17, <1>18 DEF SentInv

\* The same for the control queue: a response is the next one, a notice has no
\* number.
LEMMA CtrlAppend ==
    ASSUME SentInv, TypeOK', NEW m \in Msg, m.subject = None, ctrlq' = Append(ctrlq, m),
           UNCHANGED <<left, userq, tss, buf_offset, msg, wire>>,
           \A x \in Sender : Total'[x] = Total[x],
           m.no = 0 => Total'[None] = Total[None] /\ Total[None] >= 0,
           m.no > 0 => m.no = Total[None] + 1 /\ Total'[None] = m.no
    PROVE  WireInv' /\ QueueInv' /\ OrderInv' /\ GapInv' /\ WholeMessages'
<1>1. ctrlq \in Seq(Msg) /\ m.no \in Nat
  BY MsgFields DEF SentInv, TypeOK
<1>2. /\ Len(ctrlq') = Len(ctrlq) + 1 /\ Len(ctrlq) \in Nat
      /\ (\A i \in 1..Len(ctrlq) : ctrlq'[i] = ctrlq[i]) /\ ctrlq'[Len(ctrlq) + 1] = m
  BY <1>1, AppendFacts
<1>3. InHand' = InHand /\ (\A x : OnWire(x)' = OnWire(x))
  BY DEF InHand, OnWire
<1>4. WireInv' /\ WholeMessages'
  BY WireFrame DEF SentInv, WholeMessages
<1>5. \A x \in Sender \cup {None} : Total[x] \in Int /\ Total'[x] \in Int /\ Total[x] <= Total'[x]
  <2>1. \A x \in Sender \cup {None} : Total[x] \in Int
    BY TotalFacts DEF SentInv
  <2> QED
    BY <1>1, <2>1
<1>6. \A x \in Msg : x.no <= Total[x.subject] => x.no <= Total'[x.subject] /\ Before(x, m)
  <2> SUFFICES ASSUME NEW x \in Msg, x.no <= Total[x.subject]
               PROVE  x.no <= Total'[x.subject] /\ Before(x, m)
    OBVIOUS
  <2>1. x.subject \in Sender \cup {None} /\ x.no \in Nat
    BY MsgFields
  <2> QED
    BY <1>1, <1>5, <2>1 DEF Before
<1>7. m.no <= Total'[None]
  BY <1>1
<1>8. \A x \in InHand : x \in Msg
  BY PendingFacts DEF SentInv
<1>9. \A i \in 1..Len(userq) : userq[i] \in Msg
  BY PendingFacts DEF SentInv
<1>10. \A i \in 1..Len(ctrlq) : ctrlq[i] \in Msg
  BY PendingFacts DEF SentInv
<1>11. \A k \in 1..Len(wire) : wire[k][1] \in Msg
  BY PendingFacts DEF SentInv
<1>12. QueueInv'
  <2>1. \A i \in 1..Len(ctrlq') : ctrlq'[i].subject = None
    BY <1>2 DEF SentInv, QueueInv
  <2>2. \A i \in 1..Len(userq) : userq[i].no <= Total'[userq[i].subject]
    BY <1>6, <1>9 DEF SentInv, QueueInv
  <2>3. \A i \in 1..Len(ctrlq') : ctrlq'[i].no <= Total'[ctrlq'[i].subject]
    <3> SUFFICES ASSUME NEW i \in 1..Len(ctrlq')
                 PROVE  ctrlq'[i].no <= Total'[ctrlq'[i].subject]
      OBVIOUS
    <3>1. CASE i \in 1..Len(ctrlq)
      <4>1. ctrlq'[i] = ctrlq[i] /\ ctrlq[i].no <= Total[ctrlq[i].subject]
        BY <1>2, <3>1 DEF SentInv, QueueInv
      <4> QED
        BY <1>6, <1>10, <3>1, <4>1
    <3>2. CASE i = Len(ctrlq) + 1
      BY <1>2, <1>7, <3>2
    <3> QED
      BY <1>2, <3>1, <3>2
  <2>4. \A i, j \in 1..Len(ctrlq') : i < j => Before(ctrlq'[i], ctrlq'[j])
    BY <1>2, <1>6, <1>10 DEF SentInv, QueueInv
  <2>5. \A x \in InHand : \A i \in 1..Len(ctrlq') : Before(x, ctrlq'[i])
    BY <1>2, <1>6, <1>8 DEF SentInv, QueueInv
  <2>6. \A x \in InHand : x.no <= Total'[x.subject]
    BY <1>6, <1>8 DEF SentInv, QueueInv
  <2> QED
    BY <1>3, <2>1, <2>2, <2>3, <2>4, <2>5, <2>6 DEF SentInv, QueueInv
<1>13. OrderInv'
  <2>1. \A k \in 1..Len(wire) : wire[k][1].no <= Total'[wire[k][1].subject]
    BY <1>6, <1>11 DEF SentInv, OrderInv
  <2>2. \A k \in 1..Len(wire) : \A i \in 1..Len(ctrlq') : Before(wire[k][1], ctrlq'[i])
    BY <1>2, <1>6, <1>11 DEF SentInv, OrderInv
  <2> QED
    BY <1>3, <2>1, <2>2 DEF SentInv, OrderInv
<1>14. GapInv'
  <2> SUFFICES ASSUME NEW x \in (Sender \cup {None}) \ left, NEW n \in 1..Total'[x]
               PROVE  LET y == [subject |-> x, no |-> n]
                      IN  \/ OnWire(y)' \/ y \in InHand'
                          \/ \E i \in 1..Len(userq') : userq'[i] = y
                          \/ \E i \in 1..Len(ctrlq') : ctrlq'[i] = y
    BY ZenonT(30) DEF GapInv
  <2>1. CASE x = None /\ n = m.no
    <3>1. m = [subject |-> x, no |-> n]
      BY <2>1, MsgFields
    <3> QED
      BY <1>2, <3>1
  <2>2. CASE ~(x = None /\ n = m.no)
    <3>1. n \in 1..Total[x]
      BY <1>1, <1>5, <2>2
    <3>2. LET y == [subject |-> x, no |-> n]
          IN  \/ OnWire(y) \/ y \in InHand
              \/ \E i \in 1..Len(userq) : userq[i] = y
              \/ \E i \in 1..Len(ctrlq) : ctrlq[i] = y
      BY <3>1 DEF SentInv, GapInv
    <3> QED
      BY <1>2, <1>3, <3>2
  <2> QED
    BY <2>1, <2>2
<1> QED
  BY <1>4, <1>12, <1>13, <1>14

LEMMA NoticeSteps ==
    ASSUME SentInv, IInv, HandleOut \/ HandleQueue \/ NotifyGone
    PROVE  SentInv'
<1> USE DEF Goto
<1>1. /\ UNCHANGED <<connected, left, sent, userq, tss, buf_offset, msg, sockEv, queueEv, inbox, asked, room, wire>>
      /\ pc \in {"batch", "check"}
  BY DEF HandleOut, HandleQueue, NotifyGone, othersVars, sendVars, epollVars, peerVars
<1>2. /\ ctrlq' = ctrlq \/ ctrlq' = Append(ctrlq, Notice)
      /\ caller' \in {"outbound", "queued", "last"} /\ revents' \in SUBSET {"IN", "OUT", "QUEUE"}
      /\ pc = "batch" => pc' \in {"send", "drain"} /\ (pc' = "send" => tss # None)
      /\ pc = "check" => pc' = "flush" /\ msg.subject \notin connected
  BY DEF HandleOut, HandleQueue, NotifyGone, NotifyIfGone, SentInv, TypeOK
<1>3. Open /\ CountInv /\ ctrlq \in Seq(Msg)
  BY <1>1 DEF IInv, Open
<1>4. Notice \in Msg /\ Notice.subject = None /\ Notice.no = 0 /\ Append(ctrlq, Notice) \in Seq(Msg)
  BY <1>3, MessageFacts DEF Notice
<1>5. TypeOK'
  <2>1. ctrlq' \in Seq(Msg)
    BY <1>2, <1>3, <1>4
  <2>2. pc' \in {"send", "drain", "flush"}
    BY <1>1, <1>2
  <2> QED
    BY <1>1, <1>2, <2>1, <2>2 DEF SentInv, TypeOK
<1>6. HandInv'
  BY <1>1, <1>2 DEF SentInv, HandInv
<1>7. Total' = Total /\ InHand' = InHand /\ Total[None] >= 0
  <2>1. Total' = Total /\ InHand' = InHand
    BY <1>1 DEF Total, InHand
  <2>2. Total[None] = asked - inbox
    BY TotalFacts DEF SentInv
  <2> QED
    BY <1>3, <2>1, <2>2 DEF CountInv
<1>8. WireInv' /\ QueueInv' /\ OrderInv' /\ GapInv' /\ WholeMessages'
  <2>1. CASE ctrlq' = ctrlq
    BY <1>1, <1>7, <2>1, OrderFrame, WireFrame DEF SentInv
  <2>2. CASE ctrlq' = Append(ctrlq, Notice)
    BY <1>1, <1>4, <1>5, <1>7, <2>2, CtrlAppend
  <2> QED
    BY <1>2, <2>1, <2>2
<1> QED
  BY <1>5, <1>6, <1>8 DEF SentInv

\* Answering a request adds one to the responses and to nothing else.
LEMMA OneMore ==
    ASSUME TypeOK, CountInv, inbox > 0, inbox' = inbox - 1, UNCHANGED <<asked, sent>>
    PROVE  /\ Total[None] = asked - inbox /\ Total'[None] = asked - inbox + 1
           /\ \A x \in Sender : Total'[x] = Total[x] /\ Total[x] \in Int
<1>1. Total[None] = asked - inbox /\ Total'[None] = asked' - inbox'
  BY TotalValue
<1>2. asked' - inbox' = asked - inbox + 1
  BY DEF CountInv
<1>3. ASSUME NEW x \in Sender
      PROVE  Total'[x] = Total[x] /\ Total[x] \in Int
  <2>1. Total[x] = sent[x] /\ Total'[x] = sent'[x]
    BY TotalValue, ConstantFacts
  <2> QED
    BY <2>1 DEF TypeOK
<1> QED
  BY <1>1, <1>2, <1>3

LEMMA ServeLaterStep ==
    ASSUME SentInv, IInv, ServeLater
    PROVE  SentInv'
<1>1. /\ UNCHANGED <<connected, left, sent, userq, tss, buf_offset, msg, sockEv, queueEv, revents, pc, caller, asked, room, wire>>
      /\ inbox' = inbox - 1 /\ inbox > 0 /\ ctrlq' = Append(ctrlq, Response) /\ pc = "inbound"
  BY DEF ServeLater, othersVars, sendVars, epollVars
<1>2. Open /\ CountInv /\ ctrlq \in Seq(Msg)
  BY <1>1 DEF IInv, Open
<1>3. PICK m \in Msg : m = Response
  BY <1>1, <1>2, MessageFacts
<1>4. m.subject = None /\ m.no = asked - inbox + 1 /\ ctrlq' = Append(ctrlq, m) /\ ctrlq' \in Seq(Msg)
  <2>1. Append(ctrlq, Response) \in Seq(Msg)
    BY <1>1, <1>2, MessageFacts
  <2>2. Response.subject = None /\ Response.no = asked - inbox + 1
    BY DEF Response
  <2> QED
    BY <1>1, <1>3, <2>1, <2>2
<1>5. TypeOK'
  BY <1>1, <1>2, <1>4 DEF SentInv, TypeOK, CountInv
<1>6. HandInv'
  BY <1>1 DEF SentInv, HandInv
<1>7. /\ Total[None] = asked - inbox /\ Total'[None] = asked - inbox + 1
      /\ \A x \in Sender : Total'[x] = Total[x]
  <2>1. TypeOK
    BY DEF SentInv
  <2> QED
    BY <1>1, <1>2, <2>1, OneMore
<1>8. m.no > 0 /\ m.no = Total[None] + 1 /\ Total'[None] = m.no
  BY <1>2, <1>4, <1>7 DEF CountInv
<1>9. WireInv' /\ QueueInv' /\ OrderInv' /\ GapInv' /\ WholeMessages'
  BY <1>1, <1>4, <1>5, <1>7, <1>8, CtrlAppend
<1> QED
  BY <1>5, <1>6, <1>9 DEF SentInv

\* Where a message is that was sent under a name that never left.
LEMMA NotLost ==
    ASSUME GapInv, NEW s \in (Sender \cup {None}) \ left, NEW n \in 1..Total[s],
           NEW y, y = [subject |-> s, no |-> n]
    PROVE  \/ OnWire(y) \/ y \in InHand
           \/ \E i \in 1..Len(userq) : userq[i] = y
           \/ \E i \in 1..Len(ctrlq) : ctrlq[i] = y
BY DEF GapInv

\* A message becomes the one in hand: nothing was in hand before, all on the
\* wire was sent before it, all in the queues after it.
LEMMA IntoHand ==
    ASSUME SentInv, NEW m \in Msg, InHand = {}, InHand' = {m}, UNCHANGED <<left, wire>>,
           \A x \in Sender \cup {None} : Total'[x] \in Int /\ Total[x] <= Total'[x]
                                         /\ (x # m.subject => Total'[x] = Total[x]),
           m.no <= Total'[m.subject], Total'[m.subject] <= Total[m.subject] + 1,
           Total'[m.subject] # Total[m.subject] => m.no = Total'[m.subject],
           \A k \in 1..Len(wire) : Before(wire[k][1], m),
           userq' \in Seq(Msg), ctrlq' \in Seq(Msg),
           \A i \in 1..Len(userq') : \E j \in 1..Len(userq) : userq'[i] = userq[j],
           \A i \in 1..Len(ctrlq') : \E j \in 1..Len(ctrlq) : ctrlq'[i] = ctrlq[j],
           \A i \in 1..Len(userq) : userq[i] = m \/ \E j \in 1..Len(userq') : userq'[j] = userq[i],
           \A i \in 1..Len(ctrlq) : ctrlq[i] = m \/ \E j \in 1..Len(ctrlq') : ctrlq'[j] = ctrlq[i],
           \A i, j \in 1..Len(userq') : i < j => Before(userq'[i], userq'[j]),
           \A i, j \in 1..Len(ctrlq') : i < j => Before(ctrlq'[i], ctrlq'[j]),
           \A i \in 1..Len(userq') : Before(m, userq'[i]),
           \A i \in 1..Len(ctrlq') : Before(m, ctrlq'[i])
    PROVE  QueueInv' /\ OrderInv' /\ GapInv' /\ WholeMessages'
<1>1. \A x : OnWire(x)' = OnWire(x)
  BY DEF OnWire
<1>2. WholeMessages'
  BY DEF SentInv, WholeMessages
<1>3. \A x \in Sender \cup {None} : Total[x] \in Int
  BY TotalFacts DEF SentInv
<1>4. \A x \in Msg : x.no <= Total[x.subject] => x.no <= Total'[x.subject]
  <2> SUFFICES ASSUME NEW x \in Msg, x.no <= Total[x.subject]
               PROVE  x.no <= Total'[x.subject]
    OBVIOUS
  <2>1. x.subject \in Sender \cup {None} /\ x.no \in Nat
    BY MsgFields
  <2> QED
    BY <1>3, <2>1
<1>5. \A i \in 1..Len(userq) : userq[i] \in Msg
  BY PendingFacts DEF SentInv
<1>6. \A i \in 1..Len(ctrlq) : ctrlq[i] \in Msg
  BY PendingFacts DEF SentInv
<1>7. \A k \in 1..Len(wire) : wire[k][1] \in Msg
  BY PendingFacts DEF SentInv
<1>8. QueueInv'
  <2>1. \A i \in 1..Len(userq) : /\ userq[i].subject \in Sender /\ userq[i].no > 0
                                 /\ userq[i].no <= Total'[userq[i].subject]
    BY <1>4, <1>5 DEF SentInv, QueueInv
  <2>2. \A i \in 1..Len(ctrlq) : ctrlq[i].subject = None /\ ctrlq[i].no <= Total'[ctrlq[i].subject]
    BY <1>4, <1>6 DEF SentInv, QueueInv
  <2>3. \A i \in 1..Len(userq') : /\ userq'[i].subject \in Sender /\ userq'[i].no > 0
                                  /\ userq'[i].no <= Total'[userq'[i].subject]
    BY <2>1
  <2>4. \A i \in 1..Len(ctrlq') : ctrlq'[i].subject = None /\ ctrlq'[i].no <= Total'[ctrlq'[i].subject]
    BY <2>2
  <2> QED
    BY <2>3, <2>4 DEF QueueInv
<1>9. OrderInv'
  <2>1. \A k \in 1..Len(wire) : wire[k][1].no <= Total'[wire[k][1].subject]
    BY <1>4, <1>7 DEF SentInv, OrderInv
  <2>2. \A k \in 1..Len(wire) : \A i \in 1..Len(userq') : Before(wire[k][1], userq'[i])
    BY DEF SentInv, OrderInv
  <2>3. \A k \in 1..Len(wire) : \A i \in 1..Len(ctrlq') : Before(wire[k][1], ctrlq'[i])
    BY DEF SentInv, OrderInv
  <2> QED
    BY <2>1, <2>2, <2>3 DEF SentInv, OrderInv
<1>10. GapInv'
  <2> SUFFICES ASSUME NEW x \in (Sender \cup {None}) \ left, NEW n \in 1..Total'[x]
               PROVE  LET z == [subject |-> x, no |-> n]
                      IN  \/ OnWire(z)' \/ z \in InHand'
                          \/ \E i \in 1..Len(userq') : userq'[i] = z
                          \/ \E i \in 1..Len(ctrlq') : ctrlq'[i] = z
    BY DEF GapInv
  <2>a. PICK y : y = [subject |-> x, no |-> n]
    OBVIOUS
  <2> SUFFICES \/ OnWire(y)' \/ y \in InHand'
               \/ \E i \in 1..Len(userq') : userq'[i] = y
               \/ \E i \in 1..Len(ctrlq') : ctrlq'[i] = y
    BY <2>a
  <2>1. m = [subject |-> m.subject, no |-> m.no]
    BY MsgFields
  <2>2. CASE n \in 1..Total[x]
    <3>1. GapInv
      BY DEF SentInv
    <3>2. \/ OnWire(y) \/ y \in InHand
          \/ \E i \in 1..Len(userq) : userq[i] = y
          \/ \E i \in 1..Len(ctrlq) : ctrlq[i] = y
      BY <2>a, <2>2, <3>1, NotLost
    <3>3. CASE OnWire(y)
      BY <1>1, <3>3
    <3>4. CASE y \in InHand
      BY <3>4
    <3>5. CASE \E i \in 1..Len(userq) : userq[i] = y
      BY <3>5
    <3>6. CASE \E i \in 1..Len(ctrlq) : ctrlq[i] = y
      <4>1. PICK i \in 1..Len(ctrlq) : ctrlq[i] = y
        BY <3>6
      <4>2. y = m \/ \E j \in 1..Len(ctrlq') : ctrlq'[j] = y
        BY <4>1
      <4> QED
        BY <4>2
    <3> QED
      BY <3>2, <3>3, <3>4, <3>5, <3>6
  <2>3. CASE n \notin 1..Total[x]
    <3>1. Total[x] \in Int /\ Total'[x] \in Int /\ Total[x] <= Total'[x]
      BY <1>3
    <3>2. n \in Nat /\ n >= 1 /\ n <= Total'[x] /\ n > Total[x]
      BY <2>3, <3>1
    <3>3. Total'[x] # Total[x]
      BY <3>1, <3>2
    <3>4. x = m.subject /\ m.no = Total'[x]
      BY <3>3
    <3>5. n = m.no
      BY <3>1, <3>2, <3>4
    <3>6. m = y /\ m \in InHand'
      BY <2>a, <2>1, <3>4, <3>5
    <3> QED
      BY <3>6
  <2> QED
    BY <2>2, <2>3
<1> QED
  BY <1>2, <1>8, <1>9, <1>10

\* The worker is between two messages.
LEMMA EmptyHand ==
    ASSUME SentInv, IInv, pc = "drain" \/ (pc = "inbound" /\ tss = None)
    PROVE  tss = None /\ msg = None /\ buf_offset = 0 /\ InHand = {} /\ (pc = "inbound" => ctrlq = <<>>)
<1>1. tss = None /\ (pc = "inbound" => ctrlq = <<>>)
  BY DEF IInv, Open, TssInv, CtrlInv
<1>2. msg = None
  BY DEF SentInv, HandInv
<1>3. buf_offset = 0
  BY <1>1 DEF SentInv, WireInv
<1>4. InHand = {}
  BY <1>1, <1>2 DEF InHand
<1> QED
  BY <1>1, <1>2, <1>3, <1>4

LEMMA ServeNowStep ==
    ASSUME SentInv, IInv, ServeNow
    PROVE  SentInv'
<1>1. /\ UNCHANGED <<connected, left, sent, userq, ctrlq, msg, sockEv, queueEv, revents, caller, asked, room, wire>>
      /\ inbox' = inbox - 1 /\ inbox > 0 /\ tss' = Response /\ buf_offset' = 0
      /\ pc = "inbound" /\ tss = None /\ pc' = "respond"
  BY DEF ServeNow, Goto, othersVars, epollVars
<1>2. Open /\ CountInv /\ ctrlq \in Seq(Msg)
  BY <1>1 DEF IInv, Open
<1>3. PICK m \in Msg : m = Response
  BY <1>1, <1>2, MessageFacts
<1>4. m.subject = None /\ m.no = asked - inbox + 1 /\ m # None
  BY <1>3, MsgFields DEF Response
<1>5. msg = None /\ buf_offset = 0 /\ InHand = {} /\ ctrlq = <<>>
  BY <1>1, EmptyHand
<1>6. TypeOK'
  BY <1>1, <1>2, <1>3 DEF SentInv, TypeOK, CountInv
<1>7. HandInv'
  BY <1>1, <1>5 DEF SentInv, HandInv
<1>8. WireInv'
  BY <1>1, <1>5 DEF SentInv, WireInv
<1>9. /\ Total[None] = asked - inbox /\ Total'[None] = asked - inbox + 1
      /\ \A x \in Sender : Total'[x] = Total[x] /\ Total[x] \in Int
  <2>1. TypeOK
    BY DEF SentInv
  <2> QED
    BY <1>1, <1>2, <2>1, OneMore
<1>10. InHand' = {m}
  BY <1>1, <1>3, <1>4, <1>5 DEF InHand
<1>11. userq \in Seq(Msg) /\ \A i \in 1..Len(userq) : Before(m, userq[i])
  <2>1. \A i \in 1..Len(userq) : userq[i].subject # None
    BY ConstantFacts DEF SentInv, QueueInv
  <2> QED
    BY <1>4, <2>1 DEF Before, SentInv, TypeOK
<1>12. \A k \in 1..Len(wire) : Before(wire[k][1], m)
  <2> SUFFICES ASSUME NEW k \in 1..Len(wire), wire[k][1].subject = None
               PROVE  wire[k][1].no < m.no
    BY <1>4 DEF Before
  <2>1. wire[k][1].no <= asked - inbox
    BY <1>9 DEF SentInv, OrderInv
  <2>2. wire[k][1].no \in Nat
    BY PendingFacts, MsgFields DEF SentInv
  <2> QED
    BY <1>2, <1>4, <2>1, <2>2 DEF CountInv
<1>13. /\ \A x \in Sender \cup {None} : Total'[x] \in Int /\ Total[x] <= Total'[x]
                                        /\ (x # m.subject => Total'[x] = Total[x])
       /\ m.no <= Total'[m.subject] /\ Total'[m.subject] <= Total[m.subject] + 1
       /\ m.no = Total'[m.subject]
  BY <1>2, <1>4, <1>9 DEF CountInv
<1>14. \A i, j \in 1..Len(userq) : i < j => Before(userq[i], userq[j])
  BY DEF SentInv, QueueInv
<1>15. QueueInv' /\ OrderInv' /\ GapInv' /\ WholeMessages'
  <2>1. Len(ctrlq) = 0
    BY <1>5
  <2> QED
    BY <1>1, <1>2, <1>5, <1>10, <1>11, <1>12, <1>13, <1>14, <2>1, IntoHand
<1> QED
  BY <1>6, <1>7, <1>8, <1>15 DEF SentInv

Ordered(q) == \A i, j \in 1..Len(q) : i < j => Before(q[i], q[j])

\* What taking the oldest message m out of the queue q leaves there.
Dequeues(q, r, m) ==
    /\ m \in Msg /\ m = q[1] /\ 1 \in 1..Len(q) /\ r \in Seq(Msg)
    /\ \A i \in 1..Len(r) : \E j \in 1..Len(q) : r[i] = q[j]
    /\ \A i \in 1..Len(q) : q[i] = m \/ \E j \in 1..Len(r) : r[j] = q[i]
    /\ \A i, j \in 1..Len(r) : i < j => Before(r[i], r[j])
    /\ \A i \in 1..Len(r) : Before(m, r[i])

LEMMA Dequeued ==
    ASSUME NEW q \in Seq(Msg), q # <<>>, Ordered(q)
    PROVE  Dequeues(q, Tail(q), Head(q))
<1>a. PICK r : r = Tail(q)
  OBVIOUS
<1>b. PICK m : m = Head(q)
  OBVIOUS
<1>c. \A i, j \in 1..Len(q) : i < j => Before(q[i], q[j])
  BY DEF Ordered
<1>1. /\ m = q[1] /\ m \in Msg /\ r \in Seq(Msg) /\ Len(r) = Len(q) - 1 /\ Len(q) \in Nat \ {0}
      /\ \A i \in 1..Len(q) - 1 : r[i] = q[i + 1]
  BY <1>a, <1>b, TailFacts
<1>2. \A i \in 1..Len(r) : i + 1 \in 1..Len(q) /\ r[i] = q[i + 1] /\ i + 1 \in Nat /\ 1 < i + 1
  BY <1>1
<1>3. 1 \in 1..Len(q)
  BY <1>1
<1>4. \A i \in 1..Len(r) : \E j \in 1..Len(q) : r[i] = q[j]
  BY <1>2
<1>5. ASSUME NEW i \in 1..Len(q)
      PROVE  q[i] = m \/ \E j \in 1..Len(r) : r[j] = q[i]
  <2>1. CASE i = 1
    BY <1>1, <2>1
  <2>2. CASE i # 1
    <3>1. i - 1 \in 1..Len(r) /\ i - 1 + 1 = i
      BY <1>1, <2>2
    <3> QED
      BY <1>2, <3>1
  <2> QED
    BY <2>1, <2>2
<1>6. ASSUME NEW i \in 1..Len(r), NEW j \in 1..Len(r), i < j
      PROVE  Before(r[i], r[j])
  <2>1. i + 1 < j + 1
    BY <1>6
  <2> QED
    BY <1>2, <1>c, <2>1
<1>7. \A i \in 1..Len(r) : Before(m, r[i])
  BY <1>1, <1>2, <1>3, <1>c
<1> QED
  BY <1>a, <1>b, <1>1, <1>3, <1>4, <1>5, <1>6, <1>7 DEF Dequeues

LEMMA SameTotal ==
    ASSUME TypeOK, UNCHANGED <<sent, inbox, asked>>
    PROVE  /\ Total' = Total
           /\ \A x \in Sender \cup {None} : Total'[x] \in Int /\ Total[x] <= Total'[x] /\ Total'[x] = Total[x]
<1>1. Total' = Total
  BY DEF Total
<1>2. \A x \in Sender \cup {None} : Total[x] \in Int
  BY TotalFacts
<1> QED
  BY <1>1, <1>2

LEMMA DrainOneStep ==
    ASSUME SentInv, IInv, DrainOne
    PROVE  SentInv'
<1>1. /\ UNCHANGED <<connected, left, sent, userq, msg, sockEv, queueEv, revents, caller, inbox, asked, room, wire>>
      /\ pc = "drain" /\ ctrlq # <<>> /\ tss' = Head(ctrlq) /\ buf_offset' = 0
      /\ ctrlq' = Tail(ctrlq) /\ pc' = "send"
  BY DEF DrainOne, Goto, othersVars, epollVars, peerVars
<1>2. tss = None /\ msg = None /\ buf_offset = 0 /\ InHand = {}
  BY <1>1, EmptyHand
<1>3. PICK m : m = Head(ctrlq)
  OBVIOUS
<1>4. /\ TypeOK /\ ctrlq \in Seq(Msg) /\ userq \in Seq(Msg)
      /\ \A i, j \in 1..Len(ctrlq) : i < j => Before(ctrlq[i], ctrlq[j])
      /\ \A i, j \in 1..Len(userq) : i < j => Before(userq[i], userq[j])
  BY DEF SentInv, TypeOK, QueueInv
<1>5. /\ m \in Msg /\ m = ctrlq[1] /\ 1 \in 1..Len(ctrlq) /\ ctrlq' \in Seq(Msg)
      /\ \A i \in 1..Len(ctrlq') : \E j \in 1..Len(ctrlq) : ctrlq'[i] = ctrlq[j]
      /\ \A i \in 1..Len(ctrlq) : ctrlq[i] = m \/ \E j \in 1..Len(ctrlq') : ctrlq'[j] = ctrlq[i]
      /\ \A i, j \in 1..Len(ctrlq') : i < j => Before(ctrlq'[i], ctrlq'[j])
      /\ \A i \in 1..Len(ctrlq') : Before(m, ctrlq'[i])
  <2>1. Ordered(ctrlq)
    BY <1>4 DEF Ordered
  <2>2. Dequeues(ctrlq, Tail(ctrlq), Head(ctrlq))
    BY <1>1, <1>4, <2>1, Dequeued
  <2>3. Dequeues(ctrlq, ctrlq', m)
    BY <1>1, <1>3, <2>2
  <2> QED
    BY <2>3 DEF Dequeues
<1>6. m.subject = None /\ m # None /\ m.no \in Nat /\ m.no <= Total[m.subject]
  BY <1>5, MsgFields DEF SentInv, QueueInv
<1>7. TypeOK'
  BY <1>1, <1>3, <1>5 DEF SentInv, TypeOK
<1>8. HandInv'
  BY <1>1, <1>2, <1>3, <1>6 DEF SentInv, HandInv
<1>9. WireInv'
  BY <1>1, <1>2 DEF SentInv, WireInv
<1>10. InHand' = {m}
  BY <1>1, <1>2, <1>3, <1>6 DEF InHand
<1>11. \A i \in 1..Len(userq') : Before(m, userq'[i])
  <2>1. \A i \in 1..Len(userq) : userq[i].subject # None
    BY ConstantFacts DEF SentInv, QueueInv
  <2> QED
    BY <1>1, <1>6, <2>1 DEF Before
<1>12. \A k \in 1..Len(wire) : Before(wire[k][1], m)
  <2>1. \A k \in 1..Len(wire) : \A i \in 1..Len(ctrlq) : Before(wire[k][1], ctrlq[i])
    BY DEF SentInv, OrderInv
  <2>2. 1 \in 1..Len(ctrlq) /\ m = ctrlq[1]
    BY <1>5
  <2> QED
    BY <2>1, <2>2
<1>13. \A x \in Sender \cup {None} : Total'[x] \in Int /\ Total[x] <= Total'[x] /\ Total'[x] = Total[x]
  BY <1>1, <1>4, SameTotal
<1>14. /\ \A x \in Sender \cup {None} : Total'[x] \in Int /\ Total[x] <= Total'[x]
                                        /\ (x # m.subject => Total'[x] = Total[x])
       /\ m.no <= Total'[m.subject] /\ Total'[m.subject] <= Total[m.subject] + 1
       /\ Total'[m.subject] = Total[m.subject]
  BY <1>6, <1>13
<1>15. /\ userq' \in Seq(Msg)
       /\ \A i \in 1..Len(userq') : \E j \in 1..Len(userq) : userq'[i] = userq[j]
       /\ \A i \in 1..Len(userq) : userq[i] = m \/ \E j \in 1..Len(userq') : userq'[j] = userq[i]
       /\ \A i, j \in 1..Len(userq') : i < j => Before(userq'[i], userq'[j])
  BY <1>1, <1>4
<1>16. QueueInv' /\ OrderInv' /\ GapInv' /\ WholeMessages'
  BY <1>1, <1>2, <1>5, <1>10, <1>11, <1>12, <1>14, <1>15, IntoHand
<1> QED
  BY <1>7, <1>8, <1>9, <1>16 DEF SentInv

LEMMA TakeStep ==
    ASSUME SentInv, IInv, Take
    PROVE  SentInv'
<1>1. /\ UNCHANGED <<connected, left, sent, ctrlq, tss, buf_offset, sockEv, queueEv, revents, caller, inbox, asked, room, wire>>
      /\ pc = "drain" /\ ctrlq = <<>> /\ userq # <<>> /\ msg' = Head(userq)
      /\ userq' = Tail(userq) /\ pc' = "check"
  BY DEF Take, Goto, othersVars, epollVars, peerVars
<1>2. tss = None /\ msg = None /\ buf_offset = 0 /\ InHand = {}
  BY <1>1, EmptyHand
<1>3. PICK m : m = Head(userq)
  OBVIOUS
<1>4. /\ TypeOK /\ userq \in Seq(Msg) /\ ctrlq \in Seq(Msg)
      /\ \A i, j \in 1..Len(userq) : i < j => Before(userq[i], userq[j])
  BY DEF SentInv, TypeOK, QueueInv
<1>5. /\ m \in Msg /\ m = userq[1] /\ 1 \in 1..Len(userq) /\ userq' \in Seq(Msg)
      /\ \A i \in 1..Len(userq') : \E j \in 1..Len(userq) : userq'[i] = userq[j]
      /\ \A i \in 1..Len(userq) : userq[i] = m \/ \E j \in 1..Len(userq') : userq'[j] = userq[i]
      /\ \A i, j \in 1..Len(userq') : i < j => Before(userq'[i], userq'[j])
      /\ \A i \in 1..Len(userq') : Before(m, userq'[i])
  <2>1. Ordered(userq)
    BY <1>4 DEF Ordered
  <2>2. Dequeues(userq, Tail(userq), Head(userq))
    BY <1>1, <1>4, <2>1, Dequeued
  <2>3. Dequeues(userq, userq', m)
    BY <1>1, <1>3, <2>2
  <2> QED
    BY <2>3 DEF Dequeues
<1>6. m.subject \in Sender /\ m # None /\ m.no \in Nat /\ m.no <= Total[m.subject]
  BY <1>5, MsgFields DEF SentInv, QueueInv
<1>7. TypeOK'
  BY <1>1, <1>3, <1>5 DEF SentInv, TypeOK
<1>8. HandInv'
  BY <1>1, <1>2, <1>3, <1>6 DEF SentInv, HandInv
<1>9. WireInv'
  BY <1>1, WireFrame DEF SentInv
<1>10. InHand' = {m}
  BY <1>1, <1>2, <1>3, <1>6 DEF InHand
<1>11. \A k \in 1..Len(wire) : Before(wire[k][1], m)
  <2>1. \A k \in 1..Len(wire) : \A i \in 1..Len(userq) : Before(wire[k][1], userq[i])
    BY DEF SentInv, OrderInv
  <2>2. 1 \in 1..Len(userq) /\ m = userq[1]
    BY <1>5
  <2> QED
    BY <2>1, <2>2
<1>12. \A x \in Sender \cup {None} : Total'[x] \in Int /\ Total[x] <= Total'[x] /\ Total'[x] = Total[x]
  BY <1>1, <1>4, SameTotal
<1>13. /\ \A x \in Sender \cup {None} : Total'[x] \in Int /\ Total[x] <= Total'[x]
                                        /\ (x # m.subject => Total'[x] = Total[x])
       /\ m.no <= Total'[m.subject] /\ Total'[m.subject] <= Total[m.subject] + 1
       /\ Total'[m.subject] = Total[m.subject]
  BY <1>6, <1>12
<1>14. /\ ctrlq' \in Seq(Msg)
       /\ \A i \in 1..Len(ctrlq') : \E j \in 1..Len(ctrlq) : ctrlq'[i] = ctrlq[j]
       /\ \A i \in 1..Len(ctrlq) : ctrlq[i] = m \/ \E j \in 1..Len(ctrlq') : ctrlq'[j] = ctrlq[i]
       /\ \A i, j \in 1..Len(ctrlq') : i < j => Before(ctrlq'[i], ctrlq'[j])
       /\ \A i \in 1..Len(ctrlq') : Before(m, ctrlq'[i])
  <2>1. Len(ctrlq) = 0
    BY <1>1
  <2> QED
    BY <1>1, <1>4, <2>1
<1>15. QueueInv' /\ OrderInv' /\ GapInv' /\ WholeMessages'
  BY <1>1, <1>2, <1>5, <1>10, <1>11, <1>13, <1>14, IntoHand
<1> QED
  BY <1>7, <1>8, <1>9, <1>15 DEF SentInv

LEMMA SendTakenStep ==
    ASSUME SentInv, IInv, SendTaken
    PROVE  SentInv'
<1>1. /\ UNCHANGED <<connected, left, sent, userq, ctrlq, sockEv, queueEv, revents, inbox, asked, room, wire>>
      /\ pc = "check" /\ tss' = msg /\ buf_offset' = 0 /\ msg' = None /\ caller' = "last" /\ pc' = "send"
  BY DEF SendTaken, Goto, othersVars, epollVars, peerVars
<1>2. msg # None /\ tss = None /\ buf_offset = 0 /\ TypeOK
  BY <1>1 DEF SentInv, HandInv, WireInv
<1>3. TypeOK'
  BY <1>1, <1>2 DEF TypeOK
<1>4. HandInv'
  BY <1>1, <1>2 DEF SentInv, HandInv
<1>5. WireInv'
  BY <1>1, <1>2 DEF SentInv, WireInv
<1>6. InHand' = InHand
  BY <1>1, <1>2 DEF InHand
<1>7. Total' = Total
  BY <1>1, <1>2, SameTotal
<1>8. QueueInv' /\ OrderInv' /\ GapInv' /\ WholeMessages'
  BY <1>1, <1>6, <1>7, OrderFrame
<1> QED
  BY <1>3, <1>4, <1>5, <1>8 DEF SentInv

\* What Flush leaves in the queue: a part of it, in the same order, with all
\* that is from another name.
LEMMA Flushed ==
    ASSUME SentInv, IInv, Flush
    PROVE  /\ userq' \in Seq(Msg)
           /\ \A i \in 1..Len(userq') : \E j \in 1..Len(userq) : userq'[i] = userq[j]
           /\ \A i \in 1..Len(userq) : userq[i].subject # msg.subject => \E j \in 1..Len(userq') : userq'[j] = userq[i]
           /\ \A i, j \in 1..Len(userq') : i < j => Before(userq'[i], userq'[j])
<1> DEFINE kept == {i \in 1..Len(userq) : userq[i].subject # msg.subject}
           n == Cardinality(kept)
<1>1. PICK f \in [1..n -> kept] :
         /\ \A i, j \in 1..n : i < j => f[i] < f[j]
         /\ kept = {f[i] : i \in 1..n}
         /\ userq' = [i \in 1..n |-> userq[f[i]]]
  BY DEF Flush
<1>2. userq \in Seq(Msg) /\ Len(userq) \in Nat
  BY DEF SentInv, TypeOK
<1>3. n \in Nat
  <2>1. IsFiniteSet(1..Len(userq))
    BY <1>2, FS_Interval
  <2>2. IsFiniteSet(kept)
    BY <2>1, FS_Subset
  <2> QED
    BY <2>2, FS_CardinalityType
<1>4. \A i \in kept : i \in 1..Len(userq) /\ userq[i] \in Msg
  BY <1>2
<1>5. \A i \in 1..Len(userq) : userq[i].subject # msg.subject => i \in kept
  OBVIOUS
<1> HIDE DEF kept, n
<1>6. \A i \in 1..n : f[i] \in kept
  BY <1>1
<1>7. userq' \in Seq(Msg) /\ Len(userq') = n
  <2>1. userq' = [i \in 1..n |-> userq[f[i]]]
    BY <1>1
  <2>2. \A i \in 1..n : userq[f[i]] \in Msg
    BY <1>4, <1>6
  <2>3. userq' \in [1..n -> Msg]
    BY <2>1, <2>2
  <2>4. userq' \in Seq(Msg)
    BY <1>3, <2>3
  <2> QED
    BY <1>3, <2>3, <2>4, LenProperties
<1>8. \A i \in 1..n : userq'[i] = userq[f[i]]
  BY <1>1
<1>9. ASSUME NEW i \in 1..Len(userq), userq[i].subject # msg.subject
      PROVE  \E j \in 1..Len(userq') : userq'[j] = userq[i]
  <2>1. i \in {f[k] : k \in 1..n}
    BY <1>1, <1>5, <1>9
  <2>2. PICK j \in 1..n : i = f[j]
    BY <2>1
  <2> QED
    BY <1>7, <1>8, <2>2
<1>10. ASSUME NEW i \in 1..Len(userq'), NEW j \in 1..Len(userq'), i < j
       PROVE  Before(userq'[i], userq'[j])
  <2>1. i \in 1..n /\ j \in 1..n
    BY <1>7
  <2>2. f[i] < f[j]
    BY <1>1, <1>10, <2>1
  <2>3. \A k, l \in 1..Len(userq) : k < l => Before(userq[k], userq[l])
    BY DEF SentInv, QueueInv
  <2>4. f[i] \in 1..Len(userq) /\ f[j] \in 1..Len(userq)
    BY <1>4, <1>6, <2>1
  <2>5. Before(userq[f[i]], userq[f[j]])
    BY <2>2, <2>3, <2>4
  <2> QED
    BY <1>8, <2>1, <2>5
<1>11. \A i \in 1..Len(userq') : \E j \in 1..Len(userq) : userq'[i] = userq[j]
  BY <1>4, <1>6, <1>7, <1>8
<1> QED
  BY <1>7, <1>9, <1>10, <1>11

LEMMA FlushStep ==
    ASSUME SentInv, IInv, Flush
    PROVE  SentInv'
<1>1. /\ UNCHANGED <<connected, left, sent, sockEv, queueEv, revents, inbox, asked, room, wire>>
      /\ pc = "flush" /\ msg' = None /\ tss' = Head(ctrlq) /\ buf_offset' = 0
      /\ ctrlq' = Tail(ctrlq) /\ caller' = "last" /\ pc' = "send"
  BY DEF Flush, Goto, othersVars, epollVars, peerVars
<1>2. ctrlq = <<Notice>> /\ tss = None /\ CountInv
  BY <1>1 DEF IInv, Open, CtrlInv, TssInv
<1>3. tss' = Notice /\ ctrlq' = <<>> /\ Notice \in Msg /\ Notice # None /\ ctrlq' \in Seq(Msg)
  <2>1. ctrlq \in Seq(Msg) /\ <<Notice>> # <<>>
    BY <1>1, <1>2 DEF IInv, Open
  <2>2. Notice \in Msg /\ Notice # None
    BY <1>2, <2>1, MessageFacts
  <2>3. Head(<<Notice>>) = Notice /\ Tail(<<Notice>>) = <<>>
    OBVIOUS
  <2> QED
    BY <1>1, <1>2, <2>2, <2>3, EmptySeq
<1>4. /\ TypeOK /\ msg # None /\ msg \in Msg /\ msg.subject \in Sender /\ msg.subject \in left
      /\ buf_offset = 0
  BY <1>1, <1>2 DEF SentInv, TypeOK, HandInv, WireInv
<1>5. /\ userq' \in Seq(Msg)
      /\ \A i \in 1..Len(userq') : \E j \in 1..Len(userq) : userq'[i] = userq[j]
      /\ \A i \in 1..Len(userq) : userq[i].subject # msg.subject => \E j \in 1..Len(userq') : userq'[j] = userq[i]
      /\ \A i, j \in 1..Len(userq') : i < j => Before(userq'[i], userq'[j])
  BY Flushed
<1>6. TypeOK'
  BY <1>1, <1>3, <1>4, <1>5 DEF TypeOK
<1>7. HandInv'
  BY <1>1, <1>3 DEF SentInv, HandInv
<1>8. WireInv'
  BY <1>1, <1>4 DEF SentInv, WireInv
<1>9. InHand = {msg} /\ InHand' = {Notice}
  BY <1>1, <1>2, <1>3, <1>4 DEF InHand
<1>10. Total' = Total
  BY <1>1, <1>4, SameTotal
<1>11. Notice.subject = None /\ Notice.no = 0 /\ Notice.no <= Total[None]
  <2>1. Notice.subject = None /\ Notice.no = 0
    BY DEF Notice
  <2>2. Total[None] = asked - inbox
    BY <1>4, TotalFacts
  <2> QED
    BY <1>2, <2>1, <2>2 DEF CountInv
<1>12. \A i \in 1..Len(userq) : /\ userq[i].subject \in Sender /\ userq[i].subject # None /\ userq[i].no > 0
                                /\ userq[i].no <= Total[userq[i].subject]
  BY ConstantFacts DEF SentInv, QueueInv
<1>13. Len(ctrlq') = 0
  BY <1>3
<1>14. QueueInv'
  <2>1. \A i \in 1..Len(userq') : /\ userq'[i].subject \in Sender /\ userq'[i].subject # None /\ userq'[i].no > 0
                                  /\ userq'[i].no <= Total[userq'[i].subject]
    BY <1>5, <1>12
  <2>2. \A i \in 1..Len(userq') : Before(Notice, userq'[i])
    BY <1>11, <2>1 DEF Before
  <2> QED
    BY <1>5, <1>9, <1>10, <1>11, <1>13, <2>1, <2>2 DEF QueueInv
<1>15. OrderInv'
  <2>1. \A k \in 1..Len(wire) : Before(wire[k][1], Notice)
    BY <1>11 DEF Before
  <2>2. \A k \in 1..Len(wire) : \A i \in 1..Len(userq) : Before(wire[k][1], userq[i])
    BY DEF SentInv, OrderInv
  <2>3. \A k \in 1..Len(wire) : \A i \in 1..Len(userq') : Before(wire[k][1], userq'[i])
    BY <1>5, <2>2
  <2> QED
    BY <1>1, <1>9, <1>10, <1>13, <2>1, <2>3 DEF SentInv, OrderInv
<1>16. GapInv'
  <2> SUFFICES ASSUME NEW x \in (Sender \cup {None}) \ left, NEW n \in 1..Total[x]
               PROVE  LET z == [subject |-> x, no |-> n]
                      IN  OnWire(z)' \/ \E i \in 1..Len(userq') : userq'[i] = z
    BY <1>1, <1>10 DEF GapInv
  <2>1. PICK y : y = [subject |-> x, no |-> n]
    OBVIOUS
  <2>2. y.subject = x /\ y.no = n /\ n > 0 /\ x # msg.subject
    <3>1. Total[x] \in Int
      BY <1>4, TotalFacts
    <3> QED
      BY <1>4, <2>1, <3>1
  <2>3. GapInv
    BY DEF SentInv
  <2>4. \/ OnWire(y) \/ y \in InHand
        \/ \E i \in 1..Len(userq) : userq[i] = y
        \/ \E i \in 1..Len(ctrlq) : ctrlq[i] = y
    BY <2>1, <2>3, NotLost
  <2>5. y # msg /\ y # Notice
    BY <1>11, <2>2
  <2>6. y \notin InHand /\ ~ \E i \in 1..Len(ctrlq) : ctrlq[i] = y
    <3>1. \A i \in 1..Len(<<Notice>>) : <<Notice>>[i] = Notice
      OBVIOUS
    <3> QED
      BY <1>2, <1>9, <2>5, <3>1
  <2>7. OnWire(y) => OnWire(y)'
    BY <1>1 DEF OnWire
  <2>8. (\E i \in 1..Len(userq) : userq[i] = y) => \E i \in 1..Len(userq') : userq'[i] = y
    BY <1>5, <2>2
  <2> QED
    BY <2>1, <2>4, <2>6, <2>7, <2>8
<1>17. WholeMessages'
  BY <1>1 DEF SentInv, WholeMessages
<1> QED
  BY <1>6, <1>7, <1>8, <1>14, <1>15, <1>16, <1>17 DEF SentInv

\* send_fn: one piece more on the wire, of the message in temp_send_storage.
LEMMA SendUnitStep ==
    ASSUME SentInv, IInv, SendUnit
    PROVE  SentInv'
<1>1. /\ UNCHANGED <<connected, left, sent, userq, ctrlq, msg, sockEv, queueEv, revents, caller, inbox, asked>>
      /\ pc \in {"respond", "send"} /\ room > 0 /\ room' = room - 1
      /\ wire' = Append(wire, <<tss, buf_offset + 1>>)
      /\ \/ buf_offset + 1 < Units /\ buf_offset' = buf_offset + 1 /\ tss' = tss /\ pc' = pc
         \/ /\ ~(buf_offset + 1 < Units) /\ tss' = None /\ buf_offset' = 0
            /\ pc' \in {"inbound", "batch", "drain"}
  BY DEF SendUnit, Goto, othersVars, epollVars, peerVars
<1>2. TypeOK /\ tss # None /\ tss \in Msg /\ msg = None /\ buf_offset \in Nat /\ buf_offset < Units
  BY <1>1 DEF SentInv, TypeOK, HandInv, WireInv, IInv, Open, TssInv
<1>3. PICK p : p = <<tss, buf_offset + 1>>
  OBVIOUS
<1>4. p \in Msg \X Nat /\ p[1] = tss /\ p[2] = buf_offset + 1 /\ wire \in Seq(Msg \X Nat) /\ Len(wire) \in Nat
  BY <1>2, <1>3 DEF TypeOK
<1>5. PICK L \in Nat : L = Len(wire)
  BY <1>4
<1>6. /\ wire' \in Seq(Msg \X Nat) /\ Len(wire') = L + 1
      /\ \A k \in 1..L : wire'[k] = wire[k]
      /\ wire'[L + 1] = p
  BY <1>1, <1>3, <1>4, <1>5
<1>7. \A k \in 1..(L + 1) : k \in 1..L \/ k = L + 1
  BY <1>5
<1>8. TypeOK'
  <2>1. room' \in Nat
    BY <1>1, <1>2 DEF TypeOK
  <2>2. buf_offset' \in Nat /\ tss' \in Msg \cup {None}
    BY <1>1, <1>2
  <2>3. pc' \in {"respond", "send", "inbound", "batch", "drain"}
    BY <1>1
  <2> QED
    BY <1>1, <1>2, <1>6, <2>1, <2>2, <2>3 DEF TypeOK
<1>9. HandInv'
  BY <1>1, <1>2 DEF SentInv, HandInv
<1>10. ASSUME NEW y
       PROVE  OnWire(y)' <=> OnWire(y) \/ (buf_offset = 0 /\ y = tss)
  <2>1. OnWire(y)' <=> \E k \in 1..(L + 1) : wire'[k] = <<y, 1>>
    BY <1>6 DEF OnWire
  <2>2. OnWire(y) <=> \E k \in 1..L : wire[k] = <<y, 1>>
    BY <1>5 DEF OnWire
  <2>3. p = <<y, 1>> <=> buf_offset = 0 /\ y = tss
    BY <1>2, <1>3
  <2>4. L + 1 \in 1..(L + 1) /\ \A k \in 1..L : k \in 1..(L + 1)
    BY <1>5
  <2> QED
    BY <1>6, <1>7, <2>1, <2>2, <2>3, <2>4
<1>11. InHand = (IF buf_offset = 0 THEN {tss} ELSE {}) /\ InHand' = {}
  BY <1>1, <1>2 DEF InHand
<1>12. Total' = Total
  BY <1>1, <1>2, SameTotal
<1>13. buf_offset > 0 => L > 0 /\ wire[L] = <<tss, buf_offset>> /\ OnWire(tss)
  <2>1. wire # <<>> => L # 0
    BY <1>4, <1>5, EmptySeq
  <2> QED
    BY <1>5, <2>1 DEF SentInv, WireInv
<1>14. buf_offset = 0 => L = 0 \/ wire[L][2] = Units
  BY <1>5 DEF SentInv, WireInv
<1>15. WireInv'
  <2>1. wire' # <<>>
    BY <1>5, <1>6
  <2>2. CASE buf_offset + 1 < Units /\ buf_offset' = buf_offset + 1 /\ tss' = tss
    <3>1. wire'[Len(wire')] = <<tss', buf_offset'>>
      BY <1>3, <1>6, <2>2
    <3>2. OnWire(tss)'
      <4>1. PICK y : y = tss
        OBVIOUS
      <4>2. buf_offset > 0 => OnWire(y)
        BY <1>13, <4>1 DEF OnWire
      <4>3. OnWire(y)'
        BY <1>2, <1>10, <4>1, <4>2
      <4> QED
        BY <2>2, <4>1, <4>3 DEF OnWire
    <3>3. buf_offset' # 0 /\ buf_offset' < Units /\ tss' # None
      BY <1>2, <2>2
    <3> QED
      BY <2>1, <2>2, <3>1, <3>2, <3>3 DEF WireInv, OnWire
  <2>3. CASE ~(buf_offset + 1 < Units) /\ tss' = None /\ buf_offset' = 0
    <3>1. buf_offset + 1 = Units
      BY <1>2, <2>3, ConstantFacts
    <3>2. wire'[Len(wire')][2] = Units
      BY <1>4, <1>6, <3>1
    <3> QED
      BY <2>3, <3>2, ConstantFacts DEF WireInv
  <2> QED
    BY <1>1, <2>2, <2>3
<1>16. WholeMessages'
  <2> SUFFICES ASSUME NEW i \in 1..(L + 1)
               PROVE  IF wire'[i][2] = 1 THEN i = 1 \/ wire'[i - 1][2] = Units
                      ELSE i > 1 /\ wire'[i - 1] = <<wire'[i][1], wire'[i][2] - 1>>
    BY <1>6 DEF WholeMessages
  <2>1. CASE i \in 1..L
    <3>1. IF wire[i][2] = 1 THEN i = 1 \/ wire[i - 1][2] = Units
          ELSE i > 1 /\ wire[i - 1] = <<wire[i][1], wire[i][2] - 1>>
      BY <1>5, <2>1 DEF SentInv, WholeMessages
    <3>2. i = 1 \/ i - 1 \in 1..L
      BY <2>1
    <3> QED
      BY <1>6, <2>1, <3>1, <3>2
  <2>2. CASE i = L + 1
    <3>1. wire'[i] = p /\ i - 1 = L /\ (L = 0 \/ wire'[L] = wire[L])
      BY <1>5, <1>6, <2>2
    <3>2. CASE buf_offset = 0
      BY <1>4, <1>5, <1>14, <2>2, <3>1, <3>2
    <3>3. CASE buf_offset > 0
      <4>1. wire'[i][2] = buf_offset + 1 /\ wire'[i][1] = tss
        BY <1>4, <3>1
      <4>2. wire'[i][2] # 1 /\ wire'[i][2] - 1 = buf_offset /\ L > 0 /\ i > 1
        BY <1>2, <1>5, <1>13, <2>2, <3>3, <4>1
      <4>3. wire'[i - 1] = <<tss, buf_offset>>
        BY <1>13, <3>1, <3>3, <4>2
      <4> QED
        BY <4>1, <4>2, <4>3
    <3> QED
      BY <1>2, <3>2, <3>3
  <2> QED
    BY <1>7, <2>1, <2>2
<1>17. QueueInv'
  BY <1>1, <1>11, <1>12 DEF SentInv, QueueInv
<1>18. /\ tss.no <= Total[tss.subject]
       /\ \A i \in 1..Len(userq) : Before(tss, userq[i])
       /\ \A i \in 1..Len(ctrlq) : Before(tss, ctrlq[i])
  <2>1. CASE buf_offset = 0
    <3>1. tss \in InHand
      BY <1>11, <2>1
    <3> QED
      BY <3>1 DEF SentInv, QueueInv
  <2>2. CASE buf_offset > 0
    <3>1. PICK k \in 1..Len(wire) : wire[k] = <<tss, 1>>
      BY <1>13, <2>2 DEF OnWire
    <3>2. wire[k][1] = tss
      BY <3>1
    <3> QED
      BY <3>2 DEF SentInv, OrderInv
  <2> QED
    BY <1>2, <2>1, <2>2
<1>19. OrderInv'
  <2>1. ASSUME NEW k \in 1..(L + 1)
        PROVE  /\ wire'[k][1].no <= Total[wire'[k][1].subject]
               /\ \A i \in 1..Len(userq) : Before(wire'[k][1], userq[i])
               /\ \A i \in 1..Len(ctrlq) : Before(wire'[k][1], ctrlq[i])
    <3>1. CASE k \in 1..L
      <4>1. wire'[k] = wire[k]
        BY <1>6, <3>1
      <4> QED
        BY <1>5, <3>1, <4>1 DEF SentInv, OrderInv
    <3>2. CASE k = L + 1
      <4>1. wire'[k][1] = tss
        BY <1>4, <1>6, <3>2
      <4> QED
        BY <1>18, <4>1
    <3> QED
      BY <1>7, <3>1, <3>2
  <2>2. ASSUME NEW j \in 1..(L + 1), NEW k \in 1..(L + 1), j < k, wire'[j][2] = 1, wire'[k][2] = 1
        PROVE  Before(wire'[j][1], wire'[k][1])
    <3>1. j \in 1..L /\ wire'[j] = wire[j]
      BY <1>5, <1>6, <2>2
    <3>2. CASE k \in 1..L
      <4>1. wire'[k] = wire[k]
        BY <1>6, <3>2
      <4> QED
        BY <1>5, <2>2, <3>1, <3>2, <4>1 DEF SentInv, OrderInv
    <3>3. CASE k = L + 1
      <4>1. wire'[k] = p
        BY <1>6, <3>3
      <4>2. buf_offset = 0 /\ wire'[k][1] = tss
        BY <1>2, <1>4, <2>2, <4>1
      <4>3. tss \in InHand
        BY <1>11, <4>2
      <4>4. Before(wire[j][1], tss)
        BY <1>5, <3>1, <4>3 DEF SentInv, OrderInv
      <4> QED
        BY <3>1, <4>2, <4>4
    <3> QED
      BY <1>7, <3>2, <3>3
  <2> QED
    BY <1>1, <1>6, <1>11, <1>12, <2>1, <2>2 DEF OrderInv
<1>20. GapInv'
  <2> SUFFICES ASSUME NEW x \in (Sender \cup {None}) \ left, NEW n \in 1..Total[x]
               PROVE  LET z == [subject |-> x, no |-> n]
                      IN  \/ OnWire(z)' \/ \E i \in 1..Len(userq) : userq[i] = z
                          \/ \E i \in 1..Len(ctrlq) : ctrlq[i] = z
    BY <1>1, <1>12 DEF GapInv
  <2>1. PICK y : y = [subject |-> x, no |-> n]
    OBVIOUS
  <2>2. GapInv
    BY DEF SentInv
  <2>3. \/ OnWire(y) \/ y \in InHand
        \/ \E i \in 1..Len(userq) : userq[i] = y
        \/ \E i \in 1..Len(ctrlq) : ctrlq[i] = y
    BY <2>1, <2>2, NotLost
  <2>4. y \in InHand => buf_offset = 0 /\ y = tss
    BY <1>11
  <2>5. OnWire(y) \/ y \in InHand => OnWire(y)'
    BY <1>10, <2>4
  <2> QED
    BY <2>1, <2>3, <2>5
<1> QED
  BY <1>8, <1>9, <1>15, <1>16, <1>17, <1>19, <1>20 DEF SentInv

-----------------------------------------------------------------------------
(* The theorems.                                                            *)

\* IInv holds whenever the client is connected.
THEOREM Invariance == Spec => []IInv
<1>1. Init => IInv
  BY DEF Init, IInv, CountInv, CtrlInv, TssInv, EpollInv
<1>2. IInv /\ [Next]_vars => IInv'
  BY OthersStep, DispatchStep, InboundStep, SendStep, QueueStep DEF Next, WorkerStep
<1> QED
  BY <1>1, <1>2, PTL DEF Spec

\* The worker never goes to sleep over a message: whatever waits in
\* temp_send_storage or in either queue is watched by epoll.
THEOREM NothingStranded == Spec => []NoneStranded
<1>1. IInv => NoneStranded
  BY DEF IInv, NoneStranded, Open, CtrlInv, EpollInv
<1> QED
  BY <1>1, Invariance, PTL

\* Every message is somewhere, and in the order it was sent: SentInv holds.
THEOREM OrderInvariance == Spec => []SentInv
<1>1. Init => SentInv
  <2> SUFFICES ASSUME Init
               PROVE  SentInv
    OBVIOUS
  <2>1. TypeOK
    BY EmptySeq, DeliveryAssumption DEF Init, TypeOK
  <2>2. InHand = {} /\ Len(userq) = 0 /\ Len(ctrlq) = 0 /\ Len(wire) = 0 /\ \A s \in Sender \cup {None} : Total[s] = 0
    BY DEF Init, InHand, Total
  <2>3. HandInv
    BY DEF Init, HandInv
  <2>4. WireInv
    BY ConstantFacts DEF Init, WireInv
  <2>5. QueueInv /\ OrderInv
    BY <2>2 DEF QueueInv, OrderInv
  <2>6. GapInv /\ WholeMessages
    BY <2>2 DEF GapInv, WholeMessages
  <2> QED
    BY <2>1, <2>3, <2>4, <2>5, <2>6 DEF SentInv
<1>2. IInv /\ SentInv /\ [Next]_vars => SentInv'
  BY IdleSteps, EnqueueStep, NoticeSteps, ServeLaterStep, ServeNowStep, DrainOneStep, TakeStep, SendTakenStep,
     FlushStep, SendUnitStep DEF Next, WorkerStep
<1> QED
  BY <1>1, <1>2, Invariance, PTL DEF Spec

\* The state is always of the type the worker's structures have.
THEOREM TypeCorrect == Spec => []TypeOK
<1>1. SentInv => TypeOK
  BY DEF SentInv
<1> QED
  BY <1>1, OrderInvariance, PTL

\* Nothing is ever sent into the middle of a message, however often the socket
\* blocks and whatever the other handlers queue meanwhile.
THEOREM MessagesWhole == Spec => []WholeMessages
<1>1. SentInv => WholeMessages
  BY DEF SentInv
<1> QED
  BY <1>1, OrderInvariance, PTL

\* The client gets the messages of a name in the order they were sent, each
\* once, without a gap as long as the name has not left, and the responses in
\* the order of its requests, without a gap.
THEOREM MessagesInOrder == Spec => []InOrder
<1>1. SentInv => InOrder
  <2> SUFFICES ASSUME SentInv, NEW i \in 1..Len(wire), NEW j \in 1..Len(wire),
                      i < j, wire[i][2] = 1, wire[j][2] = 1,
                      wire[i][1].subject = wire[j][1].subject, wire[i][1].no > 0, wire[j][1].no > 0
               PROVE  /\ wire[i][1].no < wire[j][1].no
                      /\ wire[i][1].subject \in left
                         \/ \E k \in 1..Len(wire) : wire[k] = <<[wire[j][1] EXCEPT !.no = wire[j][1].no - 1], 1>>
    BY DEF InOrder
  <2>1. PICK a \in Msg : a = wire[i][1]
    BY PendingFacts DEF SentInv
  <2>2. PICK b \in Msg : b = wire[j][1]
    BY PendingFacts DEF SentInv
  <2>3. a.no \in Nat /\ b.no \in Nat /\ a.no > 0 /\ b.no > 0 /\ b.subject \in Sender \cup {None}
    BY <2>1, <2>2, MsgFields
  <2>4. a.no < b.no
    <3>1. Before(a, b)
      BY <2>1, <2>2 DEF SentInv, OrderInv
    <3> QED
      BY <2>1, <2>2, <3>1 DEF Before
  <2>5. ASSUME b.subject \notin left
        PROVE  \E k \in 1..Len(wire) : wire[k] = <<[b EXCEPT !.no = b.no - 1], 1>>
    <3>1. PICK y : y = [subject |-> b.subject, no |-> b.no - 1]
      OBVIOUS
    <3>2. y = [b EXCEPT !.no = b.no - 1] /\ y.subject = b.subject /\ y.no = b.no - 1 /\ y \in Msg
      BY <2>3, <3>1 DEF Msg
    <3>3. b.no - 1 \in 1..Total[b.subject]
      <4>1. b.no <= Total[b.subject]
        BY <2>2 DEF SentInv, OrderInv
      <4>2. Total[b.subject] \in Int
        BY <2>3, TotalFacts DEF SentInv
      <4> QED
        BY <2>3, <2>4, <4>1, <4>2
    <3>4. \/ OnWire(y) \/ y \in InHand
          \/ \E k \in 1..Len(userq) : userq[k] = y
          \/ \E k \in 1..Len(ctrlq) : ctrlq[k] = y
      <4>1. GapInv /\ b.subject \in (Sender \cup {None}) \ left
        BY <2>3, <2>5 DEF SentInv
      <4> QED
        BY <3>1, <3>3, <4>1, NotLost
    <3>5. ~ Before(b, y)
      BY <2>3, <2>4, <3>2 DEF Before
    <3>6. /\ \A m \in InHand : Before(b, m)
          /\ \A k \in 1..Len(userq) : Before(b, userq[k])
          /\ \A k \in 1..Len(ctrlq) : Before(b, ctrlq[k])
      BY <2>2 DEF SentInv, OrderInv
    <3>7. OnWire(y)
      BY <3>4, <3>5, <3>6
    <3> QED
      BY <3>2, <3>7 DEF OnWire
  <2> QED
    BY <2>1, <2>2, <2>4, <2>5
<1> QED
  BY <1>1, OrderInvariance, PTL

=============================================================================
