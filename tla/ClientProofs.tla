---------------------------- MODULE ClientProofs ----------------------------
(***************************************************************************)
(* Proofs about the command client.                                         *)
(*                                                                          *)
(* Client, the receiving half, for any number of senders, transfers and     *)
(* items and any size of the receive buffer: a file that is reported as     *)
(* received is one file of one sender, whole and in order, or has after     *)
(* parts of one chunks of another that came without a beginning; and        *)
(* ctx->state tells whether there is a connection.  The invariant is in     *)
(* Client: StreamInv says that the receive buffer and what is still in the  *)
(* socket are whole items, ItemsInv that a chunk is the next part of its    *)
(* sender's file or of one without a beginning, SlotInv that a transfer has *)
(* what its sender sent up to the last item parsed.                         *)
(*                                                                          *)
(* Link, the sending half and the server's parser, for any commands,        *)
(* recipients, sizes of files and buffers and contents of files that look   *)
(* like the mark, and a user who waits for the answers: what is enqueued to *)
(* a recipient is addressed to it, and messages arrive whole.  The          *)
(* invariant is in Link: the last command is Untouched, InHeader, Accepted  *)
(* or Past.                                                                 *)
(***************************************************************************)
EXTENDS Client, Link, SequenceTheorems, TLAPS

-----------------------------------------------------------------------------
(* The stream.                                                              *)

LEMMA SizeFacts ==
    ASSUME NEW it \in ItemType
    PROVE  Size(it) \in Nat \ {0}
BY ClientAssumption DEF Size, ItemType

LEMMA NothingWhole == WholeItems(<<>>, <<>>, 0)
BY DEF WholeItems

\* The server appends the units of one item.
LEMMA WholeAppend ==
    ASSUME NEW its \in Seq(ItemType), NEW it \in ItemType, NEW q \in Seq(Unit), NEW n \in Nat,
           WholeItems(q, its, n)
    PROVE  WholeItems(q \o [p \in 1..Size(it) |-> <<Len(its) + 1, p>>], Append(its, it), n)
<1> DEFINE l == Len(its)
           w == Size(it)
           u == [p \in 1..w |-> <<l + 1, p>>]
           r == q \o u
           jts == Append(its, it)
<1>1. w \in Nat \ {0} /\ l \in Nat /\ Len(q) \in Nat
  BY SizeFacts
<1>2. /\ Len(jts) = l + 1 /\ jts[l + 1] = it /\ jts \in Seq(ItemType)
      /\ \A i \in 1..l : jts[i] = its[i]
  BY AppendProperties DEF l
<1> HIDE DEF l, w
<1>3. u \in Seq(Unit) /\ Len(u) = w /\ \A p \in 1..w : u[p] = <<l + 1, p>>
  <2>1. \A p \in 1..w : <<l + 1, p>> \in Unit
    BY <1>1 DEF Unit
  <2> QED
    BY <1>1, <2>1
<1>4. /\ r \in Seq(Unit) /\ Len(r) = Len(q) + w
      /\ \A i \in 1..Len(q) : r[i] = q[i]
      /\ \A p \in 1..w : r[Len(q) + p] = <<l + 1, p>>
  <2>1. /\ r \in Seq(Unit) /\ Len(r) = Len(q) + Len(u)
        /\ \A i \in 1..Len(q) + Len(u) : r[i] = IF i <= Len(q) THEN q[i] ELSE u[i - Len(q)]
    BY <1>3, ConcatProperties
  <2> HIDE DEF r, u
  <2>2. ASSUME NEW p \in 1..w
        PROVE  r[Len(q) + p] = <<l + 1, p>>
    <3> DEFINE i == Len(q) + p
    <3>1. i \in 1..Len(q) + Len(u) /\ ~(i <= Len(q)) /\ i - Len(q) = p
      BY <1>1, <1>3
    <3> HIDE DEF i
    <3>2. r[i] = u[i - Len(q)]
      BY <2>1, <3>1
    <3> QED
      BY <1>3, <3>1, <3>2 DEF i
  <2>3. ASSUME NEW i \in 1..Len(q)
        PROVE  r[i] = q[i]
    <3>1. i \in 1..Len(q) + Len(u) /\ i <= Len(q)
      BY <1>1, <1>3
    <3> QED
      BY <2>1, <3>1
  <2>4. Len(r) = Len(q) + w
    BY <1>3, <2>1
  <2> QED
    BY <2>1, <2>2, <2>3, <2>4
<1> HIDE DEF r, u, jts
<1>5. ASSUME NEW k \in 1..Len(q)
      PROVE  r[k] = q[k] /\ q[k][1] \in 1..l /\ jts[q[k][1]] = its[q[k][1]]
  BY <1>1, <1>2, <1>4, <1>5 DEF WholeItems, l
<1>6. ASSUME NEW k \in 1..Len(r), ~(k <= Len(q))
      PROVE  \E p \in 1..w : k = Len(q) + p /\ r[k] = <<l + 1, p>>
  <2> DEFINE p == k - Len(q)
  <2>1. p \in 1..w /\ k = Len(q) + p
    BY <1>1, <1>4, <1>6
  <2> HIDE DEF p
  <2> QED
    BY <1>4, <2>1
<1>7. ASSUME NEW k \in 1..Len(r)
      PROVE  r[k][1] \in 1..Len(jts)
  <2>1. CASE k <= Len(q)
    <3>1. k \in 1..Len(q)
      BY <1>1, <1>4, <2>1
    <3>2. r[k][1] \in 1..l
      BY <1>5, <3>1
    <3> QED
      BY <1>1, <1>2, <3>2
  <2>2. CASE ~(k <= Len(q))
    <3>0. PICK p \in 1..w : r[k] = <<l + 1, p>>
      BY <1>6, <2>2
    <3>1. r[k][1] = l + 1
      BY <3>0
    <3> QED
      BY <1>1, <1>2, <3>1
  <2> QED
    BY <2>1, <2>2
<1>8. ASSUME NEW k \in 1..Len(r), r[k][2] = 1, NEW d \in 1..Size(jts[r[k][1]])
      PROVE  k + d - 1 <= Len(r) /\ r[k + d - 1] = <<r[k][1], d>>
  <2>1. CASE k <= Len(q)
    <3>1. k \in 1..Len(q) /\ r[k] = q[k] /\ jts[q[k][1]] = its[q[k][1]]
      BY <1>1, <1>4, <1>5, <2>1
    <3>2. d \in 1..Size(its[q[k][1]]) /\ q[k][2] = 1
      BY <1>8, <3>1
    <3>3. k + d - 1 <= Len(q) /\ q[k + d - 1] = <<q[k][1], d>>
      <4>1. \A e \in 1..Size(its[q[k][1]]) : k + e - 1 <= Len(q) /\ q[k + e - 1] = <<q[k][1], e>>
        BY <3>1, <3>2 DEF WholeItems
      <4> QED
        BY <3>2, <4>1
    <3>4. d \in Int /\ d >= 1
      BY <1>8, <3>1, SizeFacts, <1>7, <1>2
    <3>5. k + d - 1 \in 1..Len(q) /\ k + d - 1 <= Len(r)
      BY <3>1, <3>3, <3>4, <1>1, <1>4
    <3>6. r[k + d - 1] = q[k + d - 1]
      BY <1>4, <3>5
    <3> QED
      BY <3>1, <3>3, <3>5, <3>6
  <2>2. CASE ~(k <= Len(q))
    <3>1. PICK p \in 1..w : k = Len(q) + p /\ r[k] = <<l + 1, p>>
      BY <1>6, <2>2
    <3>2. p = 1 /\ r[k][1] = l + 1 /\ d \in 1..w
      BY <1>8, <1>2, <3>1 DEF w
    <3> QED
      BY <1>1, <1>4, <3>1, <3>2
  <2> QED
    BY <2>1, <2>2
<1>9. ASSUME NEW k \in 1..Len(r) - 1, r[k][2] = Size(jts[r[k][1]])
      PROVE  r[k + 1] = <<r[k][1] + 1, 1>>
  <2>1. CASE k < Len(q)
    <3>1. k \in 1..Len(q) - 1 /\ k \in 1..Len(q) /\ k + 1 \in 1..Len(q)
      BY <1>1, <2>1
    <3>2. r[k] = q[k] /\ jts[q[k][1]] = its[q[k][1]] /\ r[k + 1] = q[k + 1]
      BY <1>5, <3>1
    <3>3. q[k][2] = Size(its[q[k][1]])
      BY <1>9, <3>2
    <3>4. q[k + 1] = <<q[k][1] + 1, 1>>
      BY <3>1, <3>3 DEF WholeItems
    <3> QED
      BY <3>2, <3>4
  <2>2. CASE k = Len(q)
    <3>1. k \in 1..Len(q) /\ q # <<>>
      BY <1>1, <2>2
    <3>2. r[k][1] = l
      BY <1>5, <3>1, <2>2 DEF WholeItems, l
    <3> QED
      BY <1>1, <1>4, <2>2, <3>2
  <2>3. CASE k > Len(q)
    <3>1. k \in 1..Len(r) /\ ~(k <= Len(q))
      BY <1>1, <1>4, <2>3
    <3>2. PICK p \in 1..w : k = Len(q) + p /\ r[k] = <<l + 1, p>>
      BY <1>6, <3>1
    <3>3. p = w
      BY <1>2, <1>9, <3>2 DEF w
    <3> QED
      BY <1>1, <1>4, <3>2, <3>3
  <2> QED
    BY <1>1, <1>4, <2>1, <2>2, <2>3
<1>10. r # <<>> /\ r[1] = <<n + 1, 1>> /\ r[Len(r)] = <<Len(jts), Size(jts[Len(jts)])>>
  <2>1. r # <<>>
    BY <1>1, <1>4
  <2>2. r[Len(q) + w] = <<l + 1, w>> /\ r[Len(q) + 1] = <<l + 1, 1>>
    <3>1. w \in 1..w /\ 1 \in 1..w
      BY <1>1
    <3> QED
      BY <1>4, <3>1
  <2>3. r[1] = <<n + 1, 1>>
    <3>1. CASE q = <<>>
      BY <2>2, <3>1, <1>1 DEF WholeItems, l
    <3>2. CASE q # <<>>
      <4>1. 1 \in 1..Len(q)
        BY <3>2, EmptySeq, <1>1
      <4> QED
        BY <1>4, <3>2, <4>1 DEF WholeItems
    <3> QED
      BY <3>1, <3>2
  <2> QED
    BY <1>2, <1>4, <2>1, <2>2, <2>3 DEF w
<1>11. WholeItems(r, jts, n)
  BY <1>7, <1>8, <1>9, <1>10 DEF WholeItems
<1> QED
  BY <1>11 DEF r, u, jts, l, w

\* The client takes one item from the front.
LEMMA WholeDrop ==
    ASSUME NEW its \in Seq(ItemType), NEW q \in Seq(Unit), NEW n \in Nat,
           WholeItems(q, its, n), q # <<>>
    PROVE  /\ n + 1 \in 1..Len(its) /\ Size(its[n + 1]) <= Len(q)
           /\ WholeItems(SubSeq(q, Size(its[n + 1]) + 1, Len(q)), its, n + 1)
<1> DEFINE z == Size(its[n + 1])
           m == Len(q) - z
           r == SubSeq(q, z + 1, Len(q))
<1>1. Len(q) \in Nat \ {0} /\ 1 \in 1..Len(q) /\ Len(its) \in Nat
  BY EmptySeq
<1>2. q[1] = <<n + 1, 1>> /\ q[1][1] = n + 1 /\ q[1][2] = 1 /\ n + 1 \in 1..Len(its)
  BY <1>1 DEF WholeItems
<1>3. z \in Nat \ {0}
  BY <1>2, SizeFacts
<1> HIDE DEF z
<1>4. /\ \A d \in 1..z : 1 + d - 1 <= Len(q) /\ q[1 + d - 1] = <<n + 1, d>>
  BY <1>1, <1>2 DEF WholeItems, z
<1>5. z <= Len(q) /\ q[z] = <<n + 1, z>> /\ z \in 1..Len(q)
  BY <1>1, <1>3, <1>4
<1>6. /\ r \in Seq(Unit) /\ Len(r) = m /\ m \in Nat
      /\ \A i \in 1..m : r[i] = q[z + i]
  <2>1. \A i \in z + 1..Len(q) : q[i] \in Unit
    BY <1>1, <1>3
  <2>2. /\ r \in Seq(Unit) /\ Len(r) = (IF z + 1 <= Len(q) THEN Len(q) - (z + 1) + 1 ELSE 0)
        /\ \A i \in 1..Len(q) - (z + 1) + 1 : r[i] = q[z + 1 + i - 1]
    <3>1. z + 1 \in Int /\ Len(q) \in Int
      BY <1>1, <1>3
    <3> QED
      BY <2>1, <3>1, SubSeqProperties
  <2> HIDE DEF r
  <2>3. Len(q) - (z + 1) + 1 = m /\ m \in Nat /\ (~(z + 1 <= Len(q)) => m = 0)
    BY <1>1, <1>3, <1>5
  <2>4. \A i \in 1..m : z + 1 + i - 1 = z + i
    BY <1>1, <1>3
  <2> QED
    BY <2>2, <2>3, <2>4
<1> HIDE DEF r
<1>7. ASSUME NEW k \in 1..m
      PROVE  r[k] = q[z + k] /\ z + k \in 1..Len(q)
  BY <1>1, <1>3, <1>5, <1>6
<1>8. ASSUME NEW k \in 1..Len(r)
      PROVE  r[k][1] \in 1..Len(its)
  BY <1>6, <1>7 DEF WholeItems
<1>9. ASSUME NEW k \in 1..Len(r), r[k][2] = 1, NEW d \in 1..Size(its[r[k][1]])
      PROVE  k + d - 1 <= Len(r) /\ r[k + d - 1] = <<r[k][1], d>>
  <2>1. r[k] = q[z + k] /\ z + k \in 1..Len(q)
    BY <1>6, <1>7
  <2>2. (z + k) + d - 1 <= Len(q) /\ q[(z + k) + d - 1] = <<q[z + k][1], d>>
    BY <1>9, <2>1 DEF WholeItems
  <2>3. Size(its[r[k][1]]) \in Nat
    BY <1>8, SizeFacts
  <2>4. k + d - 1 \in 1..m /\ z + (k + d - 1) = (z + k) + d - 1
    BY <1>1, <1>3, <1>6, <2>2, <2>3
  <2> QED
    BY <1>6, <2>1, <2>2, <2>4
<1>10. ASSUME NEW k \in 1..Len(r) - 1, r[k][2] = Size(its[r[k][1]])
       PROVE  r[k + 1] = <<r[k][1] + 1, 1>>
  <2>1. k \in 1..m /\ k + 1 \in 1..m /\ z + k \in 1..Len(q) - 1 /\ z + (k + 1) = (z + k) + 1
    BY <1>1, <1>3, <1>5, <1>6
  <2>2. r[k] = q[z + k] /\ r[k + 1] = q[(z + k) + 1]
    BY <1>6, <2>1
  <2> QED
    BY <1>10, <2>1, <2>2 DEF WholeItems
<1>11. ASSUME r = <<>>
       PROVE  n + 1 = Len(its)
  <2>1. z = Len(q)
    BY <1>1, <1>3, <1>6, <1>11
  <2> QED
    BY <1>5, <2>1 DEF WholeItems
<1>12. ASSUME r # <<>>
       PROVE  r[1] = <<(n + 1) + 1, 1>> /\ r[Len(r)] = <<Len(its), Size(its[Len(its)])>>
  <2>1. m \in Nat \ {0}
    BY <1>6, <1>12, EmptySeq
  <2>2. z \in 1..Len(q) - 1 /\ 1 \in 1..m /\ m \in 1..m /\ z + m = Len(q)
    BY <1>1, <1>3, <1>6, <2>1
  <2>3. q[z][1] = n + 1 /\ q[z][2] = Size(its[q[z][1]])
    BY <1>5 DEF z
  <2>4. q[z + 1] = <<(n + 1) + 1, 1>>
    BY <2>2, <2>3 DEF WholeItems
  <2> QED
    BY <1>6, <2>2, <2>4 DEF WholeItems
<1>13. WholeItems(r, its, n + 1)
  BY <1>8, <1>9, <1>10, <1>11, <1>12 DEF WholeItems
<1> QED
  BY <1>2, <1>5, <1>13 DEF r, z

-----------------------------------------------------------------------------
(* What a sender has to go on with.                                         *)

LEMMA FollowsAppend ==
    ASSUME NEW its \in Seq(ItemType), NEW it \in ItemType, NEW n \in 0..Len(its),
           NEW s, NEW f, NEW p, Follows(its, s, f, p, n)
    PROVE  Follows(Append(its, it), s, f, p, n)
<1>1. \A i \in 1..Len(its) : Append(its, it)[i] = its[i]
  BY AppendProperties
<1>2. Len(its) \in Nat
  OBVIOUS
<1> QED
  BY <1>1, <1>2 DEF Follows

LEMMA FollowsOther ==
    ASSUME NEW its \in Seq(ItemType), NEW n \in 0..Len(its) - 1,
           NEW s, NEW f, NEW p, Follows(its, s, f, p, n), its[n + 1].from # s
    PROVE  Follows(its, s, f, p, n + 1)
<1>1. Len(its) \in Nat
  OBVIOUS
<1> QED
  BY <1>1 DEF Follows

LEMMA FollowsSelf ==
    ASSUME NEW its \in Seq(ItemType), NEW n \in 0..Len(its) - 1
    PROVE  Follows(its, its[n + 1].from, its[n + 1].file, its[n + 1].part + 1, n + 1)
<1>1. Len(its) \in Nat
  OBVIOUS
<1> QED
  BY <1>1 DEF Follows

LEMMA NoFirstAppend ==
    ASSUME NEW its \in Seq(ItemType), NEW it \in ItemType, NEW n \in 0..Len(its),
           NEW s, NEW f, NoFirst(its, s, f, n)
    PROVE  NoFirst(Append(its, it), s, f, n)
<1>1. \A i \in 1..Len(its) : Append(its, it)[i] = its[i]
  BY AppendProperties
<1>2. Len(its) \in Nat
  OBVIOUS
<1> QED
  BY <1>1, <1>2 DEF NoFirst

LEMMA NoFirstNext ==
    ASSUME NEW its \in Seq(ItemType), NEW n \in 0..Len(its) - 1, NEW s, NEW f, NoFirst(its, s, f, n),
           its[n + 1].from # s \/ its[n + 1].type # "file" \/ its[n + 1].file # f
    PROVE  NoFirst(its, s, f, n + 1)
<1>1. Len(its) \in Nat
  OBVIOUS
<1> QED
  BY <1>1 DEF NoFirst

LEMMA ContinuesAppend ==
    ASSUME NEW its \in Seq(ItemType), NEW it \in ItemType, NEW n \in 0..Len(its),
           NEW s, NEW f, NEW p, Continues(its, s, f, p, n)
    PROVE  Continues(Append(its, it), s, f, p, n)
BY FollowsAppend, NoFirstAppend DEF Continues

LEMMA ContinuesOther ==
    ASSUME NEW its \in Seq(ItemType), NEW n \in 0..Len(its) - 1,
           NEW s, NEW f, NEW p, Continues(its, s, f, p, n), its[n + 1].from # s
    PROVE  Continues(its, s, f, p, n + 1)
BY FollowsOther, NoFirstNext DEF Continues

LEMMA HeadlessAppend ==
    ASSUME NEW its \in Seq(ItemType), NEW it \in ItemType, NEW i \in 1..Len(its), Headless(its, i)
    PROVE  Headless(Append(its, it), i)
<1>1. Append(its, it)[i] = its[i] /\ i \in 0..Len(its)
  BY AppendProperties
<1> QED
  BY <1>1, NoFirstAppend DEF Headless

\* What has been written stays what it is when more items come.
LEMMA WrittenAppend ==
    ASSUME NEW its \in Seq(ItemType), NEW it \in ItemType, NEW s, NEW got \in Seq(Nat), got # <<>>,
           \A k \in 1..Len(got) : got[k] \in 1..Len(its), Written(its, s, got)
    PROVE  Written(Append(its, it), s, got)
<1>1. \A i \in 1..Len(its) : Append(its, it)[i] = its[i]
  BY AppendProperties
<1>2. 1 \in 1..Len(got)
  BY EmptySeq
<1>3. \A k \in 1..Len(got) : Append(its, it)[got[k]] = its[got[k]]
  BY <1>1
<1>4. \A k \in 1..Len(got) : Headless(its, got[k]) => Headless(Append(its, it), got[k])
  BY HeadlessAppend
<1> QED
  BY <1>2, <1>3, <1>4 DEF Written

LEMMA TransferAppend ==
    ASSUME NEW its \in Seq(ItemType), NEW it \in ItemType, NEW n \in 0..Len(its),
           NEW t \in Transfer, TransferInv(t, its, n)
    PROVE  TransferInv(t, Append(its, it), n)
<1> DEFINE jts == Append(its, it)
           last == t.got[Len(t.got)]
<1>1. \A i \in 1..Len(its) : jts[i] = its[i]
  BY AppendProperties
<1>2. t.got \in Seq(Nat) /\ t.got # <<>> /\ Len(its) \in Nat
  BY DEF Transfer, TransferInv
<1>3. 1 \in 1..Len(t.got) /\ Len(t.got) \in 1..Len(t.got) /\ Len(t.got) \in Nat
  BY <1>2, EmptySeq
<1>4. \A k \in 1..Len(t.got) : t.got[k] \in 1..n /\ t.got[k] \in 1..Len(its)
  <2>1. \A j \in 1..n : j \in 1..Len(its)
    BY <1>2
  <2> QED
    BY <2>1 DEF TransferInv
<1>5. Written(jts, t.from, t.got)
  BY <1>2, <1>4, WrittenAppend DEF TransferInv
<1> HIDE DEF jts
<1>6. \A k \in 1..Len(t.got) : jts[t.got[k]] = its[t.got[k]]
  BY <1>1, <1>4
<1>7. \A k \in last + 1..n : k \in 1..Len(its) /\ jts[k].from # t.from
  <2>1. last \in 1..n
    BY <1>3, <1>4
  <2>2. \A k \in last + 1..n : k \in 1..Len(its)
    <3> HIDE DEF last
    <3> QED
      BY <2>1, <1>2
  <2> QED
    BY <2>2, <1>1 DEF TransferInv
<1>8. (\A k \in 1..Len(t.got) : jts[t.got[k]].file = jts[t.got[1]].file) => Len(t.got) < FileParts
  BY <1>3, <1>6 DEF TransferInv
<1> QED
  BY <1>2, <1>4, <1>5, <1>7, <1>8 DEF TransferInv, jts

-----------------------------------------------------------------------------
(* The server sends.                                                        *)

\* The first of the two is what Transmit does to the variables, the second what
\* it leaves of the invariant to the sender's own variables.
LEMMA TransmitFacts ==
    ASSUME IInv, NEW it \in ItemType, Transmit(it)
    PROVE  /\ state = "CONNECTED" /\ pc # "auth" /\ items' = Append(items, it)
           /\ UNCHANGED <<state, sock, pc, batch, hup, mid, buf, slot, parsed, saved, full>>
           /\ ConnInv' /\ StreamInv' /\ SlotInv' /\ FilesWhole'
           /\ in' \in Seq(Unit) /\ items' \in Seq(ItemType)
<1> DEFINE u == [p \in 1..Size(it) |-> <<Len(items) + 1, p>>]
<1>1. /\ state = "CONNECTED" /\ items' = Append(items, it) /\ in' = in \o u
      /\ UNCHANGED <<state, sock, pc, batch, hup, mid, buf, slot, parsed, saved, full>>
  BY DEF Transmit, recvVars
<1>2. pc # "auth"
  BY <1>1 DEF IInv, ConnInv
<1>3. in \in Seq(Unit) /\ buf \in Seq(Unit) /\ items \in Seq(ItemType) /\ parsed \in Nat
  BY DEF IInv, TypeOK, Unit
<1>4. Size(it) \in Nat /\ Len(items) \in Nat
  BY <1>3, SizeFacts
<1>5. u \in Seq(Unit)
  <2>1. \A p \in 1..Size(it) : <<Len(items) + 1, p>> \in Unit
    BY <1>4 DEF Unit
  <2> HIDE DEF Unit
  <2> QED
    BY <1>4, <2>1
<1>6. in' \in Seq(Unit) /\ items' \in Seq(ItemType) /\ Len(items') = Len(items) + 1
  <2> HIDE DEF u
  <2> QED
    BY <1>1, <1>3, <1>5, ConcatProperties, AppendProperties
<1>7. StreamInv'
  <2>1. buf \o in \in Seq(Unit) /\ WholeItems(buf \o in, items, parsed)
    BY <1>3, ConcatProperties DEF IInv, StreamInv
  <2>2. WholeItems((buf \o in) \o u, Append(items, it), parsed)
    BY <1>3, <2>1, WholeAppend
  <2>3. (buf \o in) \o u = buf \o (in \o u)
    <3> HIDE DEF u
    <3> QED
      BY <1>3, <1>5, ConcatAssociative
  <2> QED
    BY <1>1, <2>2, <2>3 DEF StreamInv
<1>8. SlotInv'
  <2>1. parsed <= Len(items) /\ parsed \in 0..Len(items)
    BY <1>3, <1>4 DEF IInv, SlotInv
  <2>2. ASSUME NEW x \in 1..Slots, slot[x] # None
        PROVE  TransferInv(slot[x], items', parsed)
    <3>1. TransferInv(slot[x], items, parsed) /\ slot[x] \in Transfer
      BY <2>2 DEF IInv, SlotInv, TypeOK
    <3> QED
      BY <1>1, <1>3, <2>1, <3>1, TransferAppend
  <2> QED
    BY <1>1, <1>3, <1>4, <1>6, <2>1, <2>2 DEF IInv, SlotInv
<1>9. ConnInv'
  BY <1>1, <1>2 DEF IInv, ConnInv
<1>10. FilesWhole'
  <2>1. ASSUME saved # None
        PROVE  /\ Written(items', saved.from, saved.got)
               /\ Len(saved.got) = FileParts
                  \/ \E n \in 1..Len(saved.got) : Headless(items', saved.got[n])
    <3>1. /\ saved.got \in Seq(Nat) /\ saved.got # <<>> /\ Len(items) \in Nat
          /\ \A k \in 1..Len(saved.got) : saved.got[k] \in 1..Len(items)
      BY <1>3, <2>1 DEF IInv, SlotInv, TypeOK, Transfer
    <3>2. /\ Written(items, saved.from, saved.got)
          /\ Len(saved.got) = FileParts
             \/ \E n \in 1..Len(saved.got) : Headless(items, saved.got[n])
      BY <2>1 DEF IInv, FilesWhole
    <3>3. Written(items', saved.from, saved.got)
      BY <1>1, <1>3, <3>1, <3>2, WrittenAppend
    <3> QED
      BY <1>1, <1>3, <3>1, <3>2, <3>3, HeadlessAppend
  <2> QED
    BY <1>1, <2>1 DEF FilesWhole
<1> QED
  BY <1>1, <1>2, <1>6, <1>7, <1>8, <1>9, <1>10

\* One item more, and what the senders are to send next.
LEMMA ItemsAppend ==
    ASSUME IInv, NEW it \in ItemType, items' = Append(items, it),
           file' \in [Sender -> Nat],
           it.type \in {"file", "chunk"} => it.from \in Sender,
           it.type \in {"list", "info"} => it.from = None,
           it.type = "file" => it.part = 1,
           it.type = "chunk" => Continues(items, it.from, it.file, it.part, Len(items)),
           \A s \in Sender : file[s] <= file'[s] /\ (it.from = s => it.file <= file'[s]),
           \A s \in Sender :
              \/ sending'[s] = 0
              \/ it.from # s /\ sending'[s] = sending[s] /\ file'[s] = file[s]
              \/ it.from # s /\ file'[s] = file[s] + 1
              \/ it.from = s /\ sending'[s] = it.part + 1 /\ file'[s] = it.file
    PROVE  ItemsInv'
<1> DEFINE l == Len(items)
<1>1. items \in Seq(ItemType) /\ l \in Nat /\ file \in [Sender -> Nat]
  BY DEF IInv, TypeOK
<1>2. /\ items' \in Seq(ItemType) /\ Len(items') = l + 1 /\ items'[l + 1] = it
      /\ \A i \in 1..l : items'[i] = items[i]
  BY <1>1, AppendProperties
<1>3. ASSUME NEW s, NEW f, NEW p, NEW n \in 0..l, Continues(items, s, f, p, n)
      PROVE  Continues(items', s, f, p, n)
  BY <1>1, <1>3, ContinuesAppend
<1>4. ASSUME NEW i \in 1..l + 1
      PROVE  /\ items'[i].type \in {"file", "chunk"} => items'[i].from \in Sender
             /\ items'[i].type \in {"list", "info"} => items'[i].from = None
             /\ items'[i].type = "file" => items'[i].part = 1
             /\ items'[i].type = "chunk" => Continues(items', items'[i].from, items'[i].file, items'[i].part, i - 1)
  <2>1. CASE i = l + 1
    <3>1. i - 1 = l /\ l \in 0..l /\ items'[i] = it
      BY <1>1, <1>2, <2>1
    <3> HIDE DEF l
    <3>2. it.type = "chunk" => Continues(items', it.from, it.file, it.part, l)
      BY <1>3, <3>1 DEF l
    <3> QED
      BY <3>1, <3>2
  <2>2. CASE i # l + 1
    <3>1. i \in 1..l /\ i - 1 \in 0..l /\ items'[i] = items[i]
      BY <1>1, <1>2, <2>2
    <3>2. /\ items[i].type \in {"file", "chunk"} => items[i].from \in Sender
          /\ items[i].type \in {"list", "info"} => items[i].from = None
          /\ items[i].type = "file" => items[i].part = 1
          /\ items[i].type = "chunk" => Continues(items, items[i].from, items[i].file, items[i].part, i - 1)
      BY <3>1 DEF IInv, ItemsInv
    <3> QED
      BY <1>3, <3>1, <3>2
  <2> QED
    BY <2>1, <2>2
<1>5. ASSUME NEW s \in Sender, NEW i \in 1..l + 1, items'[i].from = s
      PROVE  items'[i].file <= file'[s]
  <2>1. CASE i = l + 1
    BY <1>2, <1>5, <2>1
  <2>2. CASE i # l + 1
    <3>1. i \in 1..l /\ items'[i] = items[i] /\ items[i].file \in Nat
      <4>1. i \in 1..l /\ items'[i] = items[i]
        BY <1>1, <1>2, <2>2
      <4>2. items[i] \in ItemType
        BY <1>1, <4>1
      <4> QED
        BY <4>1, <4>2 DEF ItemType
    <3>2. items[i].file <= file[s]
      BY <1>5, <3>1 DEF IInv, ItemsInv
    <3> QED
      BY <1>1, <3>1, <3>2
  <2> QED
    BY <2>1, <2>2
<1>6. ASSUME NEW s \in Sender, sending'[s] # 0
      PROVE  Continues(items', s, file'[s], sending'[s], l + 1)
  <2>1. l \in 0..Len(items') - 1 /\ l \in 0..l
    BY <1>1, <1>2
  <2>2. CASE it.from # s /\ sending'[s] = sending[s] /\ file'[s] = file[s]
    <3>1. Continues(items, s, file[s], sending[s], l)
      BY <1>6, <2>2 DEF IInv, ItemsInv
    <3>2. Continues(items', s, file[s], sending[s], l)
      BY <1>3, <2>1, <3>1
    <3> QED
      BY <1>2, <2>1, <2>2, <3>2, ContinuesOther
  <2>3. CASE it.from # s /\ file'[s] = file[s] + 1
    <3>1. ASSUME NEW i \in 1..l + 1, items'[i].from = s
          PROVE  items'[i].file # file[s] + 1
      <4>1. i \in 1..l /\ items'[i] = items[i]
        BY <1>1, <1>2, <2>3, <3>1
      <4>2. items[i] \in ItemType /\ items[i].file \in Nat
        <5>1. items[i] \in ItemType
          BY <1>1, <4>1
        <5> QED
          BY <5>1 DEF ItemType
      <4>3. items[i].file <= file[s]
        BY <3>1, <4>1 DEF IInv, ItemsInv
      <4> QED
        BY <1>1, <4>1, <4>2, <4>3
    <3> QED
      BY <2>3, <3>1 DEF Continues, NoFirst
  <2>4. CASE it.from = s /\ sending'[s] = it.part + 1 /\ file'[s] = it.file
    <3>1. Follows(items', items'[l + 1].from, items'[l + 1].file, items'[l + 1].part + 1, l + 1)
      BY <1>2, <2>1, FollowsSelf
    <3> QED
      BY <1>2, <2>4, <3>1 DEF Continues
  <2> QED
    BY <1>6, <2>2, <2>3, <2>4
<1> QED
  BY <1>2, <1>4, <1>5, <1>6 DEF ItemsInv

\* An item of the kinds the server sends.
LEMMA ItemIsItem ==
    ASSUME NEW t \in {"list", "info", "file", "chunk"}, NEW s \in Sender \cup {None},
           NEW f \in Nat, NEW n \in 0..FileParts
    PROVE  /\ Item(t, s, f, n) \in ItemType
           /\ Item(t, s, f, n).type = t /\ Item(t, s, f, n).from = s
           /\ Item(t, s, f, n).file = f /\ Item(t, s, f, n).part = n
BY DEF Item, ItemType

LEMMA TransmitType ==
    ASSUME IInv, NEW it \in ItemType, Transmit(it),
           sending' \in [Sender -> 0..FileParts], file' \in [Sender -> Nat]
    PROVE  TypeOK'
<1>1. UNCHANGED <<state, sock, pc, batch, hup, mid, buf, slot, parsed, saved, full>>
      /\ in' \in Seq(Unit) /\ items' \in Seq(ItemType)
  BY TransmitFacts
<1> QED
  BY <1>1 DEF IInv, TypeOK, Unit

LEMMA NoticeStep ==
    ASSUME IInv, NEW t \in {"list", "info"}, Transmit(Item(t, None, 0, 0)),
           \/ UNCHANGED <<sending, file>>
           \/ \E s \in Sender : sending' = [sending EXCEPT ![s] = 0] /\ UNCHANGED file
           \/ \E s \in Sender : \E n \in 2..FileParts :
                 sending' = [sending EXCEPT ![s] = n] /\ file' = [file EXCEPT ![s] = file[s] + 1]
    PROVE  IInv'
<1> DEFINE it == Item(t, None, 0, 0)
<1>0. FileParts \in Nat \ {0}
  BY ClientAssumption
<1>1. it \in ItemType /\ it.type = t /\ it.from = None /\ it.file = 0
  BY <1>0, ItemIsItem
<1> HIDE DEF it
<1>2. Transmit(it)
  BY DEF it
<1>3. sending \in [Sender -> 0..FileParts] /\ file \in [Sender -> Nat]
  BY DEF IInv, TypeOK
<1>4. /\ sending' \in [Sender -> 0..FileParts] /\ file' \in [Sender -> Nat]
      /\ \A s \in Sender : file[s] <= file'[s]
      /\ \A s \in Sender : \/ sending'[s] = 0
                           \/ sending'[s] = sending[s] /\ file'[s] = file[s]
                           \/ file'[s] = file[s] + 1
  <2>1. CASE UNCHANGED <<sending, file>>
    BY <1>3, <2>1
  <2>2. CASE \E s \in Sender : sending' = [sending EXCEPT ![s] = 0] /\ UNCHANGED file
    BY <1>0, <1>3, <2>2
  <2>3. ASSUME NEW s \in Sender, NEW n \in 2..FileParts,
               sending' = [sending EXCEPT ![s] = n], file' = [file EXCEPT ![s] = file[s] + 1]
        PROVE  /\ sending' \in [Sender -> 0..FileParts] /\ file' \in [Sender -> Nat]
               /\ \A r \in Sender : file[r] <= file'[r]
               /\ \A r \in Sender : \/ sending'[r] = 0
                                    \/ sending'[r] = sending[r] /\ file'[r] = file[r]
                                    \/ file'[r] = file[r] + 1
    BY <1>0, <1>3, <2>3
  <2> QED
    BY <2>1, <2>2, <2>3
<1>5. items' = Append(items, it) /\ ConnInv' /\ StreamInv' /\ SlotInv' /\ FilesWhole'
  BY <1>1, <1>2, TransmitFacts
<1>6. TypeOK'
  BY <1>1, <1>2, <1>4, TransmitType
<1>7. \A s \in Sender : it.from # s
  BY <1>1, ClientAssumption
<1>8. ItemsInv'
  BY <1>1, <1>4, <1>5, <1>7, ItemsAppend
<1> QED
  BY <1>5, <1>6, <1>8 DEF IInv

LEMMA FirstPduStep ==
    ASSUME IInv, NEW s \in Sender, FirstPdu(s)
    PROVE  IInv'
<1> DEFINE it == Item("file", s, file[s] + 1, 1)
<1>1. sending \in [Sender -> 0..FileParts] /\ file \in [Sender -> Nat] /\ FileParts \in Nat \ {0}
  BY ClientAssumption DEF IInv, TypeOK
<1>2. file[s] + 1 \in Nat /\ 1 \in 0..FileParts
  BY <1>1
<1>3. it \in ItemType /\ it.type = "file" /\ it.from = s /\ it.file = file[s] + 1 /\ it.part = 1
  BY <1>2, ItemIsItem
<1>4. /\ Transmit(it) /\ file' = [file EXCEPT ![s] = file[s] + 1]
      /\ sending' = [sending EXCEPT ![s] = IF FileParts = 1 THEN 0 ELSE 2]
  BY DEF FirstPdu
<1> HIDE DEF it
<1>5. /\ sending' \in [Sender -> 0..FileParts] /\ file' \in [Sender -> Nat]
      /\ \A r \in Sender : file[r] <= file'[r] /\ (it.from = r => it.file <= file'[r])
  BY <1>1, <1>2, <1>3, <1>4
<1>6. items' = Append(items, it) /\ ConnInv' /\ StreamInv' /\ SlotInv' /\ FilesWhole'
  BY <1>3, <1>4, TransmitFacts
<1>7. TypeOK'
  BY <1>3, <1>4, <1>5, TransmitType
<1>8. ASSUME NEW r \in Sender
      PROVE  \/ sending'[r] = 0
             \/ it.from # r /\ sending'[r] = sending[r] /\ file'[r] = file[r]
             \/ it.from = r /\ sending'[r] = it.part + 1 /\ file'[r] = it.file
  BY <1>1, <1>3, <1>4
<1>9. ItemsInv'
  BY <1>3, <1>5, <1>6, <1>8, ItemsAppend
<1> QED
  BY <1>6, <1>7, <1>9 DEF IInv

LEMMA NextChunkStep ==
    ASSUME IInv, NEW s \in Sender, NextChunk(s)
    PROVE  IInv'
<1> DEFINE it == Item("chunk", s, file[s], sending[s])
<1>1. sending \in [Sender -> 0..FileParts] /\ file \in [Sender -> Nat] /\ FileParts \in Nat \ {0}
  BY ClientAssumption DEF IInv, TypeOK
<1>2. file[s] \in Nat /\ sending[s] \in 0..FileParts
  BY <1>1
<1>3. it \in ItemType /\ it.type = "chunk" /\ it.from = s /\ it.file = file[s] /\ it.part = sending[s]
  BY <1>2, ItemIsItem
<1>4. /\ Transmit(it) /\ file' = file /\ sending[s] # 0
      /\ sending' = [sending EXCEPT ![s] = IF sending[s] = FileParts THEN 0 ELSE sending[s] + 1]
  BY DEF NextChunk
<1> HIDE DEF it
<1>5. /\ sending' \in [Sender -> 0..FileParts] /\ file' \in [Sender -> Nat]
      /\ \A r \in Sender : file[r] <= file'[r] /\ (it.from = r => it.file <= file'[r])
  BY <1>1, <1>2, <1>3, <1>4
<1>6. items' = Append(items, it) /\ ConnInv' /\ StreamInv' /\ SlotInv' /\ FilesWhole'
  BY <1>3, <1>4, TransmitFacts
<1>7. TypeOK'
  BY <1>3, <1>4, <1>5, TransmitType
<1>8. ASSUME NEW r \in Sender
      PROVE  \/ sending'[r] = 0
             \/ it.from # r /\ sending'[r] = sending[r] /\ file'[r] = file[r]
             \/ it.from = r /\ sending'[r] = it.part + 1 /\ file'[r] = it.file
  BY <1>1, <1>3, <1>4
<1>9. Continues(items, it.from, it.file, it.part, Len(items))
  BY <1>3, <1>4 DEF IInv, ItemsInv
<1>10. ItemsInv'
  BY <1>3, <1>5, <1>6, <1>8, <1>9, ItemsAppend
<1> QED
  BY <1>6, <1>7, <1>10 DEF IInv

LEMMA ServerStep ==
    ASSUME IInv, Server
    PROVE  IInv'
<1>1. CASE Other
  <2>1. PICK t \in {"list", "info"} : Transmit(Item(t, None, 0, 0)) /\ UNCHANGED <<sending, file>>
    BY <1>1 DEF Other
  <2> QED
    BY <2>1, NoticeStep
<1>2. CASE HangUp
  <2>1. UNCHANGED <<state, sock, pc, batch, in, mid, items, file, buf, slot, parsed, saved, full>>
        /\ hup' = TRUE /\ sending' = [s \in Sender |-> 0] /\ state = "CONNECTED"
    BY <1>2 DEF HangUp, recvVars
  <2>2. TypeOK'
    BY <2>1, ClientAssumption DEF IInv, TypeOK
  <2>3. ConnInv' /\ StreamInv' /\ SlotInv' /\ FilesWhole'
    BY <2>1 DEF IInv, ConnInv, StreamInv, SlotInv, FilesWhole
  <2>4. ItemsInv'
    BY <2>1 DEF IInv, ItemsInv
  <2> QED
    BY <2>2, <2>3, <2>4 DEF IInv
<1>3. ASSUME NEW s \in Sender, Depart(s)
      PROVE  IInv'
  BY <1>3, NoticeStep DEF Depart
<1> QED
  BY <1>1, <1>2, <1>3, FirstPduStep, NextChunkStep DEF Server

-----------------------------------------------------------------------------
(* The connection.                                                          *)

\* Nothing of a connection is there.
LEMMA NothingThere ==
    ASSUME buf' = <<>>, in' = <<>>, items' = <<>>, parsed' = 0,
           slot' = [i \in 1..Slots |-> None], saved' = None
    PROVE  StreamInv' /\ ItemsInv' /\ SlotInv'
<1>1. StreamInv'
  <2>1. buf' \o in' = <<>>
    BY EmptySeq, ConcatEmptySeq
  <2> QED
    BY <2>1, NothingWhole DEF StreamInv
<1>2. ItemsInv'
  BY DEF ItemsInv, Continues, NoFirst
<1>3. SlotInv'
  BY DEF SlotInv
<1> QED
  BY <1>1, <1>2, <1>3

LEMMA DisconnectedStep ==
    ASSUME IInv, Disconnected, pc' \in {"loop", "exited"}, batch' \in SUBSET {"stdin", "sock"}
    PROVE  IInv'
<1>1. /\ state' = "DISCONNECTED" /\ sock' = FALSE /\ hup' = FALSE /\ mid' = FALSE /\ full' = FALSE
      /\ buf' = <<>> /\ in' = <<>> /\ items' = <<>> /\ parsed' = 0 /\ saved' = None
      /\ slot' = [i \in 1..Slots |-> None]
      /\ sending' = [s \in Sender |-> 0] /\ file' = [s \in Sender |-> 0]
  BY DEF Disconnected, close_all_transfers
<1>2. StreamInv' /\ ItemsInv' /\ SlotInv'
  BY <1>1, NothingThere
<1>3. TypeOK'
  <2>1. \A S : <<>> \in Seq(S)
    BY EmptySeq
  <2>2. FileParts \in Nat /\ TypeOK
    BY ClientAssumption DEF IInv
  <2>3. /\ sending' \in [Sender -> 0..FileParts] /\ file' \in [Sender -> Nat]
        /\ slot' \in [1..Slots -> Transfer \cup {None}]
    BY <1>1, <2>2 DEF TypeOK
  <2> QED
    BY <1>1, <2>1, <2>2, <2>3 DEF TypeOK
<1>4. ConnInv' /\ FilesWhole'
  BY <1>1 DEF ConnInv, FilesWhole
<1> QED
  BY <1>2, <1>3, <1>4 DEF IInv

\* Steps that only move the loop.
LEMMA LoopStep ==
    ASSUME IInv, UNCHANGED <<state, sock, serverVars, recvVars>>,
           batch' \in SUBSET {"stdin", "sock"},
           UNCHANGED pc \/ (pc = "parse" /\ pc' = "loop")
    PROVE  IInv'
<1> USE DEF serverVars, recvVars
<1>1. TypeOK'
  BY DEF IInv, TypeOK
<1>2. ConnInv' /\ FilesWhole'
  BY DEF IInv, ConnInv, FilesWhole
<1>3. StreamInv' /\ ItemsInv' /\ SlotInv'
  BY DEF IInv, StreamInv, ItemsInv, SlotInv
<1> QED
  BY <1>1, <1>2, <1>3 DEF IInv

LEMMA ConnectStep ==
    ASSUME IInv, cmd_connect
    PROVE  IInv'
<1>1. /\ state = "DISCONNECTED" /\ pc' = "auth" /\ sock' = TRUE /\ hup' = FALSE /\ mid' = FALSE
      /\ in' = <<>> /\ items' = <<>>
      /\ batch' = batch \ {"stdin"}
      /\ UNCHANGED <<state, sending, file, buf, slot, parsed, saved, full>>
  BY DEF cmd_connect, recvVars
<1>2. /\ buf = <<>> /\ parsed = 0 /\ saved = None
      /\ slot = [i \in 1..Slots |-> None]
      /\ sending = [s \in Sender |-> 0] /\ file = [s \in Sender |-> 0]
  BY <1>1 DEF IInv, ConnInv
<1>3. StreamInv' /\ ItemsInv' /\ SlotInv'
  BY <1>1, <1>2, NothingThere
<1>4. TypeOK'
  <2>1. \A S : <<>> \in Seq(S)
    BY EmptySeq
  <2>2. FileParts \in Nat /\ TypeOK
    BY ClientAssumption DEF IInv
  <2>3. /\ sending' \in [Sender -> 0..FileParts] /\ file' \in [Sender -> Nat]
        /\ slot' \in [1..Slots -> Transfer \cup {None}]
    BY <1>1, <2>2 DEF TypeOK
  <2> QED
    BY <1>1, <2>1, <2>2, <2>3 DEF TypeOK
<1>5. ConnInv' /\ FilesWhole'
  BY <1>1, <1>2 DEF IInv, ConnInv, FilesWhole
<1> QED
  BY <1>3, <1>4, <1>5 DEF IInv

LEMMA AuthStep ==
    ASSUME IInv, NEW ok \in BOOLEAN, do_auth(ok)
    PROVE  IInv'
<1>1. /\ pc = "auth" /\ pc' = "loop" /\ parsed' = 0
      /\ state' = IF ok THEN "CONNECTED" ELSE state
      /\ sock' = ok /\ buf' = IF ok THEN <<>> ELSE buf
      /\ UNCHANGED <<batch, in, hup, mid, items, file, slot, saved, full>>
      /\ IF ok THEN sending' \in Midway ELSE UNCHANGED sending
  BY DEF do_auth
<1>2. /\ state = "DISCONNECTED" /\ buf = <<>> /\ in = <<>> /\ items = <<>> /\ parsed = 0
      /\ slot = [i \in 1..Slots |-> None] /\ saved = None
      /\ sending = [s \in Sender |-> 0] /\ file = [s \in Sender |-> 0]
  BY <1>1 DEF IInv, ConnInv
<1>3. buf' = <<>> /\ (~ok => UNCHANGED sending)
  BY <1>1, <1>2
<1>4. StreamInv' /\ ItemsInv' /\ SlotInv'
  BY <1>1, <1>2, <1>3, NothingThere
<1>5. state' \in {"CONNECTED", "DISCONNECTED"} /\ sock' \in BOOLEAN /\ sock' = (state' = "CONNECTED")
  BY <1>1, <1>2
<1>6. TypeOK'
  <2>1. sending \in [Sender -> 0..FileParts] /\ FileParts \in Nat \ {0}
    BY ClientAssumption DEF IInv, TypeOK
  <2>2. sending' \in [Sender -> 0..FileParts]
    <3>1. CASE ok
      <4>1. sending' \in [Sender -> {0} \cup 2..FileParts]
        BY <1>1, <3>1 DEF Midway
      <4>2. {0} \cup 2..FileParts \subseteq 0..FileParts
        BY <2>1
      <4> QED
        BY <4>1, <4>2
    <3>2. CASE ~ok
      BY <1>3, <2>1, <3>2
    <3> QED
      BY <3>1, <3>2
  <2> QED
    BY <1>1, <1>3, <1>5, <2>2 DEF IInv, TypeOK
<1>7. ConnInv' /\ FilesWhole'
  BY <1>1, <1>2, <1>3, <1>5 DEF IInv, ConnInv, FilesWhole
<1> QED
  BY <1>4, <1>6, <1>7 DEF IInv

-----------------------------------------------------------------------------
(* The socket.                                                              *)

LEMMA MinOfTwo ==
    ASSUME NEW a \in Int, NEW b \in Int
    PROVE  Min({a, b}) \in {a, b} /\ Min({a, b}) <= a /\ Min({a, b}) <= b
<1>1. \E x \in {a, b} : \A y \in {a, b} : x <= y
  <2>1. a <= b \/ b <= a
    OBVIOUS
  <2> QED
    BY <2>1
<1> QED
  BY <1>1 DEF Min

LEMMA ConcatThree ==
    ASSUME NEW a \in Seq(Unit), NEW c \in Seq(Unit), NEW d \in Seq(Unit)
    PROVE  a \o c \in Seq(Unit) /\ (a \o c) \o d = a \o (c \o d)
BY ConcatAssociative, ConcatProperties

\* What is read moves from the socket to the buffer.
LEMMA MoveUnits ==
    ASSUME NEW a \in Seq(Unit), NEW b \in Seq(Unit), NEW n \in 0..Len(b)
    PROVE  /\ a \o SubSeq(b, 1, n) \in Seq(Unit) /\ SubSeq(b, n + 1, Len(b)) \in Seq(Unit)
           /\ (a \o SubSeq(b, 1, n)) \o SubSeq(b, n + 1, Len(b)) = a \o b
<1>1. Len(b) \in Nat /\ \A i \in 1..Len(b) : b[i] \in Unit
  OBVIOUS
<1>2. SubSeq(b, 1, n) \in Seq(Unit) /\ SubSeq(b, n + 1, Len(b)) \in Seq(Unit)
  <2>1. \A i \in 1..n : b[i] \in Unit
    BY <1>1
  <2>2. \A i \in n + 1..Len(b) : b[i] \in Unit
    BY <1>1
  <2>3. SubSeq(b, 1, n) \in Seq(Unit)
    BY <1>1, <2>1, SubSeqProperties
  <2>4. SubSeq(b, n + 1, Len(b)) \in Seq(Unit)
    BY <1>1, <2>2, SubSeqProperties
  <2> QED
    BY <2>3, <2>4
<1>3. SubSeq(b, 1, n) \o SubSeq(b, n + 1, Len(b)) = b
  <2>1. 1 \in 1..Len(b) + 1 /\ n \in 1 - 1..Len(b) /\ Len(b) \in n..Len(b)
    BY <1>1
  <2>2. SubSeq(b, 1, n) \o SubSeq(b, n + 1, Len(b)) = SubSeq(b, 1, Len(b))
    BY <2>1, ConcatAdjacentSubSeq
  <2> QED
    BY <2>2, SubSeqFull
<1>4. PICK c \in Seq(Unit), d \in Seq(Unit) : c = SubSeq(b, 1, n) /\ d = SubSeq(b, n + 1, Len(b))
  BY <1>2
<1>5. a \o c \in Seq(Unit) /\ (a \o c) \o d = a \o (c \o d)
  BY ConcatThree
<1>6. c \o d = b
  BY <1>3, <1>4
<1> QED
  BY <1>4, <1>5, <1>6, Zenon

LEMMA FillStep ==
    ASSUME IInv, NEW n \in 0..RecvBuf, Fill(n)
    PROVE  IInv'
<1>1. /\ pc = "loop" /\ pc' = "parse" /\ sock /\ n = Min({RecvBuf - Len(buf), Len(in)})
      /\ batch' = batch \ {"sock"}
      /\ buf' = buf \o SubSeq(in, 1, n) /\ in' = SubSeq(in, n + 1, Len(in))
      /\ UNCHANGED <<state, sock, hup, items, sending, file, slot, parsed, saved>>
  BY DEF Fill
<1>2. buf \in Seq(Unit) /\ in \in Seq(Unit) /\ Len(buf) \in Nat /\ Len(in) \in Nat /\ RecvBuf \in Nat
  BY ClientAssumption DEF IInv, TypeOK, Unit
<1>3. n \in 0..Len(in)
  <2>1. RecvBuf - Len(buf) \in Int /\ Len(in) \in Int
    BY <1>2
  <2>2. n <= Len(in)
    BY <1>1, <2>1, MinOfTwo
  <2> QED
    BY <1>2, <2>2
<1>4. buf' \in Seq(Unit) /\ in' \in Seq(Unit) /\ buf' \o in' = buf \o in
  BY <1>1, <1>2, <1>3, MoveUnits
<1>5. {mid', full'} \subseteq BOOLEAN
  <2>1. mid' = (IF n = 0 THEN mid ELSE ~End(in[n])) /\ full' = (full \/ Len(in) > n)
    BY DEF Fill
  <2>2. mid \in BOOLEAN /\ End(in[n]) \in BOOLEAN
    BY DEF IInv, TypeOK, End
  <2> QED
    BY <2>1, <2>2
<1>6. TypeOK'
  BY <1>1, <1>4, <1>5 DEF IInv, TypeOK, Unit
<1>7. ConnInv'
  BY <1>1 DEF IInv, ConnInv
<1>8. StreamInv' /\ ItemsInv' /\ SlotInv' /\ FilesWhole'
  BY <1>1, <1>4 DEF IInv, StreamInv, ItemsInv, SlotInv, FilesWhole
<1> QED
  BY <1>6, <1>7, <1>8 DEF IInv

LEMMA SocketStep ==
    ASSUME IInv, FillHup \/ StaleEvent
    PROVE  IInv'
<1>1. Disconnected /\ batch' = batch \ {"sock"} /\ pc' \in {"loop", "exited"}
  BY DEF FillHup, StaleEvent
<1>2. batch' \in SUBSET {"stdin", "sock"}
  BY <1>1 DEF IInv, TypeOK
<1> QED
  BY <1>1, <1>2, DisconnectedStep

-----------------------------------------------------------------------------
(* The parser.                                                              *)

\* Transfers of other senders are not touched by the next item.
LEMMA SlotNext ==
    ASSUME IInv, parsed + 1 \in 1..Len(items), parsed' = parsed + 1, UNCHANGED items,
           slot' \in [1..Slots -> Transfer \cup {None}],
           saved' = saved \/ (saved'.got # <<>> /\ \A k \in 1..Len(saved'.got) : saved'.got[k] \in 1..parsed + 1),
           \A x \in 1..Slots : slot'[x] # None =>
              \/ slot'[x] = slot[x] /\ slot[x].from # items[parsed + 1].from
              \/ slot'[x].from = items[parsed + 1].from /\ TransferInv(slot'[x], items, parsed + 1),
           \A x, y \in 1..Slots :
              /\ slot'[x] # None /\ slot'[x].from = items[parsed + 1].from
              /\ slot'[y] # None /\ slot'[y].from = items[parsed + 1].from
              => x = y
    PROVE  SlotInv'
<1>1. items \in Seq(ItemType) /\ parsed \in Nat /\ Len(items) \in Nat
  BY DEF IInv, TypeOK
<1>2. \A k \in 1..parsed : k \in 1..parsed + 1
  BY <1>1
<1>3. ASSUME NEW x \in 1..Slots, slot'[x] # None
      PROVE  TransferInv(slot'[x], items, parsed + 1)
  <2>1. CASE slot'[x] = slot[x] /\ slot[x].from # items[parsed + 1].from
    <3> DEFINE t == slot[x]
               last == t.got[Len(t.got)]
    <3>1. TransferInv(t, items, parsed) /\ t.got \in Seq(Nat)
      BY <1>3, <2>1 DEF IInv, SlotInv, TypeOK, Transfer
    <3> HIDE DEF t
    <3>2. Len(t.got) \in 1..Len(t.got)
      BY <3>1, EmptySeq DEF TransferInv
    <3>3. last \in 1..parsed
      BY <3>1, <3>2 DEF TransferInv
    <3>4. ASSUME NEW k \in last + 1..parsed + 1
          PROVE  items[k].from # t.from
      <4>1. k \in last + 1..parsed \/ k = parsed + 1
        BY <1>1, <3>3
      <4> QED
        BY <2>1, <3>1, <4>1 DEF TransferInv, t
    <3>5. TransferInv(t, items, parsed + 1)
      BY <1>2, <3>1, <3>4 DEF TransferInv
    <3> QED
      BY <2>1, <3>5 DEF t
  <2> QED
    BY <1>3, <2>1
<1>4. ASSUME NEW x \in 1..Slots, NEW y \in 1..Slots, slot'[x] # None, slot'[y] # None,
             slot'[x].from = slot'[y].from
      PROVE  x = y
  <2>1. CASE slot'[x].from = items[parsed + 1].from
    BY <1>4, <2>1
  <2>2. CASE slot'[x].from # items[parsed + 1].from
    <3>1. slot'[x] = slot[x] /\ slot'[y] = slot[y]
      BY <1>4, <2>2
    <3> QED
      BY <1>4, <3>1 DEF IInv, SlotInv
  <2> QED
    BY <2>1, <2>2
<1>5. saved' # None => saved'.got # <<>> /\ \A k \in 1..Len(saved'.got) : saved'.got[k] \in 1..parsed + 1
  <2>1. CASE saved' = saved
    BY <1>2, <2>1 DEF IInv, SlotInv
  <2> QED
    BY <2>1
<1>6. parsed' <= Len(items')
  BY <1>1
<1> QED
  BY <1>3, <1>4, <1>5, <1>6 DEF SlotInv

\* What clrecv_parse finds: the buffer begins with the next item.
LEMMA ParseFinds ==
    ASSUME IInv, Complete
    PROVE  LET z == Size(items[parsed + 1])
               b == SubSeq(buf, z + 1, Len(buf))
           IN  /\ parsed + 1 \in 1..Len(items) /\ items[parsed + 1] \in ItemType
               /\ b \in Seq(Unit) /\ WholeItems(b \o in, items, parsed + 1)
<1> DEFINE z == Size(items[parsed + 1])
           b == SubSeq(buf, z + 1, Len(buf))
           q == buf \o in
<1>1. /\ buf \in Seq(Unit) /\ in \in Seq(Unit) /\ items \in Seq(ItemType) /\ parsed \in Nat
      /\ Len(buf) \in Nat /\ Len(in) \in Nat /\ Len(items) \in Nat
  BY DEF IInv, TypeOK, Unit
<1>2. buf # <<>> /\ Len(buf) >= z
  BY DEF Complete
<1>3. /\ q \in Seq(Unit) /\ Len(q) = Len(buf) + Len(in) /\ WholeItems(q, items, parsed)
      /\ \A i \in 1..Len(buf) + Len(in) : q[i] = IF i <= Len(buf) THEN buf[i] ELSE in[i - Len(buf)]
  BY <1>1, ConcatProperties DEF IInv, StreamInv
<1>4. q # <<>>
  BY <1>1, <1>2, ConcatEqualIffEmpty
<1>5. parsed + 1 \in 1..Len(items) /\ WholeItems(SubSeq(q, z + 1, Len(q)), items, parsed + 1)
  BY <1>1, <1>3, <1>4, WholeDrop
<1>6. items[parsed + 1] \in ItemType /\ z \in Nat \ {0}
  BY <1>1, <1>5, SizeFacts
<1> HIDE DEF z, q
<1>7. /\ b \in Seq(Unit) /\ Len(b) = Len(buf) - z
      /\ \A i \in 1..Len(buf) - z : b[i] = buf[z + i]
  <2>1. z + 1 \in Int /\ Len(buf) \in Int /\ \A i \in z + 1..Len(buf) : buf[i] \in Unit
    BY <1>1, <1>6
  <2>2. /\ b \in Seq(Unit) /\ Len(b) = (IF z + 1 <= Len(buf) THEN Len(buf) - (z + 1) + 1 ELSE 0)
        /\ \A i \in 1..Len(buf) - (z + 1) + 1 : b[i] = buf[z + 1 + i - 1]
    BY <2>1, SubSeqProperties
  <2> HIDE DEF b
  <2>3. Len(buf) - (z + 1) + 1 = Len(buf) - z /\ (~(z + 1 <= Len(buf)) => Len(buf) - z = 0)
    BY <1>1, <1>2, <1>6
  <2>4. \A i \in 1..Len(buf) - z : z + 1 + i - 1 = z + i
    BY <1>1, <1>6
  <2> QED
    BY <2>2, <2>3, <2>4
<1> DEFINE r == SubSeq(q, z + 1, Len(q))
<1>8. /\ r \in Seq(Unit) /\ Len(r) = Len(buf) + Len(in) - z
      /\ \A i \in 1..Len(buf) + Len(in) - z : r[i] = q[z + i]
  <2>1. z + 1 \in Int /\ Len(q) \in Int /\ \A i \in z + 1..Len(q) : q[i] \in Unit
    BY <1>1, <1>3, <1>6
  <2>2. /\ r \in Seq(Unit) /\ Len(r) = (IF z + 1 <= Len(q) THEN Len(q) - (z + 1) + 1 ELSE 0)
        /\ \A i \in 1..Len(q) - (z + 1) + 1 : r[i] = q[z + 1 + i - 1]
    BY <2>1, SubSeqProperties
  <2> HIDE DEF r
  <2>3. /\ Len(q) - (z + 1) + 1 = Len(buf) + Len(in) - z
        /\ ~(z + 1 <= Len(q)) => Len(buf) + Len(in) - z = 0
    BY <1>1, <1>2, <1>3, <1>6
  <2>4. \A i \in 1..Len(buf) + Len(in) - z : z + 1 + i - 1 = z + i
    BY <1>1, <1>6
  <2> QED
    BY <2>2, <2>3, <2>4
<1> HIDE DEF b, r
<1>9. /\ b \o in \in Seq(Unit) /\ Len(b \o in) = Len(b) + Len(in)
      /\ \A i \in 1..Len(b) + Len(in) : (b \o in)[i] = IF i <= Len(b) THEN b[i] ELSE in[i - Len(b)]
  BY <1>1, <1>7, ConcatProperties
<1>10. ASSUME NEW i \in 1..Len(r)
       PROVE  r[i] = (b \o in)[i]
  <2>1. /\ i \in 1..Len(buf) + Len(in) - z /\ i \in 1..Len(b) + Len(in) /\ z + i \in 1..Len(buf) + Len(in)
        /\ i \in Int
    BY <1>1, <1>2, <1>6, <1>7, <1>8
  <2>2. PICK j \in 1..Len(buf) + Len(in) : j = z + i /\ r[i] = q[j]
    BY <1>8, <2>1
  <2>3. q[j] = IF j <= Len(buf) THEN buf[j] ELSE in[j - Len(buf)]
    BY <1>3
  <2>4. (b \o in)[i] = IF i <= Len(b) THEN b[i] ELSE in[i - Len(b)]
    BY <1>9, <2>1
  <2>5. CASE i <= Len(b)
    <3>1. i \in 1..Len(buf) - z /\ j <= Len(buf)
      BY <1>1, <1>6, <1>7, <2>1, <2>2, <2>5
    <3> QED
      BY <1>7, <2>2, <2>3, <2>4, <2>5, <3>1
  <2>6. CASE ~(i <= Len(b))
    <3>1. ~(j <= Len(buf)) /\ j - Len(buf) = i - Len(b)
      BY <1>1, <1>6, <1>7, <2>1, <2>2, <2>6
    <3> QED
      BY <2>2, <2>3, <2>4, <2>6, <3>1
  <2> QED
    BY <2>5, <2>6
<1>11. r = b \o in
  <2>1. Len(r) = Len(b \o in)
    BY <1>1, <1>6, <1>7, <1>8, <1>9
  <2> QED
    BY <1>8, <1>9, <1>10, <2>1, SeqEqual
<1> QED
  BY <1>5, <1>6, <1>7, <1>11 DEF r, b, z

LEMMA SameLast ==
    ASSUME NEW n \in Nat, NEW i \in 1..n, NEW j \in 1..n, ~(i \in j + 1..n), ~(j \in i + 1..n)
    PROVE  i = j
OBVIOUS

LEMMA UpTo ==
    ASSUME NEW m \in Nat, NEW i \in 1..m - 1
    PROVE  \A k \in 1..m : k \in 1..i \/ k \in i + 1..m - 1 \/ k = m
OBVIOUS

LEMMA NoneAbove ==
    ASSUME NEW m \in Int
    PROVE  \A k \in m + 1..m : FALSE
OBVIOUS

\* What begins with the first PDU of a file.
LEMMA FirstWritten ==
    ASSUME IInv, NEW m \in 1..Len(items), items[m].type = "file"
    PROVE  /\ Written(items, items[m].from, <<m>>)
           /\ 1 < FileParts =>
                TransferInv([from |-> items[m].from, got |-> <<m>>], items, m)
<1>1. items[m].part = 1 /\ m \in Int /\ m \in 1..m
  <2>1. Len(items) \in Nat
    BY DEF IInv, TypeOK
  <2> QED
    BY <2>1 DEF IInv, ItemsInv
<1> DEFINE g == <<m>>
<1>2. Len(g) = 1 /\ g[1] = m /\ g # <<>> /\ \A k \in 1..Len(g) : k = 1
  OBVIOUS
<1> HIDE DEF g
<1>3. Written(items, items[m].from, g)
  BY <1>1, <1>2 DEF Written
<1>4. ASSUME 1 < FileParts
      PROVE  TransferInv([from |-> items[m].from, got |-> g], items, m)
  <2> DEFINE t == [from |-> items[m].from, got |-> g]
  <2>1. t.from = items[m].from /\ t.got = g
    OBVIOUS
  <2> HIDE DEF t
  <2>2. \A k \in m + 1..m : FALSE
    BY <1>1, NoneAbove
  <2>3. Len(t.got) = 1 /\ t.got[1] = m /\ t.got # <<>> /\ \A k \in 1..Len(t.got) : k = 1
    BY <1>2, <2>1, Zenon
  <2>4. t.got[Len(t.got)] = m
    BY <2>3, Zenon
  <2>5. \A k \in 1..Len(t.got) : t.got[k] \in 1..m
    BY <1>1, <2>3, Zenon
  <2>6. Written(items, t.from, t.got)
    BY <1>3, <2>1, Zenon
  <2>7. TransferInv(t, items, m)
    BY <1>4, <2>2, <2>3, <2>4, <2>5, <2>6 DEF TransferInv
  <2> QED
    BY <2>7 DEF t
<1> QED
  BY <1>3, <1>4 DEF g

\* The first PDU of a file.
LEMMA FileStep ==
    ASSUME IInv, NEW opens \in BOOLEAN, parsed + 1 \in 1..Len(items),
           parsed' = parsed + 1, UNCHANGED items,
           items[parsed + 1].type = "file", process_file(items[parsed + 1], opens)
    PROVE  /\ slot' \in [1..Slots -> Transfer \cup {None}] /\ saved' \in Transfer \cup {None}
           /\ SlotInv' /\ FilesWhole'
<1> DEFINE it == items[parsed + 1]
           s == it.from
           sl == Replaced(s)
           m == Min(alloc_transfer(sl))
           new == [from |-> it.from, got |-> <<parsed + 1>>]
<1>1. /\ items \in Seq(ItemType) /\ parsed \in Nat /\ it \in ItemType /\ Len(items) \in Nat
      /\ slot \in [1..Slots -> Transfer \cup {None}] /\ FileParts \in Nat \ {0}
      /\ saved \in Transfer \cup {None}
  BY ClientAssumption DEF IInv, TypeOK
<1>2. it.from \in Sender
  BY <1>1 DEF IInv, ItemsInv, ItemType
<1>3. /\ sl \in [1..Slots -> Transfer \cup {None}]
      /\ \A x \in 1..Slots : sl[x] # None => sl[x] = slot[x] /\ slot[x].from # s
  BY <1>1 DEF Replaced, find_transfer
<1>4. \/ slot' = sl /\ UNCHANGED saved
      \/ slot' = sl /\ FileParts = 1 /\ saved' = new
      \/ FileParts # 1 /\ slot' = [sl EXCEPT ![m] = new] /\ UNCHANGED saved
  BY DEF process_file, Save
<1>5. /\ new \in Transfer /\ new.from = s /\ new.got = <<parsed + 1>>
      /\ new.got # <<>> /\ Len(new.got) = 1 /\ new.got[1] = parsed + 1
      /\ \A k \in 1..Len(new.got) : new.got[k] \in 1..parsed + 1
  <2>1. parsed + 1 \in Nat /\ parsed + 1 \in 1..parsed + 1
    BY <1>1
  <2>2. <<parsed + 1>> \in Seq(Nat)
    BY <2>1
  <2> QED
    BY <1>2, <2>1, <2>2 DEF Transfer
<1>6. Written(items, s, <<parsed + 1>>) /\ (1 < FileParts => TransferInv(new, items, parsed + 1))
  BY FirstWritten
<1>7. saved' = saved \/ (FileParts = 1 /\ saved' = new)
  BY <1>4
<1> HIDE DEF new
<1>8. FilesWhole'
  <2>1. CASE UNCHANGED saved
    BY <2>1 DEF IInv, FilesWhole
  <2>2. CASE FileParts = 1 /\ saved' = new
    BY <1>5, <1>6, <2>2 DEF FilesWhole
  <2> QED
    BY <1>7, <2>1, <2>2
<1>9. saved' \in Transfer \cup {None}
  BY <1>1, <1>5, <1>7
<1>10. saved' = saved \/ (saved'.got # <<>> /\ \A k \in 1..Len(saved'.got) : saved'.got[k] \in 1..parsed + 1)
  BY <1>5, <1>7
<1> HIDE DEF m, sl
<1>11. CASE slot' = sl
  <2>1. SlotInv'
    BY <1>3, <1>10, <1>11, SlotNext
  <2> QED
    BY <1>3, <1>8, <1>9, <1>11, <2>1
<1>12. CASE FileParts # 1 /\ slot' = [sl EXCEPT ![m] = new]
  <2>1. TransferInv(new, items, parsed + 1)
    BY <1>1, <1>6, <1>12
  <2>2. /\ slot' \in [1..Slots -> Transfer \cup {None}]
        /\ \A x \in 1..Slots : x # m => slot'[x] = sl[x]
        /\ m \in 1..Slots => slot'[m] = new
    BY <1>3, <1>5, <1>12
  <2>3. SlotInv'
    BY <1>3, <1>5, <1>10, <2>1, <2>2, SlotNext
  <2> QED
    BY <1>8, <1>9, <2>2, <2>3
<1> QED
  BY <1>4, <1>11, <1>12

\* A transfer takes the chunk its sender has sent next.
LEMMA ChunkWritten ==
    ASSUME IInv, NEW m \in 1..Len(items), items[m].type = "chunk",
           NEW t \in Transfer, t.from = items[m].from, TransferInv(t, items, m - 1)
    PROVE  /\ Append(t.got, m) \in Seq(Nat) /\ Len(Append(t.got, m)) = Len(t.got) + 1
           /\ Append(t.got, m)[Len(t.got) + 1] = m
           /\ \A k \in 1..Len(t.got) + 1 : Append(t.got, m)[k] \in 1..m
           /\ \A k \in 1..Len(t.got) : Append(t.got, m)[k] = t.got[k]
           /\ Written(items, t.from, Append(t.got, m))
<1> DEFINE g == Append(t.got, m)
           n == Len(t.got)
<1>1. /\ items \in Seq(ItemType) /\ Len(items) \in Nat /\ m \in Nat /\ m - 1 \in Nat
      /\ t.got \in Seq(Nat) /\ n \in Nat /\ t.got # <<>>
  BY DEF IInv, TypeOK, Transfer, TransferInv
<1>2. 1 \in 1..n /\ n \in 1..n
  BY <1>1, EmptySeq
<1>3. g \in Seq(Nat) /\ Len(g) = n + 1 /\ g[n + 1] = m /\ \A k \in 1..n : g[k] = t.got[k]
  BY <1>1, AppendProperties
<1>4. Continues(items, t.from, items[m].file, items[m].part, m - 1)
  BY DEF IInv, ItemsInv
<1>5. \A k \in 1..n : t.got[k] \in 1..m - 1
  BY DEF TransferInv
<1>6. PICK last \in 1..m - 1 : /\ last = t.got[n] /\ items[last].from = t.from
                               /\ \A k \in last + 1..m - 1 : items[k].from # t.from
  BY <1>2, <1>5 DEF TransferInv, Written
<1> HIDE DEF g, n
<1>7. \/ items[m].file = items[t.got[1]].file /\ items[m].part = n + 1
      \/ Headless(items, m)
  <2>1. CASE NoFirst(items, t.from, items[m].file, m - 1)
    <3>1. NoFirst(items, t.from, items[m].file, m)
      <4>1. \A j \in 1..m : j \in 1..m - 1 \/ j = m
        BY <1>1
      <4> QED
        BY <2>1, <4>1 DEF NoFirst
    <3> QED
      BY <3>1 DEF Headless
  <2>2. CASE Follows(items, t.from, items[m].file, items[m].part, m - 1)
    <3>1. PICK i \in 1..m - 1 : /\ items[i].from = t.from /\ \A k \in i + 1..m - 1 : items[k].from # t.from
                                /\ items[i].file = items[m].file /\ items[i].part + 1 = items[m].part
      BY <2>2 DEF Follows
    <3>2. i = last
      <4>1. ~(last \in i + 1..m - 1) /\ ~(i \in last + 1..m - 1)
        BY <1>6, <3>1
      <4> QED
        BY <1>1, <4>1, SameLast
    <3>3. \/ items[last].file = items[t.got[1]].file /\ items[last].part = n
          \/ Headless(items, last)
      BY <1>2, <1>6 DEF TransferInv, Written, n
    <3>4. CASE items[last].file = items[t.got[1]].file /\ items[last].part = n
      BY <3>1, <3>2, <3>4
    <3>5. CASE Headless(items, last)
      <4>1. NoFirst(items, t.from, items[m].file, last)
        BY <1>6, <3>1, <3>2, <3>5 DEF Headless
      <4>2. \A j \in 1..m : j \in 1..last \/ j \in last + 1..m - 1 \/ j = m
        BY <1>1, UpTo
      <4>3. NoFirst(items, t.from, items[m].file, m)
        BY <1>6, <4>1, <4>2 DEF NoFirst
      <4> QED
        BY <4>3 DEF Headless
    <3> QED
      BY <3>3, <3>4, <3>5
  <2> QED
    BY <1>4, <2>1, <2>2 DEF Continues
<1>8. \A k \in 1..n + 1 : k \in 1..n \/ k = n + 1
  BY <1>1 DEF n
<1>9. Written(items, t.from, t.got) /\ g[1] = t.got[1]
  BY <1>2, <1>3 DEF TransferInv
<1>10. Written(items, t.from, g)
  <2>1. ASSUME NEW k \in 1..n + 1
        PROVE  /\ items[g[k]].from = t.from
               /\ \/ items[g[k]].file = items[g[1]].file /\ items[g[k]].part = k
                  \/ Headless(items, g[k])
    <3>1. CASE k \in 1..n
      <4>1. g[k] = t.got[k]
        BY <1>3, <3>1
      <4> QED
        BY <1>9, <3>1, <4>1 DEF Written, n
    <3>2. CASE k = n + 1
      BY <1>3, <1>7, <1>9, <3>2
    <3> QED
      BY <1>8, <3>1, <3>2
  <2>2. items[g[1]].type = "file"
    BY <1>9 DEF Written
  <2> QED
    BY <1>3, <2>1, <2>2 DEF Written
<1>11. \A k \in 1..n + 1 : g[k] \in 1..m
  <2>1. \A k \in 1..m - 1 : k \in 1..m
    BY <1>1
  <2>2. m \in 1..m
    BY <1>1
  <2> QED
    BY <1>3, <1>5, <1>8, <2>1, <2>2
<1> QED
  BY <1>3, <1>10, <1>11 DEF g, n

\* A chunk.
LEMMA ChunkStep ==
    ASSUME IInv, NEW enough \in BOOLEAN,
           parsed + 1 \in 1..Len(items), parsed' = parsed + 1, UNCHANGED items,
           items[parsed + 1].type = "chunk", process_chunk(items[parsed + 1], enough)
    PROVE  /\ slot' \in [1..Slots -> Transfer \cup {None}] /\ saved' \in Transfer \cup {None}
           /\ SlotInv' /\ FilesWhole'
<1> DEFINE m == parsed + 1
           s == items[m].from
           f == find_transfer(s)
<1>1. /\ items \in Seq(ItemType) /\ parsed \in Nat /\ Len(items) \in Nat /\ m - 1 = parsed
      /\ slot \in [1..Slots -> Transfer \cup {None}] /\ FileParts \in Nat \ {0} /\ Slots \in Nat
      /\ saved \in Transfer \cup {None}
  <2>1. FileParts \in Nat \ {0} /\ Slots \in Nat
    BY ClientAssumption
  <2>2. /\ items \in Seq(ItemType) /\ parsed \in Nat
        /\ slot \in [1..Slots -> Transfer \cup {None}] /\ saved \in Transfer \cup {None}
    BY DEF IInv, TypeOK
  <2>3. Len(items) \in Nat /\ m - 1 = parsed
    BY <2>2
  <2> QED
    BY <2>1, <2>2, <2>3
<1>2. s \in Sender
  BY <1>1 DEF IInv, ItemsInv
<1>3. CASE f = {}
  <2>1. UNCHANGED <<slot, saved>>
    BY <1>3 DEF process_chunk
  <2>2. \A x \in 1..Slots : slot[x] # None => slot[x].from # s
    BY <1>3 DEF find_transfer
  <2>3. SlotInv'
    BY <1>1, <2>1, <2>2, SlotNext
  <2> QED
    BY <1>1, <2>1, <2>3 DEF IInv, FilesWhole
<1>4. CASE f # {}
  <2>1. PICK x \in 1..Slots : slot[x] # None /\ slot[x].from = s
    BY <1>4 DEF find_transfer
  <2>2. f = {x}
    BY <2>1 DEF find_transfer, IInv, SlotInv
  <2>3. Min(f) = x
    BY <2>1, <2>2 DEF Min
  <2> DEFINE t == slot[x]
             g == Append(t.got, m)
  <2>4. t \in Transfer /\ TransferInv(t, items, m - 1) /\ t.from = s
    BY <1>1, <2>1 DEF IInv, SlotInv
  <2>5. /\ g \in Seq(Nat) /\ Len(g) = Len(t.got) + 1 /\ g[Len(t.got) + 1] = m
        /\ \A k \in 1..Len(t.got) + 1 : g[k] \in 1..m
        /\ \A k \in 1..Len(t.got) : g[k] = t.got[k]
        /\ Written(items, s, g)
    BY <2>4, ChunkWritten
  <2>6. \/ /\ OneFile(g) => Len(g) >= FileParts
           /\ slot' = [slot EXCEPT ![x] = None] /\ Save(s, g)
        \/ /\ OneFile(g) => ~(Len(g) >= FileParts)
           /\ slot' = [slot EXCEPT ![x].got = g] /\ UNCHANGED saved
    <3>1. IF (IF OneFile(g) THEN Len(g) >= FileParts ELSE enough)
          THEN slot' = [slot EXCEPT ![x] = None] /\ Save(s, g)
          ELSE slot' = [slot EXCEPT ![x].got = g] /\ UNCHANGED saved
      <4> HIDE DEF OneFile, Save
      <4> QED
        BY <1>4, <2>1, <2>3 DEF process_chunk
    <3> HIDE DEF g, OneFile, Save
    <3> QED
      BY <3>1
  <2> HIDE DEF g
  <2>7. Len(t.got) \in Nat /\ t.got # <<>> /\ Len(t.got) \in 1..Len(t.got)
    BY <2>4, EmptySeq DEF Transfer, TransferInv
  <2> HIDE DEF t
  <2>8. \A y \in 1..Slots : y # x /\ slot[y] # None => slot[y].from # s
    BY <2>1 DEF IInv, SlotInv
  <2>9. OneFile(g) => Len(t.got) < FileParts
    <3>1. ASSUME OneFile(g), NEW k \in 1..Len(t.got)
          PROVE  items[t.got[k]].file = items[t.got[1]].file
      <4>1. k \in 1..Len(g) /\ 1 \in 1..Len(t.got)
        BY <2>5, <2>7
      <4> QED
        BY <2>5, <3>1, <4>1 DEF OneFile
    <3> QED
      BY <2>4, <3>1 DEF TransferInv
  <2>10. g # <<>> /\ g[Len(g)] = m /\ Len(g) \in Nat
    BY <2>5, <2>7, EmptySeq
  <2>11. CASE /\ OneFile(g) => Len(g) >= FileParts
              /\ slot' = [slot EXCEPT ![x] = None] /\ Save(s, g)
    <3>1. /\ slot' \in [1..Slots -> Transfer \cup {None}] /\ slot'[x] = None
          /\ \A y \in 1..Slots : y # x => slot'[y] = slot[y]
      BY <1>1, <2>11
    <3>2. saved'.from = s /\ saved'.got = g /\ saved' \in Transfer
      BY <1>2, <2>5, <2>11 DEF Save, Transfer
    <3>3. SlotInv'
      BY <2>5, <2>8, <2>10, <3>1, <3>2, SlotNext
    <3>4. Len(g) = FileParts \/ \E k \in 1..Len(g) : Headless(items, g[k])
      <4>1. CASE OneFile(g)
        BY <1>1, <2>5, <2>7, <2>9, <2>11, <4>1
      <4>2. CASE ~OneFile(g)
        <5>1. PICK k \in 1..Len(g) : items[g[k]].file # items[g[1]].file
          BY <4>2 DEF OneFile
        <5> QED
          BY <2>5, <5>1 DEF Written
      <4> QED
        BY <4>1, <4>2
    <3> QED
      BY <2>5, <3>1, <3>2, <3>3, <3>4 DEF FilesWhole
  <2>12. CASE /\ OneFile(g) => ~(Len(g) >= FileParts)
              /\ slot' = [slot EXCEPT ![x].got = g] /\ UNCHANGED saved
    <3> DEFINE u == [t EXCEPT !.got = g]
    <3>1. u \in Transfer /\ u.from = s /\ u.got = g
      BY <2>4, <2>5 DEF Transfer
    <3>2. /\ slot' \in [1..Slots -> Transfer \cup {None}] /\ slot'[x] = u
          /\ \A y \in 1..Slots : y # x => slot'[y] = slot[y]
      <4>1. slot' = [slot EXCEPT ![x] = u]
        BY <1>1, <2>12 DEF t
      <4> HIDE DEF u
      <4> QED
        BY <1>1, <3>1, <4>1
    <3> HIDE DEF u
    <3>3. TransferInv(u, items, m)
      <4>1. \A k \in m + 1..m : FALSE
        <5>1. m \in Int
          BY <1>1
        <5> QED
          BY <5>1, NoneAbove
      <4>2. (\A k \in 1..Len(g) : items[g[k]].file = items[g[1]].file) => Len(g) < FileParts
        BY <1>1, <2>10, <2>12 DEF OneFile
      <4>3. \A k \in 1..Len(g) : g[k] \in 1..m
        BY <2>5
      <4>4. /\ g # <<>> /\ \A k \in 1..Len(g) : g[k] \in 1..m
            /\ \A k \in g[Len(g)] + 1..m : items[k].from # s
            /\ Written(items, s, g)
            /\ (\A k \in 1..Len(g) : items[g[k]].file = items[g[1]].file) => Len(g) < FileParts
        BY <2>5, <2>10, <4>1, <4>2, <4>3
      <4> QED
        BY <3>1, <4>4 DEF TransferInv
    <3>4. SlotInv'
      BY <2>8, <2>12, <3>1, <3>2, <3>3, SlotNext
    <3> QED
      BY <1>1, <2>12, <3>2, <3>4 DEF IInv, FilesWhole
  <2> QED
    BY <2>6, <2>11, <2>12
<1> QED
  BY <1>3, <1>4

LEMMA ParseStep ==
    ASSUME IInv, NEW opens \in BOOLEAN, NEW enough \in BOOLEAN, clrecv_parse(opens, enough)
    PROVE  IInv'
<1> DEFINE it == items[parsed + 1]
<1>1. /\ pc = "parse" /\ Complete /\ buf' = SubSeq(buf, Size(it) + 1, Len(buf)) /\ parsed' = parsed + 1
      /\ UNCHANGED <<state, sock, pc, batch, in, hup, mid, items, sending, file, full>>
  BY DEF clrecv_parse, serverVars
<1>2. /\ parsed + 1 \in 1..Len(items) /\ it \in ItemType
      /\ buf' \in Seq(Unit) /\ WholeItems(buf' \o in, items, parsed + 1)
  BY <1>1, ParseFinds
<1>3. /\ slot' \in [1..Slots -> Transfer \cup {None}] /\ saved' \in Transfer \cup {None}
      /\ SlotInv' /\ FilesWhole'
  <2>1. CASE it.type = "file"
    <3>1. process_file(it, opens)
      BY <2>1 DEF clrecv_parse
    <3> QED
      BY <1>1, <1>2, <2>1, <3>1, FileStep
  <2>2. CASE it.type = "chunk"
    <3>1. process_chunk(it, enough)
      BY <2>2 DEF clrecv_parse
    <3> QED
      BY <1>1, <1>2, <2>2, <3>1, ChunkStep
  <2>3. CASE it.type \in {"list", "info"}
    <3>1. UNCHANGED <<slot, saved>>
      BY <2>3 DEF clrecv_parse
    <3>2. it.from = None
      BY <1>2, <2>3 DEF IInv, ItemsInv
    <3>3. slot \in [1..Slots -> Transfer \cup {None}] /\ saved \in Transfer \cup {None}
      BY DEF IInv, TypeOK
    <3>4. \A x \in 1..Slots : slot[x] # None => slot[x].from # None
      BY <3>3, ClientAssumption DEF Transfer
    <3>5. slot' \in [1..Slots -> Transfer \cup {None}]
      BY <3>1, <3>3
    <3>6. SlotInv'
      BY <1>1, <1>2, <3>1, <3>2, <3>4, <3>5, SlotNext
    <3>7. FilesWhole'
      BY <1>1, <3>1 DEF IInv, FilesWhole
    <3> QED
      BY <3>1, <3>3, <3>5, <3>6, <3>7
  <2> QED
    BY <1>2, <2>1, <2>2, <2>3 DEF ItemType
<1>4. parsed' \in Nat
  BY <1>1 DEF IInv, TypeOK
<1>5. TypeOK'
  BY <1>1, <1>2, <1>3, <1>4 DEF IInv, TypeOK, Unit
<1>6. StreamInv' /\ ItemsInv'
  BY <1>1, <1>2 DEF IInv, StreamInv, ItemsInv
<1>7. state # "DISCONNECTED"
  BY <1>1 DEF IInv, ConnInv
<1>8. ConnInv'
  BY <1>1, <1>7 DEF IInv, ConnInv
<1> QED
  BY <1>3, <1>5, <1>6, <1>8 DEF IInv

-----------------------------------------------------------------------------
(* The theorems.                                                            *)

LEMMA InitHolds == Init => IInv
<1> SUFFICES ASSUME Init
             PROVE  IInv
  OBVIOUS
<1>1. /\ state = "DISCONNECTED" /\ sock = FALSE /\ pc = "loop" /\ batch = {}
      /\ in = <<>> /\ hup = FALSE /\ mid = FALSE /\ items = <<>>
      /\ sending = [s \in Sender |-> 0] /\ file = [s \in Sender |-> 0]
      /\ buf = <<>> /\ slot = [i \in 1..Slots |-> None]
      /\ parsed = 0 /\ saved = None /\ full = FALSE
  BY DEF Init
<1>2. TypeOK
  <2>1. \A S : <<>> \in Seq(S)
    BY EmptySeq
  <2>2. FileParts \in Nat
    BY ClientAssumption
  <2>3. /\ sending \in [Sender -> 0..FileParts] /\ file \in [Sender -> Nat]
        /\ slot \in [1..Slots -> Transfer \cup {None}]
    BY <1>1, <2>2
  <2>4. parsed \in Nat
    BY <1>1
  <2>5. in \in Seq(Nat \X Nat) /\ buf \in Seq(Nat \X Nat) /\ items \in Seq(ItemType)
    BY <1>1, <2>1
  <2> QED
    BY <1>1, <2>3, <2>4, <2>5 DEF TypeOK
<1>3. StreamInv
  <2>1. <<>> \o <<>> = <<>>
    BY EmptySeq, ConcatEmptySeq
  <2> QED
    BY <1>1, <2>1, NothingWhole DEF StreamInv
<1>4. ConnInv
  BY <1>1 DEF ConnInv
<1>5. ItemsInv
  BY <1>1 DEF ItemsInv
<1>6. SlotInv /\ FilesWhole
  BY <1>1 DEF SlotInv, FilesWhole
<1> QED
  BY <1>2, <1>3, <1>4, <1>5, <1>6 DEF IInv

LEMMA CommandStep ==
    ASSUME IInv, Command
    PROVE  IInv'
<1>1. batch \in SUBSET {"stdin", "sock"}
  BY DEF IInv, TypeOK
<1>2. CASE cmd_register
  BY <1>1, <1>2, LoopStep DEF cmd_register
<1>3. CASE cmd_disconnect \/ cmd_quit
  <2>1. Disconnected /\ pc' \in {"loop", "exited"} /\ batch' \in SUBSET {"stdin", "sock"}
    BY <1>1, <1>3 DEF cmd_disconnect, cmd_quit
  <2> QED
    BY <2>1, DisconnectedStep
<1> QED
  BY <1>2, <1>3, ConnectStep DEF Command

LEMMA NextHolds == IInv /\ [Next]_vars => IInv'
<1> SUFFICES ASSUME IInv, [Next]_vars
             PROVE  IInv'
  OBVIOUS
<1>1. batch \in SUBSET {"stdin", "sock"}
  BY DEF IInv, TypeOK
<1>2. CASE epoll_wait \/ clio_on_stdin \/ parse_done
  <2>1. /\ UNCHANGED <<state, sock, serverVars, recvVars>>
        /\ UNCHANGED pc \/ (pc = "parse" /\ pc' = "loop")
        /\ batch' \in SUBSET {"stdin", "sock"}
    BY <1>1, <1>2 DEF epoll_wait, clio_on_stdin, parse_done
  <2> QED
    BY <2>1, LoopStep
<1>3. CASE UNCHANGED vars
  BY <1>1, <1>3, LoopStep DEF vars
<1> QED
  BY <1>2, <1>3, FillStep, SocketStep, ParseStep, AuthStep, CommandStep, ServerStep
     DEF Next, Loop, handle_socket_data

\* Whatever is sent, typed and closed, in whatever order, the buffers hold whole
\* items and every transfer the parts of the file it was opened for, or after
\* parts of that chunks of a file of the same sender without a beginning.
THEOREM Invariance == Spec => []IInv
BY InitHolds, NextHolds, PTL DEF Spec

\* process_received_pdu and clrecv_parse: a file that is reported as received is
\* one file of one sender, every part of it once and in order, however many
\* senders interleave, leave in the middle and come back; unless chunks of that
\* sender have come whose first PDU the server has flushed (worker.c:709) or
\* sent to an earlier session, which find_transfer takes for the old file's.
THEOREM ReceivedFilesWhole == Spec => []FilesWhole
<1>1. IInv => FilesWhole
  BY DEF IInv
<1> QED
  BY <1>1, Invariance, PTL

\* Once a command is over, ctx->state says whether there is a connection, and
\* cmd_disconnect, clrecv_fill and the end of main leave nothing of an old one.
THEOREM StateTellsConnection == Spec => []StateOfConnection
<1>1. IInv => StateOfConnection
  <2> SUFFICES ASSUME IInv, pc # "auth"
               PROVE  /\ (state = "CONNECTED") = sock
                      /\ state = "DISCONNECTED" => buf = <<>> /\ \A i \in 1..Slots : slot[i] = None
    BY DEF StateOfConnection
  <2> QED
    BY DEF IInv, ConnInv
<1> QED
  BY <1>1, Invariance, PTL

-----------------------------------------------------------------------------
(* The sending half and the server's parser: the least of a set, the stream. *)

LEMMA MinIs ==
    ASSUME NEW a \in Int, NEW b \in Int
    PROVE  Min({a, b}) = IF a <= b THEN a ELSE b
<1>1. PICK m : m = Min({a, b})
  OBVIOUS
<1>2. m \in {a, b} /\ m <= a /\ m <= b
  BY <1>1, MinOfTwo, Zenon
<1>3. m = IF a <= b THEN a ELSE b
  BY <1>2
<1> QED
  BY <1>1, <1>3

-----------------------------------------------------------------------------
(* The stream a client sends: sizes, units and the ends of records. *)

LEMMA LinkSizes == Hdr = 2 /\ Buf \in Nat /\ Buf > 2 /\ Chunk \in Nat /\ Chunk > 0 /\ Chunk < Buf
                   /\ Payload = Buf - 2 /\ Payload \in Nat /\ Payload > 0
BY LinkAssumption DEF Payload

LEMMA LinkDivMod ==
    ASSUME NEW s \in Nat \ {0}, NEW x \in Int
    PROVE  /\ x % s \in 0..s - 1 /\ x \div s \in Int
           /\ x = s * (x \div s) + (x % s)
OBVIOUS

LEMMA Multiple ==
    ASSUME NEW q \in Nat \ {0}, NEW n \in Int
    PROVE  (q * n) % q = 0
<1>1. PICK x \in Int : x = q * n
  OBVIOUS
<1>2. PICK m \in Int, r \in 0..q - 1 : m = x \div q /\ r = x % q /\ x = q * m + r
  BY LinkDivMod
<1>3. q * (n - m) = r
  BY <1>1, <1>2
<1>4. CASE n - m >= 1
  <2>1. q * (n - m) >= q
    BY <1>4
  <2> QED
    BY <1>3, <2>1
<1>5. CASE n - m <= -1
  <2>1. q * (n - m) <= -q
    BY <1>5
  <2> QED
    BY <1>3, <2>1
<1>6. CASE n = m
  BY <1>1, <1>2, <1>3, <1>6
<1> QED
  BY <1>4, <1>5, <1>6

LEMMA NextMultiple ==
    ASSUME NEW q \in Nat \ {0}, NEW a \in Nat, a % q = 0
    PROVE  (a + q) % q = 0
<1>1. PICK m \in Int : a = q * m
  <2>1. PICK m \in Int, r \in 0..q - 1 : m = a \div q /\ r = a % q /\ a = q * m + r
    BY LinkDivMod
  <2> QED
    BY <2>1
<1>2. a + q = q * (m + 1) /\ m + 1 \in Int
  BY <1>1
<1> QED
  BY <1>2, Multiple

\* The distance to the next multiple.
LEMMA Ahead ==
    ASSUME NEW q \in Nat \ {0}, NEW a \in Nat, a % q # 0
    PROVE  \E k \in 1..q - 1 : (a + k) % q = 0
<1>1. PICK m \in Int, r \in 0..q - 1 : m = a \div q /\ r = a % q /\ a = q * m + r
  BY LinkDivMod
<1>2. a + (q - r) = q * (m + 1) /\ m + 1 \in Int /\ q - r \in 1..q - 1
  BY <1>1
<1>3. (a + (q - r)) % q = 0
  BY <1>2, Multiple
<1> QED
  BY <1>2, <1>3

LEMMA FrontUnits ==
    ASSUME NEW q \in Seq(Unit), NEW k \in 0..Len(q)
    PROVE  /\ SubSeq(q, 1, k) \in Seq(Unit) /\ Len(SubSeq(q, 1, k)) = k
           /\ \A i \in 1..k : SubSeq(q, 1, k)[i] = q[i]
<1> DEFINE r == SubSeq(q, 1, k)
<1>1. 1 \in Int /\ k \in Int /\ \A i \in 1..k : q[i] \in Unit
  OBVIOUS
<1>2. /\ r \in Seq(Unit) /\ Len(r) = (IF 1 <= k THEN k - 1 + 1 ELSE 0)
      /\ \A i \in 1..k - 1 + 1 : r[i] = q[1 + i - 1]
  BY <1>1, SubSeqProperties
<1>3. (IF 1 <= k THEN k - 1 + 1 ELSE 0) = k /\ k - 1 + 1 = k /\ \A i \in 1..k : 1 + i - 1 = i
  OBVIOUS
<1> QED
  BY <1>2, <1>3

LEMMA BackUnits ==
    ASSUME NEW q \in Seq(Unit), NEW k \in 0..Len(q)
    PROVE  /\ SubSeq(q, k + 1, Len(q)) \in Seq(Unit) /\ Len(SubSeq(q, k + 1, Len(q))) = Len(q) - k
           /\ \A i \in 1..Len(q) - k : SubSeq(q, k + 1, Len(q))[i] = q[k + i]
<1> DEFINE r == SubSeq(q, k + 1, Len(q))
<1>1. k + 1 \in Int /\ Len(q) \in Int /\ \A i \in k + 1..Len(q) : q[i] \in Unit
  OBVIOUS
<1>2. /\ r \in Seq(Unit) /\ Len(r) = (IF k + 1 <= Len(q) THEN Len(q) - (k + 1) + 1 ELSE 0)
      /\ \A i \in 1..Len(q) - (k + 1) + 1 : r[i] = q[k + 1 + i - 1]
  BY <1>1, SubSeqProperties
<1>3. /\ (IF k + 1 <= Len(q) THEN Len(q) - (k + 1) + 1 ELSE 0) = Len(q) - k
      /\ Len(q) - (k + 1) + 1 = Len(q) - k /\ \A i \in 1..Len(q) - k : k + 1 + i - 1 = k + i
  OBVIOUS
<1> QED
  BY <1>2, <1>3

LEMMA Joined ==
    ASSUME NEW q \in Seq(Unit), NEW r \in Seq(Unit)
    PROVE  /\ q \o r \in Seq(Unit) /\ Len(q \o r) = Len(q) + Len(r)
           /\ \A i \in 1..Len(q) : (q \o r)[i] = q[i]
           /\ \A i \in 1..Len(r) : (q \o r)[Len(q) + i] = r[i]
<1> DEFINE t == q \o r
<1>1. /\ t \in Seq(Unit) /\ Len(t) = Len(q) + Len(r)
      /\ \A i \in 1..Len(q) + Len(r) : t[i] = IF i <= Len(q) THEN q[i] ELSE r[i - Len(q)]
  BY ConcatProperties
<1> HIDE DEF t
<1>2. Len(q) \in Nat /\ Len(r) \in Nat
  OBVIOUS
<1>3. ASSUME NEW i \in 1..Len(q)
      PROVE  t[i] = q[i]
  <2>1. i \in 1..Len(q) + Len(r) /\ i <= Len(q)
    BY <1>2
  <2> QED
    BY <1>1, <2>1
<1>4. ASSUME NEW i \in 1..Len(r)
      PROVE  t[Len(q) + i] = r[i]
  <2>1. PICK j \in 1..Len(q) + Len(r) : j = Len(q) + i
    BY <1>2
  <2>2. ~(j <= Len(q)) /\ j - Len(q) = i
    BY <1>2, <2>1
  <2> QED
    BY <1>1, <2>1, <2>2
<1> QED
  BY <1>1, <1>3, <1>4 DEF t

LEMMA UnitsFacts ==
    ASSUME NEW id \in Nat, NEW a \in Nat, NEW b \in Nat, a <= b
    PROVE  /\ Units(id, a, b) \in Seq(Unit) /\ Len(Units(id, a, b)) = b - a
           /\ \A i \in 1..b - a : Units(id, a, b)[i] = <<id, a + i>>
<1>1. b - a \in Nat /\ \A i \in 1..b - a : <<id, a + i>> \in Unit
  BY DEF Unit
<1> QED
  BY <1>1 DEF Units

\* What looks like units is the units.
LEMMA SameUnits ==
    ASSUME NEW q \in Seq(Unit), NEW id \in Nat, NEW a \in Nat, NEW b \in Nat, a <= b,
           Len(q) = b - a, \A i \in 1..b - a : q[i] = <<id, a + i>>
    PROVE  q = Units(id, a, b)
<1>1. PICK r \in Seq(Unit) : r = Units(id, a, b)
  BY UnitsFacts
<1>2. Len(r) = b - a /\ \A i \in 1..b - a : r[i] = <<id, a + i>>
  BY <1>1, UnitsFacts
<1>3. \A i \in 1..Len(q) : q[i] = r[i]
  BY <1>2
<1> QED
  BY <1>1, <1>2, <1>3, SeqEqual

LEMMA UnitsJoin ==
    ASSUME NEW id \in Nat, NEW a \in Nat, NEW b \in Nat, NEW c \in Nat, a <= b, b <= c
    PROVE  Units(id, a, b) \o Units(id, b, c) = Units(id, a, c)
<1>1. PICK q \in Seq(Unit) : /\ q = Units(id, a, b) /\ Len(q) = b - a
                             /\ \A i \in 1..b - a : q[i] = <<id, a + i>>
  <2>1. /\ Units(id, a, b) \in Seq(Unit) /\ Len(Units(id, a, b)) = b - a
        /\ \A i \in 1..b - a : Units(id, a, b)[i] = <<id, a + i>>
    BY UnitsFacts
  <2> QED
    BY <2>1
<1>2. PICK r \in Seq(Unit) : /\ r = Units(id, b, c) /\ Len(r) = c - b
                             /\ \A i \in 1..c - b : r[i] = <<id, b + i>>
  <2>1. /\ Units(id, b, c) \in Seq(Unit) /\ Len(Units(id, b, c)) = c - b
        /\ \A i \in 1..c - b : Units(id, b, c)[i] = <<id, b + i>>
    BY UnitsFacts
  <2> QED
    BY <2>1
<1>3. PICK t \in Seq(Unit) : /\ t = q \o r /\ Len(t) = Len(q) + Len(r)
                             /\ \A i \in 1..Len(q) : t[i] = q[i]
                             /\ \A i \in 1..Len(r) : t[Len(q) + i] = r[i]
  BY Joined
<1>4. Len(t) = c - a /\ a <= c
  BY <1>1, <1>2, <1>3
<1>5. ASSUME NEW i \in 1..c - a
      PROVE  t[i] = <<id, a + i>>
  <2>1. CASE i <= b - a
    <3>1. i \in 1..b - a /\ i \in 1..Len(q)
      BY <1>1, <2>1
    <3>2. t[i] = q[i]
      BY <1>3, <3>1
    <3>3. q[i] = <<id, a + i>>
      BY <1>1, <3>1
    <3> QED
      BY <3>2, <3>3
  <2>2. CASE i > b - a
    <3>1. PICK j \in 1..c - b : i = Len(q) + j /\ b + j = a + i
      <4>1. i - (b - a) \in 1..c - b /\ i = (b - a) + (i - (b - a)) /\ b + (i - (b - a)) = a + i
        BY <2>2
      <4>2. PICK j \in 1..c - b : i = (b - a) + j /\ b + j = a + i
        BY <4>1
      <4> QED
        BY <1>1, <4>2
    <3> QED
      BY <1>1, <1>2, <1>3, <3>1
  <2> QED
    BY <2>1, <2>2
<1>6. t = Units(id, a, c)
  BY <1>4, <1>5, SameUnits
<1> QED
  BY <1>1, <1>2, <1>3, <1>6

LEMMA UnitsCut ==
    ASSUME NEW id \in Nat, NEW a \in Nat, NEW b \in Nat, a <= b, NEW k \in 0..b - a
    PROVE  /\ SubSeq(Units(id, a, b), 1, k) = Units(id, a, a + k)
           /\ SubSeq(Units(id, a, b), k + 1, b - a) = Units(id, a + k, b)
<1>1. PICK q \in Seq(Unit) : q = Units(id, a, b)
  BY UnitsFacts
<1>2. Len(q) = b - a /\ \A i \in 1..b - a : q[i] = <<id, a + i>>
  BY <1>1, UnitsFacts
<1>3. PICK l \in Nat, c \in Nat : l = b - a /\ c = a + k
  OBVIOUS
<1> k \in 0..Len(q)
  BY <1>2
<1>4. PICK r \in Seq(Unit) : r = SubSeq(q, 1, k) /\ Len(r) = k /\ \A i \in 1..k : r[i] = q[i]
  <2>1. /\ SubSeq(q, 1, k) \in Seq(Unit) /\ Len(SubSeq(q, 1, k)) = k
        /\ \A i \in 1..k : SubSeq(q, 1, k)[i] = q[i]
    BY FrontUnits
  <2> QED
    BY <2>1
<1>5. PICK t \in Seq(Unit) : t = SubSeq(q, k + 1, Len(q)) /\ Len(t) = Len(q) - k /\ \A i \in 1..Len(q) - k : t[i] = q[k + i]
  <2>1. /\ SubSeq(q, k + 1, Len(q)) \in Seq(Unit) /\ Len(SubSeq(q, k + 1, Len(q))) = Len(q) - k
        /\ \A i \in 1..Len(q) - k : SubSeq(q, k + 1, Len(q))[i] = q[k + i]
    BY BackUnits
  <2> QED
    BY <2>1
<1>6. r = Units(id, a, c)
  <2>1. Len(r) = c - a /\ a <= c /\ \A i \in 1..c - a : r[i] = <<id, a + i>>
    BY <1>2, <1>3, <1>4
  <2> QED
    BY <2>1, SameUnits
<1>7. t = Units(id, c, b)
  <2>1. Len(t) = b - c /\ c <= b /\ \A i \in 1..b - c : t[i] = <<id, c + i>>
    BY <1>2, <1>3, <1>5
  <2> QED
    BY <2>1, SameUnits
<1> QED
  BY <1>1, <1>2, <1>3, <1>4, <1>5, <1>6, <1>7

-----------------------------------------------------------------------------
(* Records: every piece the client sends ends one. *)

LEMMA NewestFacts ==
    ASSUME LinkType, cmds # <<>>
    PROVE  /\ Newest \in Nat \ {0} /\ Newest \in 1..Len(cmds) /\ cmds[Newest] \in Commands
           /\ cmds[Newest].size \in Nat /\ Whole \in Nat /\ First \in Nat
           /\ First \in {Whole, Buf} /\ Hdr <= First /\ First <= Whole /\ First <= Buf
<1>1. cmds \in Seq(Commands) /\ Len(cmds) \in Nat \ {0}
  BY DEF LinkType
<1>2. Newest \in 1..Len(cmds) /\ cmds[Newest] \in Commands
  BY <1>1 DEF Newest
<1>3. PICK z \in Nat : z = cmds[Newest].size
  BY <1>2 DEF Commands
<1>4. Min({z, Payload}) = IF z <= Payload THEN z ELSE Payload
  BY LinkSizes, MinIs
<1>5. First = Hdr + (IF z <= Payload THEN z ELSE Payload) /\ Whole = Hdr + z
  BY <1>3, <1>4 DEF First, Whole
<1> QED
  BY <1>1, <1>2, <1>3, <1>5, LinkSizes DEF Newest

\* Only the number and the position of a unit count.
LEMMA RecordEndIs ==
    ASSUME NEW id, NEW p
    PROVE  /\ RecordEnd(<<id, p>>) <=> p = Hdr + cmds[id].size \/ p % Buf = 0
           /\ CmdEnd(<<id, p>>) <=> p = Hdr + cmds[id].size
BY DEF RecordEnd, CmdEnd

LEMMA WholeEnds ==
    ASSUME LinkType, cmds # <<>>, NEW p \in Nat, p = Whole \/ p % Buf = 0
    PROVE  RecordEnd(<<Newest, p>>)
BY RecordEndIs DEF Whole

LEMMA FirstEnds ==
    ASSUME LinkType, cmds # <<>>
    PROVE  RecordEnd(<<Newest, First>>) /\ (First = Whole \/ First % Buf = 0)
<1>1. Buf % Buf = 0
  <2>1. Buf * 1 = Buf
    BY LinkSizes
  <2> QED
    BY <2>1, LinkSizes, Multiple
<1> QED
  BY <1>1, NewestFacts, WholeEnds

LEMMA DoneEnds ==
    ASSUME LinkType, SendInv, cmds # <<>>
    PROVE  RecordEnd(<<Newest, done>>)
BY WholeEnds DEF SendInv, LinkType

\* What OpenSSL holds alone is less than a record.
LEMMA HeldShort ==
    ASSUME LinkType, cmds # <<>>, NEW p \in Nat \ {0}, NEW l \in Nat, ~RecordEnd(<<Newest, p>>),
           \A i \in 1..l - 1 : ~RecordEnd(<<Newest, p + i>>)
    PROVE  l < Buf
<1> SUFFICES ASSUME l >= Buf
             PROVE  FALSE
  BY LinkSizes
<1>1. p % Buf # 0
  BY RecordEndIs
<1>2. PICK k \in 1..Buf - 1 : (p + k) % Buf = 0
  <2>1. Buf \in Nat \ {0} /\ p \in Nat
    BY LinkSizes
  <2> QED
    BY <1>1, <2>1, Ahead
<1>3. k \in 1..l - 1
  BY LinkSizes
<1> QED
  BY <1>2, <1>3, RecordEndIs

-----------------------------------------------------------------------------
(* Reading. *)

LEMMA RecvSize ==
    ASSUME LinkType, NEW n \in Nat
    PROVE  \E k \in 0..Len(up) :
             /\ k <= n /\ (k = n \/ k = Len(up))
             /\ Recv(n) = SubSeq(up, 1, k) /\ Recv(n) \in Seq(Unit) /\ Len(Recv(n)) = k
             /\ \A i \in 1..k : Recv(n)[i] = up[i]
<1>1. up \in Seq(Unit) /\ Len(up) \in Nat
  BY DEF LinkType
<1>2. PICK k \in Int : k = Min({n, Len(up)}) /\ k \in {n, Len(up)} /\ k <= n /\ k <= Len(up)
  <2>1. Min({n, Len(up)}) = IF n <= Len(up) THEN n ELSE Len(up)
    BY <1>1, MinIs
  <2>2. PICK k \in Int : k = IF n <= Len(up) THEN n ELSE Len(up)
    BY <1>1
  <2>3. k = Min({n, Len(up)})
    BY <2>1, <2>2, Zenon
  <2>4. k \in {n, Len(up)} /\ k <= n /\ k <= Len(up)
    BY <1>1, <2>2
  <2> QED
    BY <2>3, <2>4, Zenon
<1>3. k \in 0..Len(up)
  BY <1>1, <1>2
<1>4. Recv(n) = SubSeq(up, 1, k)
  BY <1>2 DEF Recv
<1>5. SubSeq(up, 1, k) \in Seq(Unit) /\ Len(SubSeq(up, 1, k)) = k /\ \A i \in 1..k : SubSeq(up, 1, k)[i] = up[i]
  BY <1>1, <1>3, FrontUnits
<1> QED
  BY <1>2, <1>3, <1>4, <1>5

LEMMA GotFacts ==
    ASSUME LinkType, SendInv, Reached
    PROVE  /\ Got \in Nat /\ Got <= done /\ Got + Len(up) = done /\ up = Units(Newest, Got, done)
           /\ cmds # <<>> => Got >= 1
<1>1. Len(up) \in Nat /\ done \in Nat /\ Newest \in Nat
  BY DEF LinkType, Newest
<1>2. CASE cmds = <<>>
  <2>1. done = 0 /\ up = <<>>
    BY <1>2 DEF SendInv, Reached
  <2>2. Len(up) = 0 /\ Got = 0
    <3>1. Len(up) = 0 /\ done = 0
      BY <2>1
    <3> QED
      BY <3>1 DEF Got
  <2>3. Units(Newest, 0, 0) = <<>>
    BY DEF Units
  <2> QED
    BY <1>2, <2>1, <2>2, <2>3
<1>3. CASE cmds # <<>>
  <2>1. Got >= 1 /\ up = Units(Newest, Got, done)
    BY <1>3 DEF Reached
  <2>2. Got \in Int /\ Got = done - Len(up)
    BY <1>1 DEF Got
  <2>3. Got \in Nat /\ Got <= done /\ Got + Len(up) = done
    BY <1>1, <2>1, <2>2
  <2> QED
    BY <2>1, <2>2, <2>3
<1> QED
  BY <1>2, <1>3

\* All that has been sent of the last command has been read.
LEMMA NothingHeld ==
    ASSUME LinkType, SendInv, Reached, Len(up) = 0
    PROVE  ~held
<1>1. CASE cmds = <<>>
  BY <1>1 DEF Reached
<1>2. CASE cmds # <<>>
  <2>1. Got = done
    <3>1. done \in Nat
      BY DEF LinkType
    <3> QED
      BY <3>1 DEF Got
  <2>2. RecordEnd(<<Newest, done>>)
    BY <1>2, DoneEnds
  <2> QED
    BY <1>2, <2>1, <2>2 DEF Reached
<1> QED
  BY <1>1, <1>2

\* A read that gets something of the last command.
LEMMA ReadSome ==
    ASSUME LinkType, SendInv, cmds # <<>>, NEW g \in Nat, g < done, up = Units(Newest, g, done),
           NEW n \in Nat \ {0}, Read(n), done' = done, cmds' = cmds
    PROVE  \E k \in 1..Len(up) :
             /\ k <= n /\ (k = n \/ k = Len(up)) /\ Len(Recv(n)) = k
             /\ Recv(n) = Units(Newest, g, g + k)
             /\ up' \in Seq(Unit) /\ Len(up') = Len(up) - k
             /\ g + Len(up) = done /\ Got' = g + k
             /\ Reached' /\ held' \in BOOLEAN
             /\ k = Len(up) => ~held'
<1>1. up \in Seq(Unit) /\ Len(up) \in Nat /\ done \in Nat
  BY DEF LinkType
<1>2. Newest \in Nat /\ Newest' = Newest
  BY DEF Newest, LinkType
<1>3. g + Len(up) = done /\ Len(up) > 0
  <2>1. Len(Units(Newest, g, done)) = done - g
    BY <1>1, <1>2, UnitsFacts
  <2>2. Len(up) = done - g
    BY <2>1
  <2> QED
    BY <1>1, <2>2
<1>4. PICK k \in 0..Len(up) : /\ k <= n /\ (k = n \/ k = Len(up))
                              /\ Recv(n) = SubSeq(up, 1, k) /\ Recv(n) \in Seq(Unit) /\ Len(Recv(n)) = k
                              /\ \A i \in 1..k : Recv(n)[i] = up[i]
  BY RecvSize
<1>5. k \in 1..Len(up)
  BY <1>1, <1>3, <1>4
<1>6. up' = SubSeq(up, k + 1, Len(up))
  BY <1>4 DEF Read
<1>7. Recv(n) = Units(Newest, g, g + k) /\ up' = Units(Newest, g + k, done)
  <2>1. k \in 0..done - g /\ Len(up) = done - g
    BY <1>1, <1>3
  <2>2. /\ SubSeq(Units(Newest, g, done), 1, k) = Units(Newest, g, g + k)
        /\ SubSeq(Units(Newest, g, done), k + 1, done - g) = Units(Newest, g + k, done)
    <3>1. Newest \in Nat /\ g \in Nat /\ done \in Nat /\ g <= done /\ k \in 0..done - g
      BY <1>1, <1>2, <2>1
    <3> QED
      BY <3>1, UnitsCut, ZenonT(40)
  <2>3. /\ SubSeq(up, 1, k) = Units(Newest, g, g + k)
        /\ SubSeq(up, k + 1, Len(up)) = Units(Newest, g + k, done)
    BY <2>1, <2>2, Zenon
  <2> QED
    BY <1>4, <1>6, <2>3, Zenon
<1>8. up' \in Seq(Unit) /\ Len(up') = Len(up) - k
  BY <1>1, <1>6, BackUnits
<1>9. Got' = g + k
  BY <1>1, <1>3, <1>8 DEF Got
<1>10. Recv(n) # <<>> /\ Last(Recv(n)) = <<Newest, g + k>>
  <2>1. PICK q \in Seq(Unit) : q = Recv(n) /\ Len(q) = k /\ q = Units(Newest, g, g + k)
    BY <1>4, <1>7
  <2>2. PICK c \in Nat : c = g + k
    OBVIOUS
  <2>3. g <= c /\ k \in 1..c - g
    BY <1>5, <2>2
  <2>4. q = Units(Newest, g, c)
    BY <2>1, <2>2, Zenon
  <2>5. \A i \in 1..c - g : Units(Newest, g, c)[i] = <<Newest, g + i>>
    BY <1>2, <2>3, UnitsFacts
  <2>6. q[k] = <<Newest, g + k>>
    BY <2>3, <2>4, <2>5
  <2> QED
    BY <1>5, <2>1, <2>6 DEF Last
<1>11. held' = ~RecordEnd(<<Newest, g + k>>)
  BY <1>10 DEF Read
<1>12. RecordEnd(<<Newest, g + k>>)' = RecordEnd(<<Newest, g + k>>)
  BY <1>2 DEF RecordEnd, CmdEnd
<1>13. Reached'
  <2>1. up' = Units(Newest, g + k, done) /\ Got' >= 1
    BY <1>5, <1>7, <1>9
  <2> QED
    BY <1>2, <1>9, <1>11, <1>12, <2>1 DEF Reached, Units, RecordEnd, CmdEnd
<1>14. k = Len(up) => ~held'
  <2>1. SUFFICES ASSUME k = Len(up)
                 PROVE  ~held'
    OBVIOUS
  <2>2. g + k = done
    BY <1>3, <2>1
  <2>3. RecordEnd(<<Newest, done>>)
    BY DoneEnds
  <2> QED
    BY <1>11, <2>2, <2>3
<1>15. held' \in BOOLEAN
  BY <1>11
<1> QED
  BY <1>3, <1>4, <1>5, <1>7, <1>8, <1>9, <1>13, <1>14, <1>15

\* Where the server has reached the last command it reads on in it.
LEMMA ReadOn ==
    ASSUME LinkType, SendInv, Reached, NEW n \in Nat, Read(n), done' = done, cmds' = cmds
    PROVE  \E k \in 0..Len(up) :
             /\ k <= n /\ (k = n \/ k = Len(up)) /\ Len(Recv(n)) = k
             /\ Recv(n) = Units(Newest, Got, Got + k)
             /\ up' \in Seq(Unit) /\ Len(up') = Len(up) - k
             /\ Got \in Nat /\ Got + Len(up) = done /\ Got' = Got + k
             /\ Reached' /\ held' \in BOOLEAN
             /\ k = Len(up) => ~held'
<1>1. up \in Seq(Unit) /\ Len(up) \in Nat /\ done \in Nat /\ held \in BOOLEAN
  BY DEF LinkType
<1>2. PICK g \in Nat : g = Got /\ g <= done /\ g + Len(up) = done /\ up = Units(Newest, g, done)
  <2>1. Got \in Nat /\ Got <= done /\ Got + Len(up) = done /\ up = Units(Newest, Got, done)
    BY GotFacts
  <2> QED
    BY <2>1
<1>3. CASE n # 0 /\ Len(up) # 0
  <2>1. cmds # <<>>
    BY <1>3 DEF Reached
  <2>2. g < done /\ n \in Nat \ {0}
    BY <1>1, <1>2, <1>3
  <2>3. PICK k \in 1..Len(up) :
             /\ k <= n /\ (k = n \/ k = Len(up)) /\ Len(Recv(n)) = k
             /\ Recv(n) = Units(Newest, g, g + k)
             /\ up' \in Seq(Unit) /\ Len(up') = Len(up) - k
             /\ g + Len(up) = done /\ Got' = g + k
             /\ Reached' /\ held' \in BOOLEAN
             /\ k = Len(up) => ~held'
    BY <1>2, <2>1, <2>2, ReadSome
  <2>4. k \in 0..Len(up)
    OBVIOUS
  <2> QED
    BY <1>2, <2>3, <2>4
<1>4. CASE n = 0 \/ Len(up) = 0
  <2>1. PICK k \in 0..Len(up) : /\ k <= n /\ (k = n \/ k = Len(up))
                                /\ Recv(n) \in Seq(Unit) /\ Len(Recv(n)) = k
    BY RecvSize
  <2>2. k = 0
    BY <1>1, <1>4, <2>1
  <2>3. Recv(n) = <<>> /\ Len(Recv(n)) = 0
    BY <2>1, <2>2
  <2>4. up' = up /\ held' = held
    <3>1. up' = SubSeq(up, 1, Len(up))
      BY <2>3 DEF Read
    <3> QED
      BY <1>1, <2>3, <3>1 DEF Read
  <2>5. Reached' /\ Got' = Got
    BY <2>4 DEF Reached, RecordEnd, CmdEnd, Newest, Got, Units
  <2>6. Units(Newest, g, g + 0) = <<>>
    BY DEF Units
  <2>7. Recv(n) = Units(Newest, Got, Got + 0)
    BY <1>2, <2>3, <2>6
  <2>8. 0 = Len(up) => ~held'
    BY <2>4, NothingHeld
  <2>9. k = 0 /\ Got + 0 = Got /\ Len(up') = Len(up) - 0
    BY <1>1, <1>2, <2>2, <2>4
  <2> QED
    BY <1>1, <1>2, <2>1, <2>2, <2>3, <2>4, <2>5, <2>7, <2>8, <2>9
<1> QED
  BY <1>1, <1>3, <1>4

-----------------------------------------------------------------------------
(* The steps.  Calm is the invariant as long as nothing has disturbed.      *)

Calm == LinkType /\ SendInv /\ ParserInv /\ ForwardInv /\ RightRecipient /\ WholeMessages

\* What has been forwarded stays as it is, and so does what is expected.
LEMMA ForwardKept ==
    ASSUME Calm, Undisturbed, cmds' = cmds, log' = log, conn \subseteq conn',
           curr.chunks' = curr.chunks,
           curr.chunks => curr.to' = curr.to /\ Got' - Len(curr.buf)' = Got - Len(curr.buf)
    PROVE  ForwardInv' /\ RightRecipient' /\ WholeMessages'
<1>1. \A a : CmdEnd(a)' = CmdEnd(a)
  BY DEF CmdEnd
<1>2. ForwardInv'
  BY <1>1 DEF Calm, ForwardInv, Newest
<1>3. RightRecipient'
  BY DEF Calm, RightRecipient
<1>4. WholeMessages'
  BY <1>1 DEF Calm, WholeMessages
<1> QED
  BY <1>2, <1>3, <1>4

\* The client moves and the server does not: stages keep what they say of it.
LEMMA SameStage ==
    ASSUME cmds' = cmds, done' = done, up' = up, held' = held, curr' = curr, at' = at
    PROVE  /\ Reached' = Reached /\ Got' = Got /\ Newest' = Newest /\ Whole' = Whole /\ First' = First
           /\ Need' = Need /\ Reported' = Reported /\ Past' = Past
<1>1. /\ Newest' = Newest /\ Whole' = Whole /\ First' = First /\ Got' = Got
      /\ \A a : RecordEnd(a)' = RecordEnd(a)
  BY DEF Newest, Whole, First, Got, RecordEnd, CmdEnd
<1>2. Reached' = Reached /\ Need' = Need /\ Reported' = Reported
  BY <1>1 DEF Reached, Need, Wanted, Reported
<1>3. Past' = Past
  BY <1>2 DEF Past
<1> QED
  BY <1>1, <1>2, <1>3

LEMMA ProcessStep ==
    ASSUME Calm, Undisturbed, NEW k \in 1..Len(down), print_server_resp(k) \/ await_resp(k)
    PROVE  Calm'
<1>1. /\ UNCHANGED <<cmds, done, up, held, curr, at, conn, log>>
      /\ down' = SubSeq(down, k + 1, Len(down))
      /\ phase' = phase \/ phase = "await"
      /\ phase' \in {"prompt", "await", "chunks"}
  BY DEF Calm, LinkType, print_server_resp, await_resp, Process, clientVars, histVars
<1>2. down # <<>> /\ down \in Seq(Response)
  BY DEF Calm, LinkType
<1>3. LinkType'
  <2>1. SubSeq(down, k + 1, Len(down)) \in Seq(Response)
    <3>1. k + 1 \in Int /\ Len(down) \in Int /\ \A i \in k + 1..Len(down) : down[i] \in Response
      BY <1>2
    <3> QED
      BY <3>1, SubSeqProperties
  <2> QED
    BY <1>1, <2>1 DEF Calm, LinkType
<1>4. /\ Newest' = Newest /\ Whole' = Whole /\ First' = First /\ Got' = Got
      /\ Reached' = Reached /\ Past' = Past
  BY <1>1, SameStage
<1>5. SendInv'
  <2>1. phase' = "await" => phase = "await"
    BY <1>1
  <2>2. phase' # "prompt" => phase # "prompt"
    BY <1>1
  <2> QED
    BY <1>1, <1>4, <2>1, <2>2 DEF Calm, SendInv
<1>6. Accepted \/ Past
  BY <1>2 DEF Calm, ParserInv, Untouched, InHeader, Unanswered
<1>7. Accepted => Accepted'
  <2> SUFFICES ASSUME Accepted
               PROVE  Accepted'
    OBVIOUS
  <2>1. CASE done = Whole
    BY <1>1, <1>4, <2>1 DEF Accepted
  <2>2. CASE done # Whole
    <3>1. phase = "await" /\ down = <<"OK">>
      BY <1>2, <2>2 DEF Accepted
    <3>2. Len(down) = 1 /\ k = 1 /\ down[1] = "OK"
      BY <3>1
    <3>3. await_resp(1)
      BY <3>1, <3>2 DEF print_server_resp
    <3>4. Infos(1) = {1}
      BY <3>2 DEF Infos
    <3>5. Min(Infos(1)) = 1
      <4>1. Min({1, 1}) = 1
        BY MinIs
      <4>2. {1, 1} = {1}
        OBVIOUS
      <4> QED
        BY <3>4, <4>1, <4>2, Zenon
    <3>6. phase' = "chunks"
      BY <3>2, <3>3, <3>4, <3>5 DEF await_resp
    <3>7. down' = <<>>
      <4>1. down' = SubSeq(down, 2, 1)
        BY <1>1, <3>2
      <4> QED
        BY <4>1, SubSeqEmpty
    <3> QED
      BY <1>1, <1>4, <3>6, <3>7 DEF Accepted
  <2> QED
    BY <2>1, <2>2
<1>8. ParserInv'
  BY <1>1, <1>4, <1>6, <1>7 DEF Calm, ParserInv
<1>9. ForwardInv' /\ RightRecipient' /\ WholeMessages'
  BY <1>1, <1>4, ForwardKept
<1> QED
  BY <1>3, <1>5, <1>8, <1>9 DEF Calm

LEMMA WakeStep ==
    ASSUME Calm, Undisturbed, wt_handle_clientevent
    PROVE  Calm'
<1>1. /\ UNCHANGED <<cmds, phase, done, up, held, down, curr, conn, log, faults>>
      /\ at = "wait" /\ at' = "in"
  BY DEF wt_handle_clientevent, clientVars, netVars, histVars
<1>2. LinkType' /\ SendInv'
  BY <1>1 DEF Calm, LinkType, SendInv, Newest, Whole, First
<1>3. /\ Newest' = Newest /\ Whole' = Whole /\ First' = First /\ Got' = Got
      /\ Reached' = Reached /\ Need' = Need
  BY <1>1 DEF Newest, Whole, First, Got, Reached, RecordEnd, CmdEnd, Need, Wanted
<1>4. Untouched => Untouched'
  BY <1>1, <1>3 DEF Untouched, Unanswered
<1>5. ~InHeader
  BY <1>1 DEF InHeader
<1>6. Accepted => Accepted'
  BY <1>1, <1>3 DEF Accepted
<1>7. Past => Past'
  BY <1>1, <1>3 DEF Past
<1>8. ParserInv'
  BY <1>1, <1>4, <1>5, <1>6, <1>7 DEF Calm, ParserInv
<1>9. ForwardInv' /\ RightRecipient' /\ WholeMessages'
  BY <1>1, <1>3, ForwardKept
<1> QED
  BY <1>2, <1>8, <1>9 DEF Calm

LEMMA SameStages ==
    ASSUME UNCHANGED <<cmds, phase, done, up, held, down, curr, at>>
    PROVE  /\ SendInv' = SendInv /\ ParserInv' = ParserInv /\ Got' = Got /\ Newest' = Newest
<1>1. /\ Newest' = Newest /\ Whole' = Whole /\ First' = First /\ Got' = Got
      /\ Reached' = Reached /\ Past' = Past /\ Need' = Need /\ Reported' = Reported
  BY SameStage
<1>2. SendInv' = SendInv /\ Unanswered' = Unanswered
  BY <1>1 DEF SendInv, Unanswered
<1>3. Untouched' = Untouched /\ InHeader' = InHeader /\ Accepted' = Accepted
  BY <1>1, <1>2 DEF Untouched, InHeader, Accepted, Units
<1> QED
  BY <1>1, <1>2, <1>3 DEF ParserInv

LEMMA LeaveStep ==
    ASSUME Calm, Undisturbed, NEW u \in User, Leave(u)
    PROVE  Calm'
<1>1. /\ UNCHANGED <<cmds, phase, done, up, held, down, curr, at>>
      /\ conn' = conn \ {u} /\ log' = [log EXCEPT ![u] = <<>>]
  BY DEF Leave, clientVars, netVars
<1>2. log \in [User -> Seq(Unit)] /\ conn \subseteq User
  BY DEF Calm, LinkType
<1>3. log'[u] = <<>> /\ Len(log'[u]) = 0 /\ \A v \in User : v # u => log'[v] = log[v]
  BY <1>1, <1>2
<1>4. LinkType'
  <2>1. log' \in [User -> Seq(Unit)] /\ conn' \subseteq User
    BY <1>1, <1>2
  <2> QED
    BY <1>1, <2>1 DEF Calm, LinkType
<1>5. SendInv' /\ ParserInv' /\ Got' = Got /\ Newest' = Newest
  BY <1>1, SameStages DEF Calm
<1>6. \A a : CmdEnd(a)' = CmdEnd(a)
  BY <1>1 DEF CmdEnd
<1>7. ForwardInv'
  <2> SUFFICES ASSUME NEW v \in User
               PROVE  (/\ v \notin conn => log[v] = <<>>
                       /\ \A i \in 1..Len(log[v]) : log[v][i][1] \in 1..Newest
                       /\ log[v] # <<>> =>
                           IF curr.chunks /\ curr.to = v THEN Last(log[v]) = <<Newest, Got - Len(curr.buf)>>
                           ELSE CmdEnd(Last(log[v])))'
    BY DEF ForwardInv
  <2>1. CASE v = u
    BY <1>3, <2>1
  <2>2. CASE v # u
    BY <1>1, <1>3, <1>5, <1>6, <2>2 DEF Calm, ForwardInv
  <2> QED
    BY <2>1, <2>2
<1>8. RightRecipient'
  BY <1>1, <1>3 DEF Calm, RightRecipient
<1>9. WholeMessages'
  BY <1>1, <1>3, <1>6 DEF Calm, WholeMessages
<1> QED
  BY <1>4, <1>5, <1>7, <1>8, <1>9 DEF Calm

LEMMA ReturnStep ==
    ASSUME Calm, Undisturbed, NEW u \in User \ conn, Return(u)
    PROVE  Calm'
<1>1. /\ UNCHANGED <<cmds, phase, done, up, held, down, curr, at, log>>
      /\ conn' = conn \cup {u}
  BY DEF Return, clientVars, netVars, histVars
<1>2. LinkType'
  BY <1>1 DEF Calm, LinkType
<1>3. SendInv' /\ ParserInv' /\ Got' = Got
  BY <1>1, SameStages DEF Calm
<1>4. ForwardInv' /\ RightRecipient' /\ WholeMessages'
  BY <1>1, <1>3, ForwardKept
<1> QED
  BY <1>2, <1>3, <1>4 DEF Calm

LEMMA ChunkSent ==
    ASSUME Calm, Undisturbed, NEW k \in 0..Len(down), SendChunk(k)
    PROVE  Calm'
<1>1. /\ phase = "chunks" /\ cmds # <<>> /\ done \in Nat /\ done < Whole /\ done % Buf = 0 /\ First <= done
      /\ LinkType /\ SendInv /\ Newest \in Nat /\ Whole \in Nat
  <2>1. phase = "chunks" /\ LinkType /\ SendInv /\ done \in Nat
    BY DEF SendChunk, Calm, LinkType
  <2>2. cmds # <<>> /\ done < Whole /\ First <= done /\ (done = Whole \/ done % Buf = 0)
    BY <2>1 DEF SendInv
  <2>3. Newest \in Nat /\ Whole \in Nat
    BY <2>1, <2>2, NewestFacts
  <2> QED
    BY <2>1, <2>2, <2>3
<1>2. PICK n \in Nat : n = (IF done + Buf <= Whole THEN done + Buf ELSE Whole) /\ Min({done + Buf, Whole}) = n
  <2>1. Min({done + Buf, Whole}) = IF done + Buf <= Whole THEN done + Buf ELSE Whole
    BY <1>1, LinkSizes, MinIs
  <2>2. PICK n \in Nat : n = IF done + Buf <= Whole THEN done + Buf ELSE Whole
    BY <1>1, LinkSizes
  <2>3. Min({done + Buf, Whole}) = n
    BY <2>1, <2>2, Zenon
  <2> QED
    BY <2>2, <2>3
<1>3. done < n /\ n <= Whole /\ (n = Whole \/ n % Buf = 0)
  <2>1. (done + Buf) % Buf = 0
    <3>1. Buf \in Nat \ {0}
      BY LinkSizes
    <3> QED
      BY <1>1, <3>1, NextMultiple
  <2> QED
    BY <1>1, <1>2, <2>1, LinkSizes
<1>4. /\ up' = up \o Units(Newest, done, n) /\ done' = n /\ down' = SubSeq(down, k + 1, Len(down))
      /\ phase' = IF (\E i \in Infos(k) : down[i] # "OK") \/ n = Whole THEN "prompt" ELSE "chunks"
      /\ UNCHANGED <<cmds, held, curr, at, conn, faults, log>>
  <2>1. Newest = Len(cmds) /\ Whole = Hdr + cmds[Len(cmds)].size
    BY DEF Newest, Whole
  <2>2. Min({done + Buf, Hdr + cmds[Len(cmds)].size}) = n
    BY <1>2, <2>1, Zenon
  <2> QED
    BY <2>1, <2>2 DEF SendChunk, Process, histVars
<1>5. up \in Seq(Unit) /\ Units(Newest, done, n) \in Seq(Unit) /\ Len(Units(Newest, done, n)) = n - done
  <2>1. Newest \in Nat /\ done \in Nat /\ n \in Nat /\ done <= n
    BY <1>1, <1>3
  <2>2. Units(Newest, done, n) \in Seq(Unit) /\ Len(Units(Newest, done, n)) = n - done
    BY <2>1, UnitsFacts
  <2> QED
    BY <1>1, <2>2 DEF LinkType
<1>6. up' \in Seq(Unit) /\ Len(up') = Len(up) + (n - done)
  BY <1>4, <1>5, Joined
<1>7. LinkType'
  <2>1. SubSeq(down, k + 1, Len(down)) \in Seq(Response)
    <3>1. down \in Seq(Response)
      BY <1>1 DEF LinkType
    <3>2. k + 1 \in Int /\ Len(down) \in Int /\ \A i \in k + 1..Len(down) : down[i] \in Response
      BY <3>1
    <3> QED
      BY <3>2, SubSeqProperties
  <2>2. phase' \in {"prompt", "await", "chunks"}
    BY <1>4
  <2> QED
    BY <1>1, <1>4, <1>6, <2>1, <2>2 DEF LinkType
<1>8. Newest' = Newest /\ Whole' = Whole /\ First' = First /\ Need' = Need /\ \A a : RecordEnd(a)' = RecordEnd(a)
  BY <1>4 DEF Newest, Whole, First, Need, Wanted, RecordEnd, CmdEnd
<1>9. SendInv'
  <2>1. phase' # "await" /\ (phase' # "prompt" => n # Whole)
    BY <1>4
  <2>2. /\ cmds[Newest].type = "req" => cmds[Newest].size = 0
        /\ cmds[Newest].type # "req" => cmds[Newest].to \in User
    BY <1>1 DEF SendInv
  <2>3. First \in Nat
    BY <1>1, NewestFacts
  <2> QED
    BY <1>1, <1>3, <1>4, <1>8, <2>1, <2>2, <2>3 DEF SendInv
<1>10. Reached => Reached' /\ Got' = Got
  <2> SUFFICES ASSUME Reached
               PROVE  Reached' /\ Got' = Got
    OBVIOUS
  <2>1. Got \in Nat /\ Got <= done /\ Got + Len(up) = done /\ up = Units(Newest, Got, done) /\ Got >= 1
    BY <1>1, GotFacts
  <2>2. Got' = Got
    <3>1. Got' = n - Len(up') /\ Got = done - Len(up) /\ Len(up) \in Nat
      BY <1>4, <1>5 DEF Got
    <3> QED
      BY <1>1, <1>6, <3>1
  <2>3. up' = Units(Newest, Got, n)
    <3>1. Got <= done /\ done <= n
      BY <1>3, <2>1
    <3>2. Units(Newest, Got, done) \o Units(Newest, done, n) = Units(Newest, Got, n)
      <4>1. Newest \in Nat /\ Got \in Nat /\ done \in Nat /\ n \in Nat /\ Got <= done /\ done <= n
        BY <1>1, <2>1, <3>1
      <4> QED
        BY <4>1, UnitsJoin, Zenon
    <3>3. up = Units(Newest, Got, done) /\ up' = up \o Units(Newest, done, n)
      BY <1>4, <2>1
    <3> QED
      BY <3>2, <3>3, Zenon
  <2> QED
    BY <1>1, <1>4, <1>8, <2>1, <2>2, <2>3 DEF Reached, Units
<1>11. Accepted \/ Past
  BY <1>1 DEF Calm, ParserInv, Untouched, InHeader, Unanswered
<1>12. Accepted => Accepted'
  <2> SUFFICES ASSUME Accepted
               PROVE  Accepted'
    OBVIOUS
  <2>1. down = <<>> /\ Reached
    BY <1>1 DEF Accepted
  <2>2. k = 0 /\ Len(down) = 0
    BY <2>1
  <2>3. down' = <<>>
    BY <1>4, <2>2, SubSeqEmpty
  <2>4. Infos(k) = {}
    BY <2>2 DEF Infos
  <2>5. n = Whole \/ phase' = "chunks"
    BY <1>4, <2>4
  <2> QED
    BY <1>1, <1>4, <1>8, <1>10, <2>1, <2>3, <2>5 DEF Accepted, Units
<1>13. Past => Past'
  BY <1>4, <1>8, <1>10 DEF Past
<1>14. ParserInv'
  BY <1>4, <1>8, <1>11, <1>12, <1>13 DEF Calm, ParserInv
<1>15. ForwardInv' /\ RightRecipient' /\ WholeMessages'
  <2>1. Got' = Got
    BY <1>10, <1>11 DEF Accepted, Past
  <2> QED
    BY <1>4, <2>1, ForwardKept
<1> QED
  BY <1>7, <1>9, <1>14, <1>15 DEF Calm

\* What is unread where the server has reached the last command.
LEMMA Unread ==
    ASSUME LinkType, SendInv, Reached, cmds # <<>>
    PROVE  /\ Got \in Nat /\ Got >= 1 /\ Len(up) \in Nat /\ done \in Nat /\ Got + Len(up) = done
           /\ \A i \in 1..Len(up) : up[i] = <<Newest, Got + i>>
<1>1. Got \in Nat /\ Got <= done /\ Got + Len(up) = done /\ up = Units(Newest, Got, done) /\ Got >= 1
  BY GotFacts
<1>2. Newest \in Nat /\ done \in Nat /\ Len(up) \in Nat
  BY DEF LinkType, Newest
<1>3. /\ Units(Newest, Got, done) \in Seq(Unit) /\ Len(Units(Newest, Got, done)) = done - Got
      /\ \A i \in 1..done - Got : Units(Newest, Got, done)[i] = <<Newest, Got + i>>
  BY <1>1, <1>2, UnitsFacts, ZenonT(40)
<1>4. done - Got = Len(up)
  BY <1>1, <1>2
<1>5. \A i \in 1..Len(up) : up[i] = <<Newest, Got + i>>
  BY <1>1, <1>3, <1>4
<1> QED
  BY <1>1, <1>2, <1>5

\* A patient user only sends to a server that has nothing left to do.
LEMMA QuietPast ==
    ASSUME Calm, Undisturbed, Quiet, phase = "prompt"
    PROVE  /\ Past /\ ~curr.chunks /\ (up # <<>> => TLS /\ held /\ curr.desync /\ cmds # <<>>)
           /\ Len(up) < Buf
           /\ \A i \in 1..Len(up) - 1 : ~RecordEnd(up[i])
<1>1. /\ at = "wait" /\ ~Reported /\ down = <<>> /\ LinkType /\ SendInv /\ ParserInv
      /\ up \in Seq(Unit) /\ Len(up) \in Nat /\ done \in Nat
  BY DEF Calm, Quiet, LinkType
<1>2. ~Accepted
  <2> SUFFICES ASSUME Accepted
               PROVE  FALSE
    OBVIOUS
  <2>1. /\ cmds # <<>> /\ curr.exp = cmds[Newest].size /\ curr.total = Got - Hdr /\ done = Whole
        /\ ~held /\ curr.total < curr.exp
    BY <1>1 DEF Accepted
  <2>2. up = <<>>
    BY <1>1, <2>1 DEF Reported
  <2>3. Got = done
    <3>1. Len(up) = 0
      BY <2>2
    <3> QED
      BY <1>1, <3>1 DEF Got
  <2>4. cmds[Newest].size \in Nat /\ Whole = Hdr + cmds[Newest].size /\ Hdr = 2
    BY <1>1, <2>1, NewestFacts, LinkSizes DEF Whole
  <2> QED
    BY <1>1, <2>1, <2>3, <2>4
<1>3. Past /\ ~curr.chunks
  BY <1>1, <1>2 DEF ParserInv, Untouched, InHeader, Past
<1>4. up # <<>> => TLS /\ held /\ \A i \in 1..Len(up) - 1 : ~RecordEnd(up[i])
  BY <1>1 DEF Reported
<1>5. up # <<>> => curr.desync /\ cmds # <<>>
  BY <1>1, <1>3, <1>4 DEF Past, Reached
<1>6. up = <<>> => Len(up) = 0
  OBVIOUS
<1>7. Len(up) < Buf
  <2>1. CASE up = <<>>
    BY <1>6, <2>1, LinkSizes
  <2>2. CASE up # <<>>
    <3>1. cmds # <<>> /\ Reached /\ held
      BY <1>3, <1>4, <1>5, <2>2 DEF Past
    <3>2. PICK g \in Nat : g = Got /\ g >= 1 /\ \A i \in 1..Len(up) : up[i] = <<Newest, g + i>>
      BY <1>1, <3>1, Unread
    <3>3. ~RecordEnd(<<Newest, g>>)
      BY <3>1, <3>2 DEF Reached
    <3>4. \A i \in 1..Len(up) - 1 : ~RecordEnd(<<Newest, g + i>>)
      <4>1. \A i \in 1..Len(up) - 1 : i \in 1..Len(up)
        BY <1>1
      <4>2. \A i \in 1..Len(up) - 1 : up[i] = <<Newest, g + i>>
        BY <3>2, <4>1, Zenon
      <4> QED
        BY <1>4, <2>2, <4>2
    <3>5. g \in Nat \ {0}
      BY <3>2
    <3> QED
      BY <1>1, <3>1, <3>3, <3>4, <3>5, HeldShort
  <2> QED
    BY <2>1, <2>2
<1> QED
  BY <1>3, <1>4, <1>5, <1>6, <1>7

\* Another command changes nothing for those before it.
LEMMA OneMore ==
    ASSUME LinkType, NEW c \in Commands, cmds' = Append(cmds, c)
    PROVE  /\ cmds' \in Seq(Commands) /\ cmds' # <<>> /\ Newest \in Nat /\ Newest' = Newest + 1
           /\ cmds'[Newest + 1] = c
           /\ \A i \in 1..Newest : cmds'[i] = cmds[i]
           /\ \A u : u[1] \in 1..Newest => CmdEnd(u)' = CmdEnd(u) /\ RecordEnd(u)' = RecordEnd(u)
<1>1. cmds \in Seq(Commands) /\ Newest = Len(cmds) /\ Newest \in Nat
  BY DEF LinkType, Newest
<1>2. /\ cmds' \in Seq(Commands) /\ Len(cmds') = Len(cmds) + 1 /\ cmds'[Len(cmds) + 1] = c
      /\ \A i \in 1..Len(cmds) : cmds'[i] = cmds[i]
  BY <1>1
<1>3. cmds' # <<>>
  BY <1>1, <1>2
<1>4. ASSUME NEW u, u[1] \in 1..Newest
      PROVE  CmdEnd(u)' = CmdEnd(u) /\ RecordEnd(u)' = RecordEnd(u)
  BY <1>1, <1>2, <1>4 DEF RecordEnd, CmdEnd
<1> QED
  BY <1>1, <1>2, <1>3, <1>4 DEF Newest

LEMMA NewUnits ==
    ASSUME NEW id \in Nat, NEW n \in Nat
    PROVE  \E q \in Seq(Unit) : q = Units(id, 0, n) /\ Len(q) = n /\ \A i \in 1..n : q[i] = <<id, i>>
<1>1. /\ Units(id, 0, n) \in Seq(Unit) /\ Len(Units(id, 0, n)) = n - 0
      /\ \A i \in 1..n - 0 : Units(id, 0, n)[i] = <<id, 0 + i>>
  <2>1. 0 \in Nat /\ 0 <= n
    OBVIOUS
  <2> QED
    BY <2>1, UnitsFacts, Zenon
<1>2. n - 0 = n /\ \A i \in 1..n : 0 + i = i
  OBVIOUS
<1>3. Len(Units(id, 0, n)) = n /\ \A i \in 1..n : Units(id, 0, n)[i] = <<id, i>>
  BY <1>1, <1>2
<1> QED
  BY <1>1, <1>3

LEMMA TheseUnits ==
    ASSUME NEW id \in Nat, NEW a \in Nat, NEW b \in Nat, a <= b, NEW q, q = Units(id, a, b)
    PROVE  q \in Seq(Unit) /\ Len(q) = b - a /\ \A i \in 1..b - a : q[i] = <<id, a + i>>
BY UnitsFacts

\* What has been joined can be cut again.
LEMMA CutAgain ==
    ASSUME NEW q \in Seq(Unit), NEW r \in Seq(Unit), NEW w, w = q \o r
    PROVE  SubSeq(w, Len(q) + 1, Len(w)) = r
<1>1. /\ w \in Seq(Unit) /\ Len(w) = Len(q) + Len(r)
      /\ \A i \in 1..Len(q) : w[i] = q[i]
      /\ \A i \in 1..Len(r) : w[Len(q) + i] = r[i]
  BY Joined
<1>2. PICK l \in Nat, n \in Nat : l = Len(q) /\ n = Len(r)
  OBVIOUS
<1>3. w \in Seq(Unit) /\ l \in 0..Len(w) /\ Len(w) - l = n
  BY <1>1, <1>2
<1>4. /\ SubSeq(w, l + 1, Len(w)) \in Seq(Unit) /\ Len(SubSeq(w, l + 1, Len(w))) = Len(w) - l
      /\ \A i \in 1..Len(w) - l : SubSeq(w, l + 1, Len(w))[i] = w[l + i]
  BY <1>3, BackUnits, Zenon
<1> DEFINE t == SubSeq(w, l + 1, Len(w))
<1>5. t \in Seq(Unit) /\ Len(t) = Len(r) /\ \A i \in 1..n : t[i] = w[l + i]
  BY <1>2, <1>3, <1>4
<1> HIDE DEF t
<1>6. \A i \in 1..Len(t) : t[i] = r[i]
  BY <1>1, <1>2, <1>5
<1>7. t = r
  BY <1>5, <1>6, SeqEqual
<1> QED
  BY <1>2, <1>7 DEF t

LEMMA SendStep ==
    ASSUME Calm, Undisturbed, Patient, NEW c \in Commands, NEW s \in Nat, NEW n \in Nat, Send(c, n),
           c.size = s, c.type = "req" => s = 0, c.type # "req" => c.to \in User,
           n = IF s <= Payload THEN Hdr + s ELSE Buf,
           phase' = IF s > Payload THEN "await" ELSE "prompt"
    PROVE  Calm'
<1>1. /\ phase = "prompt" /\ Quiet
      /\ cmds' = Append(cmds, c) /\ up' = up \o Units(Len(cmds) + 1, 0, n) /\ done' = n
      /\ UNCHANGED <<held, down, curr, at, conn, faults, log>>
  BY DEF Send, histVars
<1>2. LinkType /\ SendInv /\ ParserInv /\ at = "wait" /\ down = <<>>
  BY <1>1 DEF Calm, Quiet
<1>3. /\ Past /\ ~curr.chunks /\ (up # <<>> => held /\ curr.desync /\ cmds # <<>>)
      /\ Len(up) < Buf /\ Reached
  BY <1>1, QuietPast DEF Past
<1>4. 2 <= n /\ n <= Hdr + s /\ (n = Hdr + s \/ n = Buf) /\ (s > Payload => n < Hdr + s /\ n = Buf)
  BY LinkSizes
<1>5. Min({s, Payload}) = IF s <= Payload THEN s ELSE Payload
  BY LinkSizes, MinIs
<1>6. /\ cmds' \in Seq(Commands) /\ cmds' # <<>> /\ Newest \in Nat /\ Newest' = Newest + 1
      /\ cmds'[Newest + 1] = c
      /\ \A i \in 1..Newest : cmds'[i] = cmds[i]
      /\ \A u : u[1] \in 1..Newest => CmdEnd(u)' = CmdEnd(u) /\ RecordEnd(u)' = RecordEnd(u)
  BY <1>1, <1>2, OneMore
<1>7. Whole' = Hdr + s /\ First' = n
  <2>1. cmds'[Newest'].size = s
    BY <1>6
  <2>2. Whole' = Hdr + s /\ First' = Hdr + Min({s, Payload})
    BY <2>1 DEF Whole, First
  <2>3. PICK m : m = Min({s, Payload})
    OBVIOUS
  <2>4. m = IF s <= Payload THEN s ELSE Payload
    BY <1>5, <2>3
  <2>5. First' = Hdr + m
    BY <2>2, <2>3
  <2> QED
    BY <2>2, <2>4, <2>5, LinkSizes
<1>8. PICK nu \in Seq(Unit) : nu = Units(Newest + 1, 0, n) /\ Len(nu) = n /\ \A i \in 1..n : nu[i] = <<Newest + 1, i>>
  <2>1. Newest + 1 \in Nat
    BY <1>6
  <2> QED
    BY <2>1, NewUnits
<1>9. PICK q \in Seq(Unit), l \in Nat, d \in Nat : q = up /\ l = Len(q) /\ d = done
  BY <1>2 DEF LinkType
<1>10. PICK w \in Seq(Unit) : /\ w = up' /\ Len(w) = l + n
                              /\ \A i \in 1..l : w[i] = q[i]
                              /\ \A i \in 1..n : w[l + i] = nu[i]
  <2>1. up' = q \o nu
    BY <1>1, <1>8, <1>9 DEF Newest
  <2>2. /\ q \o nu \in Seq(Unit) /\ Len(q \o nu) = Len(q) + Len(nu)
        /\ \A i \in 1..Len(q) : (q \o nu)[i] = q[i]
        /\ \A i \in 1..Len(nu) : (q \o nu)[Len(q) + i] = nu[i]
    BY Joined
  <2>3. PICK w \in Seq(Unit) : w = q \o nu
    BY <2>2
  <2>4. /\ Len(w) = l + n /\ \A i \in 1..l : w[i] = q[i]
        /\ \A i \in 1..n : w[l + i] = nu[i]
    BY <1>8, <1>9, <2>2, <2>3
  <2> QED
    BY <2>1, <2>3, <2>4
<1>11. LinkType'
  BY <1>1, <1>2, <1>5, <1>6, <1>10 DEF LinkType
<1>12. SendInv'
  <2>1. cmds'[Newest'] = c
    BY <1>6
  <2>3. Buf % Buf = 0
    <3>1. Buf * 1 = Buf /\ Buf \in Nat \ {0}
      BY LinkSizes
    <3> QED
      BY <3>1, Multiple
  <2>4. done' = Whole' \/ done' % Buf = 0
    BY <1>1, <1>4, <1>7, <2>3
  <2>5. /\ First' <= done' /\ done' <= Whole' /\ (phase' # "prompt" => done' < Whole')
        /\ (phase' = "await" => done' = First')
    BY <1>1, <1>4, <1>7
  <2>6. /\ cmds'[Newest'].type = "req" => cmds'[Newest'].size = 0
        /\ cmds'[Newest'].type # "req" => cmds'[Newest'].to \in User
    BY <2>1
  <2> QED
    BY <1>6, <2>4, <2>5, <2>6 DEF SendInv
\* Whatever is unread of the commands before is of the last of them, behind
\* its first unit.
<1>13. l # 0 => /\ cmds # <<>> /\ held /\ q[l] = <<Newest, d>>
                /\ \A i \in 1..l : q[i][2] # 1
  <2> SUFFICES ASSUME l # 0
               PROVE  /\ cmds # <<>> /\ held /\ q[l] = <<Newest, d>>
                      /\ \A i \in 1..l : q[i][2] # 1
    OBVIOUS
  <2>1. cmds # <<>> /\ held
    <3>1. up # <<>>
      BY <1>9
    <3> QED
      BY <1>3, <3>1
  <2>2. PICK g \in Nat : g >= 1 /\ g + l = d /\ \A i \in 1..l : q[i] = <<Newest, g + i>>
    <3>1. /\ Got \in Nat /\ Got >= 1 /\ Got + Len(up) = done
          /\ \A i \in 1..Len(up) : up[i] = <<Newest, Got + i>>
      BY <1>2, <1>3, <2>1, Unread
    <3>2. /\ Got \in Nat /\ Got >= 1 /\ Got + l = d
          /\ \A i \in 1..l : q[i] = <<Newest, Got + i>>
      BY <1>9, <3>1
    <3> QED
      BY <3>2
  <2>5. l \in 1..l /\ g + l = d
    BY <2>2
  <2>6. \A i \in 1..l : g + i # 1
    BY <2>2
  <2>7. q[l] = <<Newest, d>>
    BY <2>2, <2>5
  <2>8. \A i \in 1..l : q[i][2] = g + i
    BY <2>2
  <2>9. \A i \in 1..l : q[i][2] # 1
    BY <2>6, <2>8, Zenon
  <2> QED
    BY <2>1, <2>7, <2>9
<1>14. Reported'
  <2>1. w # <<>>
    BY <1>4, <1>10
  <2>2. CASE ~held
    BY <1>1, <1>10, <2>1, <2>2 DEF Reported
  <2>3. CASE held
    <3>1. cmds # <<>> /\ ~RecordEnd(<<Newest, Got>>)
      BY <1>3, <2>3 DEF Reached
    <3>2. RecordEnd(<<Newest, d>>)
      BY <1>2, <1>9, <3>1, DoneEnds
    <3>3. l # 0
      <4>1. Got = d - l
        BY <1>9 DEF Got
      <4>2. l = 0 => Got = d
        BY <4>1
      <4> QED
        BY <3>1, <3>2, <4>2
    <3>4. w[l] = <<Newest, d>> /\ l \in 1..Len(w) - 1
      <4>1. q[l] = <<Newest, d>>
        BY <1>13, <3>3
      <4>2. l \in 1..l /\ l \in 1..l + n - 1 /\ l + n \in Nat
        BY <1>4, <3>3
      <4>3. w[l] = <<Newest, d>>
        BY <1>10, <4>1, <4>2, Zenon
      <4>4. Len(w) = l + n
        BY <1>10
      <4> QED
        BY <4>2, <4>3, <4>4
    <3>5. cmds'[Newest] = cmds[Newest]
      <4>1. Newest \in 1..Newest
        BY <1>2, <3>1, NewestFacts
      <4> QED
        BY <1>6, <4>1
    <3>6. w[l][1] = Newest /\ w[l][2] = d
      BY <3>4
    <3>7. d = Hdr + cmds[Newest].size \/ d % Buf = 0
      BY <3>2, RecordEndIs
    <3>8. w[l][2] = Hdr + cmds'[w[l][1]].size \/ w[l][2] % Buf = 0
      BY <3>5, <3>6, <3>7
    <3> QED
      BY <1>10, <2>1, <3>4, <3>8 DEF Reported, RecordEnd, CmdEnd
  <2> QED
    BY <2>2, <2>3
<1>15. Unanswered'
  <2>1. down' = <<>> /\ done' = First'
    BY <1>1, <1>2, <1>7
  <2>2. phase' = "await" \/ (phase' = "prompt" /\ done' = Whole')
    BY <1>1, <1>4, <1>7, LinkSizes
  <2> QED
    BY <2>1, <2>2 DEF Unanswered
<1>16. n <= Len(w) /\ Len(w) - n = l /\ SubSeq(w, l + 1, Len(w)) = Units(Newest + 1, 0, n)
  <2>1. n <= Len(w) /\ Len(w) - n = l /\ l \in 0..Len(w) /\ Len(w) - l = n
    BY <1>10
  <2>2. w = q \o nu
    BY <1>1, <1>8, <1>9, <1>10 DEF Newest
  <2>3. SubSeq(w, Len(q) + 1, Len(w)) = nu
    BY <2>2, CutAgain
  <2> QED
    BY <1>8, <1>9, <2>1, <2>3
<1>17. Untouched'
  <2>1. Need' = Need
    BY <1>1 DEF Need, Wanted
  <2>2. n <= Len(w) /\ SubSeq(w, Len(w) - n + 1, Len(w)) = Units(Newest + 1, 0, n)
    BY <1>16
  <2>3. \A i \in 1..Len(w) - n : w[i][2] # 1
    <3>1. \A i \in 1..l : w[i][2] # 1
      <4>1. CASE l = 0
        BY <4>1
      <4>2. CASE l # 0
        BY <1>10, <1>13, <4>2
      <4> QED
        BY <4>1, <4>2
    <3> QED
      BY <1>16, <3>1
  <2>4. Len(w) - n < Buf
    BY <1>3, <1>9, <1>16
  <2>5. ~curr.desync => Len(w) = n /\ Len(curr.buf) < Need /\ (curr.buf # <<>> => curr.buf[1][2] # 1)
    <3>1. ~curr.desync => Len(up) = 0
      BY <1>3
    <3> QED
      BY <1>2, <1>3, <1>5, <1>9, <1>16, <3>1 DEF Past
  <2>6. /\ up' = w /\ done' = n /\ curr' = curr /\ at' = "wait" /\ Newest' = Newest + 1
        /\ cmds' # <<>> /\ ~curr.chunks /\ Need' = Need
    BY <1>1, <1>2, <1>3, <1>6, <1>10, <2>1
  <2> QED
    BY <1>14, <1>15, <2>2, <2>3, <2>4, <2>5, <2>6 DEF Untouched, Units
<1>18. ParserInv'
  BY <1>1, <1>2, <1>17 DEF ParserInv
<1>19. ForwardInv' /\ RightRecipient' /\ WholeMessages'
  <2>1. \A u \in User : \A i \in 1..Len(log[u]) : log[u][i][1] \in 1..Newest
    BY DEF Calm, ForwardInv
  <2>2. 1..Newest \subseteq 1..Newest'
    BY <1>6
  <2>3. ASSUME NEW u \in User
        PROVE  /\ log[u] \in Seq(Unit)
               /\ \A i \in 1..Len(log[u]) : /\ log[u][i][1] \in 1..Newest /\ log[u][i][1] \in 1..Newest'
                                            /\ cmds'[log[u][i][1]] = cmds[log[u][i][1]]
    BY <1>2, <1>6, <2>1, <2>2 DEF LinkType
  <2>4. ASSUME NEW a, a[1] \in 1..Newest
        PROVE  CmdEnd(a)' = CmdEnd(a)
    BY <1>6, <2>4 DEF CmdEnd
  <2>5. ForwardInv'
    <3> SUFFICES ASSUME NEW u \in User
                 PROVE  (/\ u \notin conn => log[u] = <<>>
                         /\ \A i \in 1..Len(log[u]) : log[u][i][1] \in 1..Newest
                         /\ log[u] # <<>> => CmdEnd(Last(log[u])))'
      BY <1>1, <1>3 DEF ForwardInv
    <3>1. u \notin conn' => log'[u] = <<>>
      BY <1>1 DEF Calm, ForwardInv
    <3>2. \A i \in 1..Len(log'[u]) : log'[u][i][1] \in 1..Newest'
      BY <1>1, <2>3
    <3>3. ASSUME log[u] # <<>>
          PROVE  CmdEnd(Last(log[u]))'
      <4>1. CmdEnd(Last(log[u]))
        BY <1>3, <3>3 DEF Calm, ForwardInv
      <4>2. Last(log[u])[1] \in 1..Newest
        <5>1. PICK r \in Seq(Unit) : r = log[u]
          BY <2>3
        <5>2. Len(r) \in 1..Len(r)
          BY <3>3, <5>1
        <5> QED
          BY <2>3, <5>1, <5>2 DEF Last
      <4> QED
        BY <1>1, <2>4, <4>1, <4>2 DEF CmdEnd
    <3> QED
      BY <1>1, <3>1, <3>2, <3>3
  <2>6. RightRecipient'
    BY <1>1, <2>3 DEF Calm, RightRecipient, Undisturbed
  <2>7. WholeMessages'
    <3> SUFFICES ASSUME NEW u \in User, NEW i \in 2..Len(log[u]), log[u][i][2] = 1
                 PROVE  CmdEnd(log[u][i - 1])'
      BY <1>1 DEF Calm, WholeMessages, Undisturbed
    <3>1. CmdEnd(log[u][i - 1])
      BY DEF Calm, WholeMessages
    <3>2. i - 1 \in 1..Len(log[u])
      BY <2>3
    <3> QED
      BY <1>1, <2>3, <2>4, <3>1, <3>2 DEF CmdEnd
  <2> QED
    BY <2>5, <2>6, <2>7
<1> QED
  BY <1>11, <1>12, <1>18, <1>19 DEF Calm

LEMMA CommandsStep ==
    ASSUME Calm, Undisturbed, Patient,
           (\E u \in User : cmd_msg(u) \/ \E n \in FileSize : cmd_sendfile(u, n)) \/ cmd_userlist
    PROVE  Calm'
<1>1. ASSUME NEW u \in User, cmd_msg(u)
      PROVE  Calm'
  <2>1. PICK c \in Commands : c = [type |-> "msg", to |-> u, size |-> 1]
    BY DEF Commands
  <2>2. Hdr + 1 \in Nat /\ Send(c, Hdr + 1) /\ phase' = phase /\ phase = "prompt"
    BY <1>1, <2>1, LinkSizes DEF cmd_msg, Send
  <2>3. 1 <= Payload
    BY LinkSizes
  <2>4. /\ c.size = 1 /\ (c.type = "req" => 1 = 0) /\ (c.type # "req" => c.to \in User)
        /\ Hdr + 1 = (IF 1 <= Payload THEN Hdr + 1 ELSE Buf)
        /\ phase' = IF 1 > Payload THEN "await" ELSE "prompt"
    BY <2>1, <2>2, <2>3, LinkSizes
  <2> QED
    BY <2>2, <2>4, SendStep
<1>2. ASSUME cmd_userlist
      PROVE  Calm'
  <2>1. PICK c \in Commands : c = [type |-> "req", to |-> NoUser, size |-> 0]
    BY DEF Commands
  <2>2. Hdr \in Nat /\ Send(c, Hdr) /\ phase' = phase /\ phase = "prompt"
    BY <1>2, <2>1, LinkSizes DEF cmd_userlist, Send
  <2>3. 0 <= Payload
    BY LinkSizes
  <2>4. /\ c.size = 0 /\ (c.type = "req" => 0 = 0) /\ (c.type # "req" => c.to \in User)
        /\ Hdr = (IF 0 <= Payload THEN Hdr + 0 ELSE Buf)
        /\ phase' = IF 0 > Payload THEN "await" ELSE "prompt"
    BY <2>1, <2>2, <2>3, LinkSizes
  <2> QED
    BY <2>2, <2>4, SendStep
<1>3. ASSUME NEW u \in User, NEW s \in FileSize, cmd_sendfile(u, s)
      PROVE  Calm'
  <2>0. s \in Nat
    BY LinkAssumption
  <2>1. PICK c \in Commands : c = [type |-> "file", to |-> u, size |-> s]
    BY <2>0 DEF Commands
  <2>2. Send(c, Hdr + Min({s, Payload})) /\ phase' = IF s > Payload THEN "await" ELSE "prompt"
    BY <1>3, <2>1 DEF cmd_sendfile
  <2>3. Min({s, Payload}) = IF s <= Payload THEN s ELSE Payload
    BY <2>0, LinkSizes, MinIs
  <2>4. PICK m \in Nat : m = Min({s, Payload}) /\ m = IF s <= Payload THEN s ELSE Payload
    <3>1. PICK m \in Nat : m = IF s <= Payload THEN s ELSE Payload
      BY <2>0, LinkSizes
    <3>2. m = Min({s, Payload})
      BY <2>3, <3>1, Zenon
    <3> QED
      BY <3>1, <3>2
  <2>5. Hdr + m \in Nat /\ Hdr + m = IF s <= Payload THEN Hdr + s ELSE Buf
    BY <2>0, <2>4, LinkSizes
  <2>6. Send(c, Hdr + m)
    BY <2>2, <2>4
  <2>7. c.size = s /\ (c.type = "req" => s = 0) /\ (c.type # "req" => c.to \in User)
    BY <2>1
  <2> QED
    BY <2>0, <2>2, <2>5, <2>6, <2>7, SendStep
<1> QED
  BY <1>1, <1>2, <1>3

-----------------------------------------------------------------------------
(* Resynchronisation. *)

LEMMA LeastIs ==
    ASSUME NEW S, S \subseteq Int, NEW m \in S, \A x \in S : m <= x
    PROVE  Min(S) = m
<1>1. \E x \in S : \A y \in S : x <= y
  OBVIOUS
<1>2. Min(S) \in S /\ \A y \in S : Min(S) <= y
  BY <1>1, Zenon DEF Min
<1>3. PICK z \in Int : z = Min(S) /\ z <= m /\ m <= z
  BY <1>2
<1> QED
  BY <1>3

LEMMA BehindIt ==
    ASSUME NEW q \in Seq(Unit), NEW i \in 1..Len(q)
    PROVE  /\ SubSeq(q, i, Len(q)) \in Seq(Unit) /\ Len(SubSeq(q, i, Len(q))) = Len(q) - i + 1
           /\ \A j \in 1..Len(q) - i + 1 : SubSeq(q, i, Len(q))[j] = q[i + j - 1]
           /\ SubSeq(q, i, Len(q))[1] = q[i]
           /\ i + 1 \in 1..Len(q) => SubSeq(q, i, Len(q))[2] = q[i + 1]
<1> DEFINE r == SubSeq(q, i, Len(q))
<1>1. i \in Int /\ Len(q) \in Int /\ \A j \in i..Len(q) : q[j] \in Unit
  OBVIOUS
<1>2. /\ r \in Seq(Unit) /\ Len(r) = (IF i <= Len(q) THEN Len(q) - i + 1 ELSE 0)
      /\ \A j \in 1..Len(q) - i + 1 : r[j] = q[i + j - 1]
  BY <1>1, SubSeqProperties
<1> HIDE DEF r
<1>3. Len(r) = Len(q) - i + 1
  BY <1>2
<1>4. r[1] = q[i]
  <2>1. 1 \in 1..Len(q) - i + 1 /\ i + 1 - 1 = i
    OBVIOUS
  <2> QED
    BY <1>2, <2>1
<1>5. i + 1 \in 1..Len(q) => r[2] = q[i + 1]
  <2>1. i + 1 \in 1..Len(q) => 2 \in 1..Len(q) - i + 1
    OBVIOUS
  <2>2. i + 2 - 1 = i + 1
    OBVIOUS
  <2> QED
    BY <1>2, <2>1, <2>2
<1> QED
  BY <1>2, <1>3, <1>4, <1>5 DEF r

\* Without a first unit of a command only the last unit can pass for a mark.
LEMMA NothingFound ==
    ASSUME NEW b \in Seq(Unit), \A i \in 1..Len(b) : b[i][2] # 1
    PROVE  lwmp_stream_resync(b) = <<>> \/ (b # <<>> /\ lwmp_stream_resync(b) = SubSeq(b, Len(b), Len(b)))
<1> DEFINE fits(i) == IsMark(b[i]) /\ (Len(b) - i + 1 < Hdr \/ TrueHdr(SubSeq(b, i, Len(b))))
           starts == {i \in 1..Len(b) : fits(i)}
<1>1. lwmp_stream_resync(b) = IF starts = {} THEN <<>> ELSE SubSeq(b, Min(starts), Len(b))
  BY DEF lwmp_stream_resync
<1>2. ASSUME NEW i \in 1..Len(b), fits(i)
      PROVE  i = Len(b)
  <2>1. SubSeq(b, i, Len(b))[1] = b[i]
    BY BehindIt
  <2>2. ~TrueHdr(SubSeq(b, i, Len(b)))
    BY <2>1 DEF TrueHdr
  <2>3. Len(b) - i + 1 < Hdr
    BY <1>2, <2>2
  <2> QED
    BY <2>3, LinkSizes
<1>3. starts \subseteq {Len(b)} /\ starts \subseteq 1..Len(b)
  BY <1>2
<1> HIDE DEF starts
<1>4. CASE starts = {}
  BY <1>1, <1>4
<1>5. CASE starts # {}
  <2>1. Len(b) \in starts /\ starts \subseteq Int /\ \A x \in starts : Len(b) <= x
    <3>1. Len(b) \in starts
      BY <1>3, <1>5
    <3>2. PICK l \in Nat : l = Len(b)
      OBVIOUS
    <3>3. \A x \in starts : x = l
      BY <1>3, <3>2
    <3> QED
      BY <3>1, <3>2, <3>3
  <2>2. Min(starts) = Len(b)
    BY <2>1, LeastIs, Zenon
  <2>3. b # <<>>
    BY <1>3, <2>1
  <2> QED
    BY <1>1, <1>5, <2>2, <2>3
<1> QED
  BY <1>4, <1>5

\* The first unit of a command is found.
LEMMA HeaderFound ==
    ASSUME NEW b \in Seq(Unit), NEW m \in 1..Len(b), NEW id, \A i \in 1..m - 1 : b[i][2] # 1,
           b[m] = <<id, 1>>, m + 1 \in 1..Len(b) => b[m + 1] = <<id, 2>>
    PROVE  lwmp_stream_resync(b) = SubSeq(b, m, Len(b))
<1> DEFINE fits(i) == IsMark(b[i]) /\ (Len(b) - i + 1 < Hdr \/ TrueHdr(SubSeq(b, i, Len(b))))
           starts == {i \in 1..Len(b) : fits(i)}
<1>1. lwmp_stream_resync(b) = IF starts = {} THEN <<>> ELSE SubSeq(b, Min(starts), Len(b))
  BY DEF lwmp_stream_resync
<1>2. ASSUME NEW i \in 1..m - 1
      PROVE  ~fits(i)
  <2>1. i \in 1..Len(b) /\ i + 1 \in 1..Len(b)
    OBVIOUS
  <2>2. SubSeq(b, i, Len(b))[1] = b[i]
    BY <2>1, BehindIt
  <2>3. ~TrueHdr(SubSeq(b, i, Len(b)))
    BY <2>2 DEF TrueHdr
  <2>4. ~(Len(b) - i + 1 < Hdr)
    BY <2>1, LinkSizes
  <2> QED
    BY <2>3, <2>4
<1>3. fits(m)
  <2>1. IsMark(b[m])
    BY DEF IsMark
  <2>2. CASE m = Len(b)
    BY <2>1, <2>2, LinkSizes
  <2>3. CASE m # Len(b)
    <3>1. m + 1 \in 1..Len(b)
      BY <2>3
    <3>2. SubSeq(b, m, Len(b))[1] = <<id, 1>> /\ SubSeq(b, m, Len(b))[2] = <<id, 2>>
      BY <3>1, BehindIt
    <3>3. TrueHdr(SubSeq(b, m, Len(b)))
      BY <3>2 DEF TrueHdr
    <3> QED
      BY <2>1, <3>3
  <2> QED
    BY <2>2, <2>3
<1>4. m \in starts /\ starts \subseteq 1..Len(b) /\ \A x \in starts : x \notin 1..m - 1
  BY <1>2, <1>3
<1> HIDE DEF starts
<1>5. starts \subseteq Int /\ \A x \in starts : m <= x
  BY <1>4
<1>6. Min(starts) = m
  BY <1>4, <1>5, LeastIs, Zenon
<1> QED
  BY <1>1, <1>4, <1>6

LEMMA ResyncStep ==
    ASSUME Calm, Undisturbed, Resync
    PROVE  Calm'
<1> DEFINE b == lwmp_stream_resync(curr.buf \o Recv(Buf - Len(curr.buf)))
<1>1. /\ at = "in" /\ curr.desync /\ Read(Buf - Len(curr.buf))
      /\ curr' = [curr EXCEPT !.buf = b, !.desync = (b = <<>>)]
      /\ at' = IF b = <<>> THEN "wait" ELSE "in"
      /\ UNCHANGED <<cmds, phase, done, down, conn, faults, log>>
  BY DEF Resync, clientVars
<1>2. LinkType /\ SendInv /\ ParserInv /\ curr.buf = <<>> /\ curr.type = "none"
  BY <1>1 DEF Calm, ParserInv
<1>3. Buf \in Nat /\ Buf - Len(curr.buf) = Buf
  BY <1>2, LinkSizes
<1>4. Read(Buf)
  BY <1>1, <1>3
<1>5. PICK k \in 0..Len(up) : /\ k <= Buf /\ (k = Buf \/ k = Len(up))
                              /\ Recv(Buf) = SubSeq(up, 1, k) /\ Recv(Buf) \in Seq(Unit) /\ Len(Recv(Buf)) = k
                              /\ \A i \in 1..k : Recv(Buf)[i] = up[i]
  BY <1>2, <1>3, RecvSize
<1>6. PICK r \in Seq(Unit) : r = Recv(Buf) /\ Len(r) = k /\ \A i \in 1..k : r[i] = up[i]
  BY <1>5
<1>7. b = lwmp_stream_resync(r)
  <2>1. <<>> \o r = r
    BY ConcatEmptySeq
  <2> QED
    BY <1>2, <1>3, <1>6, <2>1
<1> HIDE DEF b
<1>8. /\ curr'.buf = b /\ curr'.desync = (b = <<>>) /\ curr'.type = curr.type /\ curr'.chunks = curr.chunks
      /\ curr'.exp = curr.exp /\ curr'.total = curr.total /\ curr'.to = curr.to
  BY <1>1, <1>2 DEF LinkType, Storage
<1>9. Newest' = Newest /\ Whole' = Whole /\ First' = First
  BY <1>1 DEF Newest, Whole, First
<1>10. SendInv'
  BY <1>1, <1>2, <1>9 DEF SendInv
<1>11. ~curr.chunks /\ curr.exp = 0 /\ curr.total = 0
  BY <1>2 DEF ParserInv
<1>12. ASSUME b \in Seq(Unit), up' \in Seq(Unit), held' \in BOOLEAN
       PROVE  LinkType'
  <2>1. curr' \in Storage
    BY <1>1, <1>2, <1>12 DEF LinkType, Storage
  <2> QED
    BY <1>1, <1>2, <1>12, <2>1 DEF LinkType
<1>13. ForwardInv' /\ RightRecipient' /\ WholeMessages'
  BY <1>1, <1>8, <1>11, ForwardKept
<1>14. CASE Past
  <2>1. Reached
    BY <1>14 DEF Past
  <2>2. /\ up' \in Seq(Unit) /\ Reached' /\ held' \in BOOLEAN
    BY <1>1, <1>2, <1>3, <1>4, <2>1, ReadOn
  <2>3. \A i \in 1..k : r[i][2] # 1
    <3>1. CASE cmds = <<>>
      <4>1. Len(up) = 0
        BY <2>1, <3>1 DEF Reached
      <4> QED
        BY <4>1
    <3>2. CASE cmds # <<>>
      <4>1. /\ Got \in Nat /\ Got >= 1 /\ Len(up) \in Nat
            /\ \A i \in 1..Len(up) : up[i] = <<Newest, Got + i>>
        BY <1>2, <2>1, <3>2, Unread
      <4>2. PICK g \in Nat : g = Got /\ g >= 1
        BY <4>1
      <4>3. \A i \in 1..k : i \in 1..Len(up) /\ g + i # 1
        BY <4>1, <4>2
      <4>4. \A i \in 1..k : up[i] = <<Newest, g + i>>
        BY <4>1, <4>2, <4>3
      <4>5. \A i \in 1..k : r[i][2] = g + i
        BY <1>6, <4>4
      <4> QED
        BY <4>3, <4>5, Zenon
    <3> QED
      BY <3>1, <3>2
  <2>4. b = <<>> \/ (r # <<>> /\ b = SubSeq(r, Len(r), Len(r)))
    BY <1>6, <1>7, <2>3, NothingFound
  <2>5. b \in Seq(Unit) /\ (b # <<>> => b[1][2] # 1)
    <3>1. CASE b = <<>>
      BY <3>1
    <3>2. CASE r # <<>> /\ b = SubSeq(r, Len(r), Len(r))
      <4>1. Len(r) \in 1..Len(r)
        BY <3>2
      <4>2. b \in Seq(Unit) /\ b[1] = r[Len(r)]
        BY <3>2, <4>1, BehindIt
      <4> QED
        BY <1>6, <2>3, <4>1, <4>2
    <3> QED
      BY <2>4, <3>1, <3>2
  <2>6. LinkType'
    BY <1>12, <2>2, <2>5
  <2>7. Past'
    BY <1>1, <1>8, <1>11, <2>2, <2>5 DEF Past
  <2>8. ParserInv'
    BY <1>2, <1>8, <1>11, <2>7 DEF ParserInv
  <2> QED
    BY <1>10, <1>13, <2>6, <2>8 DEF Calm
<1>15. CASE Untouched
  <2>1. PICK l \in Nat, d \in Nat, q \in Seq(Unit), z \in Nat :
          /\ q = up /\ d = done /\ l = Len(up) - done /\ Len(q) = l + d /\ l < Buf /\ d >= 2
          /\ SubSeq(q, l + 1, Len(q)) = Units(z, 0, d) /\ z = Newest
          /\ \A i \in 1..l : q[i][2] # 1
    <3>1. /\ cmds # <<>> /\ Unanswered /\ done <= Len(up) /\ Len(up) - done < Buf
          /\ SubSeq(up, Len(up) - done + 1, Len(up)) = Units(Newest, 0, done)
          /\ \A i \in 1..Len(up) - done : up[i][2] # 1
      BY <1>1, <1>15 DEF Untouched
    <3>2. up \in Seq(Unit) /\ done \in Nat /\ Newest \in Nat
      BY <1>2 DEF LinkType, Newest
    <3>3. PICK l \in Nat : l = Len(up) - done /\ Len(up) = l + done
      <4>1. done <= Len(up) /\ Len(up) \in Nat /\ done \in Nat
        BY <3>1, <3>2
      <4>2. Len(up) - done \in Nat /\ Len(up) = (Len(up) - done) + done
        BY <4>1
      <4> QED
        BY <4>2
    <3>4. done >= 2
      BY <1>2, <3>1, NewestFacts, LinkSizes DEF Unanswered
    <3> QED
      BY <3>1, <3>2, <3>3, <3>4
  <2>2. \A i \in 1..d : q[l + i] = <<z, i>>
    <3>1. PICK nu \in Seq(Unit) : nu = Units(z, 0, d) /\ Len(nu) = d /\ \A i \in 1..d : nu[i] = <<z, i>>
      BY NewUnits
    <3>2. l \in 0..Len(q) /\ Len(q) - l = d
      BY <2>1
    <3>3. \A i \in 1..Len(q) - l : SubSeq(q, l + 1, Len(q))[i] = q[l + i]
      BY <3>2, BackUnits, Zenon
    <3>4. SubSeq(q, l + 1, Len(q)) = nu
      BY <2>1, <3>1, Zenon
    <3>5. \A i \in 1..d : nu[i] = q[l + i]
      BY <3>2, <3>3, <3>4
    <3> QED
      BY <3>1, <3>5, Zenon
  <2>3. PICK j \in 1..d : k = l + j
    <3>1. k \in l + 1..l + d
      <4>1. Len(up) = l + d /\ l < Buf /\ d >= 2
        BY <2>1
      <4>2. k \in 0..l + d /\ k <= Buf /\ (k = Buf \/ k = l + d)
        BY <1>5, <4>1
      <4> QED
        BY <1>3, <4>1, <4>2
    <3> QED
      BY <3>1
  <2>4. /\ \A i \in 1..l : r[i][2] # 1
        /\ \A i \in 1..j : r[l + i] = <<z, i>>
    <3>1. \A i \in 1..l : i \in 1..k
      BY <2>3
    <3>2. \A i \in 1..j : l + i \in 1..k /\ i \in 1..d
      BY <2>3
    <3>3. \A i \in 1..k : r[i] = q[i]
      BY <1>6, <2>1
    <3>4. \A i \in 1..l : r[i] = q[i]
      BY <3>1, <3>3, Zenon
    <3>5. \A i \in 1..j : r[l + i] = q[l + i]
      BY <3>2, <3>3, Zenon
    <3> QED
      BY <2>1, <2>2, <3>2, <3>4, <3>5
  <2>5. b = SubSeq(r, l + 1, Len(r)) /\ l + 1 \in 1..Len(r)
    <3>1. l + 1 \in 1..Len(r) /\ Len(r) = l + j
      BY <1>6, <2>3
    <3>2. r[l + 1] = <<z, 1>>
      BY <2>4
    <3>3. l + 1 + 1 \in 1..Len(r) => r[l + 1 + 1] = <<z, 2>>
      <4>1. l + 1 + 1 \in 1..Len(r) => 2 \in 1..j
        BY <3>1
      <4>2. l + 1 + 1 = l + 2
        OBVIOUS
      <4> QED
        BY <2>4, <4>1, <4>2
    <3>4. \A i \in 1..l + 1 - 1 : r[i][2] # 1
      BY <2>4
    <3>5. PICK m \in 1..Len(r) : m = l + 1
      BY <3>1
    <3>6. /\ \A i \in 1..m - 1 : r[i][2] # 1
          /\ r[m] = <<z, 1>> /\ (m + 1 \in 1..Len(r) => r[m + 1] = <<z, 2>>)
      BY <3>2, <3>3, <3>4, <3>5
    <3>7. lwmp_stream_resync(r) = SubSeq(r, m, Len(r))
      BY <3>6, HeaderFound
    <3> QED
      BY <1>7, <3>1, <3>5, <3>7
  <2>6. b = Units(z, 0, j) /\ b \in Seq(Unit) /\ b # <<>>
    <3>1. l \in 0..Len(r) /\ Len(r) - l = j
      BY <1>6, <2>3
    <3>2. /\ b \in Seq(Unit) /\ Len(b) = Len(r) - l
          /\ \A i \in 1..Len(r) - l : b[i] = r[l + i]
      <4>1. /\ SubSeq(r, l + 1, Len(r)) \in Seq(Unit) /\ Len(SubSeq(r, l + 1, Len(r))) = Len(r) - l
            /\ \A i \in 1..Len(r) - l : SubSeq(r, l + 1, Len(r))[i] = r[l + i]
        BY <3>1, BackUnits, Zenon
      <4> QED
        BY <2>5, <4>1
    <3>3. PICK nu \in Seq(Unit) : nu = Units(z, 0, j) /\ Len(nu) = j /\ \A i \in 1..j : nu[i] = <<z, i>>
      <4>1. j \in Nat
        BY <2>3
      <4> QED
        BY <4>1, NewUnits
    <3>4. Len(b) = Len(nu) /\ \A i \in 1..Len(b) : b[i] = nu[i]
      BY <2>4, <3>1, <3>2, <3>3
    <3>5. b = nu
      BY <3>2, <3>4, SeqEqual
    <3> QED
      BY <3>2, <3>1, <3>3, <3>5
  <2>7. up' \in Seq(Unit) /\ Len(up') = d - j /\ up' = Units(z, j, d)
    <3>1. k \in 0..Len(q) /\ Len(q) - k = d - j /\ j <= d
      BY <2>1, <2>3
    <3>2. up' = SubSeq(q, k + 1, Len(q))
      BY <1>4, <1>5, <2>1 DEF Read
    <3>3. /\ up' \in Seq(Unit) /\ Len(up') = Len(q) - k
          /\ \A i \in 1..Len(q) - k : up'[i] = q[k + i]
      BY <3>1, <3>2, BackUnits
    <3>4. PICK w \in Seq(Unit) : w = up' /\ Len(w) = d - j /\ \A i \in 1..d - j : w[i] = q[k + i]
      BY <3>1, <3>3
    <3>5. \A i \in 1..d - j : w[i] = <<z, j + i>>
      <4> SUFFICES ASSUME NEW i \in 1..d - j
                   PROVE  w[i] = <<z, j + i>>
        OBVIOUS
      <4>1. PICK p \in 1..d : p = j + i /\ k + i = l + p
        BY <2>3
      <4>2. q[l + p] = <<z, p>>
        BY <2>2
      <4>3. w[i] = q[k + i]
        BY <3>4
      <4> QED
        BY <4>1, <4>2, <4>3
    <3>6. w = Units(z, j, d)
      <4>1. j \in Nat /\ j <= d /\ Len(w) = d - j
        BY <2>3, <3>4
      <4> QED
        BY <3>5, <4>1, SameUnits
    <3> QED
      BY <3>4, <3>6
  <2>8. held' = ~RecordEnd(<<z, j>>)
    <3>1. r # <<>> /\ Last(r) = <<z, j>>
      <4>1. Len(r) = l + j /\ j \in 1..j
        BY <1>6, <2>3
      <4>2. r[l + j] = <<z, j>>
        BY <2>4, <4>1
      <4>3. r # <<>>
        BY <4>1
      <4> QED
        BY <4>1, <4>2, <4>3 DEF Last
    <3> QED
      BY <1>4, <1>6, <3>1 DEF Read
  <2>9. Got' = j /\ j >= 1
    BY <1>1, <2>1, <2>7 DEF Got
  <2>10. RecordEnd(<<z, j>>)' = RecordEnd(<<z, j>>)
    BY <1>1 DEF RecordEnd, CmdEnd
  <2>11. cmds # <<>> /\ Unanswered
    BY <1>15 DEF Untouched
  <2>12. Reached'
    <3>1. cmds' # <<>> /\ up' = Units(Newest', Got', done') /\ Got' >= 1
      BY <1>1, <1>9, <2>1, <2>7, <2>9, <2>11
    <3>2. held' <=> ~RecordEnd(<<Newest, Got>>)'
      BY <1>9, <2>1, <2>8, <2>9, <2>10 DEF RecordEnd, CmdEnd
    <3> QED
      BY <3>1, <3>2 DEF Reached, Units
  <2>13. LinkType'
    BY <1>12, <2>6, <2>7, <2>8
  <2>14. InHeader'
    <3>1. Unanswered'
      BY <1>1, <1>9, <2>11 DEF Unanswered
    <3>2. curr'.buf = Units(Newest', 0, Got')
      BY <1>8, <1>9, <2>1, <2>6, <2>9
    <3>3. cmds' # <<>> /\ ~curr'.chunks /\ at' = "in" /\ ~curr'.desync /\ curr'.type = "none"
      BY <1>1, <1>2, <1>8, <1>11, <2>6, <2>11
    <3> QED
      BY <2>12, <3>1, <3>2, <3>3 DEF InHeader, Units
  <2>15. ParserInv'
    BY <1>2, <1>8, <1>11, <2>6, <2>14 DEF ParserInv
  <2> QED
    BY <1>10, <1>13, <2>13, <2>15 DEF Calm
<1>16. ~InHeader /\ ~Accepted
  BY <1>1 DEF InHeader, Accepted
<1> QED
  BY <1>2, <1>14, <1>15, <1>16 DEF ParserInv

-----------------------------------------------------------------------------
(* Headers and bodies. *)

\* The first read of a command of which nothing has been read.
LEMMA ReadFirst ==
    ASSUME LinkType, SendInv, Untouched, ~curr.desync,
           NEW n \in Nat \ {0}, Read(n), done' = done, cmds' = cmds
    PROVE  \E k \in 1..Len(up) :
             /\ k <= n /\ (k = n \/ k = Len(up)) /\ Len(Recv(n)) = k /\ Recv(n) = Units(Newest, 0, k)
             /\ up' \in Seq(Unit) /\ Got' = k /\ Len(up) = done /\ done >= 2
             /\ Reached' /\ held' \in BOOLEAN
             /\ k = Len(up) => ~held'
<1>1. /\ cmds # <<>> /\ done = First /\ Len(up) = done
      /\ SubSeq(up, Len(up) - done + 1, Len(up)) = Units(Newest, 0, done)
  BY DEF Untouched, Unanswered
<1>2. up \in Seq(Unit) /\ done \in Nat /\ done >= 2
  BY <1>1, NewestFacts, LinkSizes DEF LinkType
<1>3. up = Units(Newest, 0, done)
  <2>1. Len(up) - done + 1 = 1
    BY <1>1, <1>2
  <2>2. SubSeq(up, 1, Len(up)) = up
    BY <1>2
  <2> QED
    BY <1>1, <2>1, <2>2
<1>4. PICK k \in 1..Len(up) :
        /\ k <= n /\ (k = n \/ k = Len(up)) /\ Len(Recv(n)) = k
        /\ Recv(n) = Units(Newest, 0, 0 + k)
        /\ up' \in Seq(Unit) /\ Len(up') = Len(up) - k
        /\ 0 + Len(up) = done /\ Got' = 0 + k
        /\ Reached' /\ held' \in BOOLEAN
        /\ k = Len(up) => ~held'
  <2>1. 0 \in Nat /\ 0 < done
    BY <1>2
  <2> QED
    BY <1>1, <1>3, <2>1, ReadSome
<1>5. 0 + k = k
  OBVIOUS
<1> QED
  BY <1>1, <1>2, <1>4, <1>5

\* What is appended to a storage whose first unit is not the first of a
\* command leaves it so, and so does what comes behind that first unit.
LEMMA StillPast ==
    ASSUME NEW q \in Seq(Unit), NEW r \in Seq(Unit), q # <<>> => q[1][2] # 1, q = <<>> /\ r # <<>> => r[1][2] # 1
    PROVE  q \o r # <<>> => (q \o r)[1][2] # 1
<1>1. /\ q \o r \in Seq(Unit) /\ Len(q \o r) = Len(q) + Len(r)
      /\ \A i \in 1..Len(q) : (q \o r)[i] = q[i]
      /\ \A i \in 1..Len(r) : (q \o r)[Len(q) + i] = r[i]
  BY Joined
<1>2. CASE q # <<>>
  <2>1. 1 \in 1..Len(q)
    BY <1>2
  <2> QED
    BY <1>1, <1>2, <2>1
<1>3. CASE q = <<>>
  <2>1. q \o r = r
    BY <1>3, ConcatEmptySeq
  <2> QED
    BY <1>3, <2>1
<1> QED
  BY <1>2, <1>3

LEMMA FirstBehind ==
    ASSUME NEW id \in Nat, NEW a \in Nat, NEW k \in Nat
    PROVE  /\ Units(id, a, a + k) \in Seq(Unit) /\ Len(Units(id, a, a + k)) = k
           /\ Units(id, a, a + k) # <<>> => Units(id, a, a + k)[1] = <<id, a + 1>>
<1>1. PICK b \in Nat : b = a + k
  OBVIOUS
<1>2. PICK q \in Seq(Unit) : q = Units(id, a, b) /\ Len(q) = k /\ \A i \in 1..k : q[i] = <<id, a + i>>
  <2>1. a <= b /\ b - a = k
    BY <1>1
  <2>2. /\ Units(id, a, b) \in Seq(Unit) /\ Len(Units(id, a, b)) = b - a
        /\ \A i \in 1..b - a : Units(id, a, b)[i] = <<id, a + i>>
    BY <2>1, UnitsFacts
  <2> QED
    BY <2>1, <2>2
<1>3. q # <<>> => 1 \in 1..k
  BY <1>2
<1>4. q # <<>> => q[1] = <<id, a + 1>>
  BY <1>2, <1>3
<1> QED
  BY <1>1, <1>2, <1>4

\* A read by a server that has passed the header of the last command.
LEMMA ReadPast ==
    ASSUME LinkType, SendInv, Past, NEW n \in Nat, Read(n), done' = done, cmds' = cmds
    PROVE  \E k \in 0..Len(up) :
             /\ k <= n /\ (k = n \/ k = Len(up)) /\ Len(Recv(n)) = k /\ Recv(n) \in Seq(Unit)
             /\ up' \in Seq(Unit) /\ Reached' /\ held' \in BOOLEAN
             /\ k = Len(up) => ~held'
             /\ curr.buf \o Recv(n) # <<>> => (curr.buf \o Recv(n))[1][2] # 1
<1>1. Reached /\ curr.buf \in Seq(Unit) /\ Newest \in Nat /\ (curr.buf # <<>> => curr.buf[1][2] # 1)
  BY DEF Past, LinkType, Storage, Newest
<1>2. PICK k \in 0..Len(up) :
             /\ k <= n /\ (k = n \/ k = Len(up)) /\ Len(Recv(n)) = k
             /\ Recv(n) = Units(Newest, Got, Got + k)
             /\ up' \in Seq(Unit) /\ Len(up') = Len(up) - k
             /\ Got \in Nat /\ Got + Len(up) = done /\ Got' = Got + k
             /\ Reached' /\ held' \in BOOLEAN
             /\ k = Len(up) => ~held'
  BY <1>1, ReadOn
<1>3. PICK r : r = Recv(n)
  OBVIOUS
<1>4. r \in Seq(Unit) /\ Len(r) = k /\ (r # <<>> => r[1] = <<Newest, Got + 1>>)
  <2>1. k \in Nat
    OBVIOUS
  <2>2. Newest \in Nat /\ Got \in Nat
    BY <1>1, <1>2
  <2>3. /\ Units(Newest, Got, Got + k) \in Seq(Unit) /\ Len(Units(Newest, Got, Got + k)) = k
        /\ Units(Newest, Got, Got + k) # <<>> => Units(Newest, Got, Got + k)[1] = <<Newest, Got + 1>>
    BY <2>1, <2>2, FirstBehind, Zenon
  <2>4. r = Units(Newest, Got, Got + k)
    BY <1>2, <1>3
  <2> QED
    BY <2>3, <2>4
<1>5. r # <<>> => Got + 1 # 1
  <2>1. SUFFICES ASSUME r # <<>>
                 PROVE  Got + 1 # 1
    OBVIOUS
  <2>2. k # 0
    BY <1>4, <2>1
  <2>3. Len(up) # 0
    BY <1>2, <2>2
  <2>4. cmds # <<>>
    BY <1>1, <2>3 DEF Reached
  <2>5. Got >= 1
    BY <1>1, <2>4 DEF Reached
  <2> QED
    BY <1>2, <2>5
<1>6. r # <<>> => r[1][2] # 1
  BY <1>4, <1>5
<1>7. curr.buf \o r # <<>> => (curr.buf \o r)[1][2] # 1
  BY <1>1, <1>4, <1>6, StillPast
<1> QED
  BY <1>2, <1>3, <1>4, <1>7

\* What every step that changes the storage and the stream must keep.
LEMMA StorageStep ==
    ASSUME Calm, Undisturbed, UNCHANGED <<cmds, phase, done, conn, log>>,
           curr' \in Storage, up' \in Seq(Unit), held' \in BOOLEAN, down' \in Seq(Response),
           at' \in {"wait", "in", "lookup"}, ~curr.chunks, ~curr'.chunks
    PROVE  LinkType' /\ SendInv' /\ ForwardInv' /\ RightRecipient' /\ WholeMessages'
           /\ Newest' = Newest /\ Whole' = Whole /\ First' = First
<1>1. LinkType'
  BY DEF Calm, LinkType
<1>2. Newest' = Newest /\ Whole' = Whole /\ First' = First
  BY DEF Newest, Whole, First
<1>3. SendInv'
  BY <1>2 DEF Calm, SendInv
<1>4. ForwardInv' /\ RightRecipient' /\ WholeMessages'
  <2>1. curr'.chunks = curr.chunks /\ conn \subseteq conn'
    BY DEF Calm, LinkType, Storage
  <2> QED
    BY <2>1, ForwardKept
<1> QED
  BY <1>1, <1>2, <1>3, <1>4

LEMMA ReadHeaderStep ==
    ASSUME Calm, Undisturbed, ReadHeader
    PROVE  Calm'
<1> DEFINE n == Hdr - Len(curr.buf)
           b == curr.buf \o Recv(n)
<1>1. /\ at = "in" /\ ~curr.desync /\ ~curr.chunks /\ Len(curr.buf) < Hdr /\ Read(n)
      /\ curr' = [curr EXCEPT !.buf = b]
      /\ at' = IF Len(b) < Hdr THEN "wait" ELSE "in"
      /\ UNCHANGED <<cmds, phase, done, down, conn, faults, log>>
  BY DEF ReadHeader, clientVars, histVars
<1>2. LinkType /\ SendInv /\ ParserInv /\ curr \in Storage /\ curr.buf \in Seq(Unit)
  <2>1. LinkType /\ SendInv /\ ParserInv /\ curr \in Storage
    BY DEF Calm, LinkType
  <2> QED
    BY <2>1 DEF Storage
<1>3. curr.type = "none" /\ curr.exp = 0 /\ curr.total = 0
  <2>1. ~(Len(curr.buf) >= Hdr)
    BY <1>1, <1>2, LinkSizes
  <2> QED
    BY <1>1, <1>2, <2>1 DEF ParserInv
<1>4. PICK c \in Nat, q \in Seq(Unit) : q = curr.buf /\ c = Len(q) /\ c < 2 /\ n = 2 - c
  BY <1>1, <1>2, LinkSizes
<1>5. n \in Nat \ {0}
  BY <1>4
<1>6. Recv(n) \in Seq(Unit)
  BY <1>2, <1>5, RecvSize
<1>7. b \in Seq(Unit) /\ Len(b) = c + Len(Recv(n))
  BY <1>4, <1>6, Joined
<1> HIDE DEF n
<1>8. PICK w \in Seq(Unit) : w = b
  BY <1>7
<1> HIDE DEF b
<1>9. curr' = [curr EXCEPT !.buf = w] /\ curr' \in Storage /\ curr'.buf = w
      /\ \A f \in {"desync", "chunks", "type", "exp", "total", "to"} : curr'[f] = curr[f]
  BY <1>1, <1>2, <1>8 DEF Storage
<1>10. /\ ~curr'.desync /\ ~curr'.chunks /\ curr'.type = "none" /\ curr'.exp = 0 /\ curr'.total = 0
       /\ Need' = Hdr
  BY <1>1, <1>3, <1>9 DEF Need
<1>11. ASSUME up' \in Seq(Unit), held' \in BOOLEAN, Untouched' \/ InHeader' \/ Past'
       PROVE  Calm'
  <2>1. /\ LinkType' /\ SendInv' /\ ForwardInv' /\ RightRecipient' /\ WholeMessages'
    <3>1. down' \in Seq(Response) /\ at' \in {"wait", "in", "lookup"}
      BY <1>1, <1>2 DEF LinkType
    <3> QED
      BY <1>1, <1>9, <1>10, <1>11, <3>1, StorageStep
  <2>2. ParserInv'
    BY <1>10, <1>11 DEF ParserInv
  <2> QED
    BY <2>1, <2>2 DEF Calm
<1>12. ~Accepted
  BY <1>1 DEF Accepted
<1>13. CASE Past
  <2>1. n \in Nat /\ Read(n)
    BY <1>1, <1>5
  <2>2. PICK k \in 0..Len(up) :
             /\ k <= n /\ (k = n \/ k = Len(up)) /\ Len(Recv(n)) = k /\ Recv(n) \in Seq(Unit)
             /\ up' \in Seq(Unit) /\ Reached' /\ held' \in BOOLEAN
             /\ k = Len(up) => ~held'
             /\ curr.buf \o Recv(n) # <<>> => (curr.buf \o Recv(n))[1][2] # 1
    BY <1>1, <1>2, <1>13, <2>1, ReadPast
  <2>3. w # <<>> => w[1][2] # 1
    BY <1>8, <2>2 DEF b
  <2>4. at' = "wait" => ~held' /\ Len(w) < Hdr
    <3>1. SUFFICES ASSUME at' = "wait"
                   PROVE  ~held' /\ Len(w) < Hdr
      OBVIOUS
    <3>2. Len(w) < Hdr /\ Len(w) = c + k
      BY <1>1, <1>7, <1>8, <2>2, <3>1
    <3>3. k # n
      BY <1>4, <3>2, LinkSizes
    <3> QED
      BY <2>2, <3>2, <3>3
  <2>5. Past'
    <3>1. at' # "lookup"
      BY <1>1
    <3> QED
      BY <1>9, <1>10, <2>2, <2>3, <2>4, <3>1 DEF Past
  <2> QED
    BY <1>11, <2>2, <2>5
<1>14. CASE InHeader
  <2>1. /\ cmds # <<>> /\ Unanswered /\ Reached /\ q = Units(Newest, 0, Got)
    BY <1>4, <1>14 DEF InHeader
  <2>2. PICK k \in 0..Len(up) :
             /\ k <= n /\ (k = n \/ k = Len(up)) /\ Len(Recv(n)) = k
             /\ Recv(n) = Units(Newest, Got, Got + k)
             /\ up' \in Seq(Unit) /\ Len(up') = Len(up) - k
             /\ Got \in Nat /\ Got + Len(up) = done /\ Got' = Got + k
             /\ Reached' /\ held' \in BOOLEAN
             /\ k = Len(up) => ~held'
    BY <1>1, <1>2, <1>5, <2>1, ReadOn
  <2>3. PICK g \in Nat : g = Got /\ g >= 1
    BY <2>1, <2>2 DEF Reached
  <2>4. w = Units(Newest, 0, g + k) /\ Newest \in Nat
    <3>1. Newest \in Nat /\ 0 \in Nat /\ g \in Nat /\ g + k \in Nat /\ 0 <= g /\ g <= g + k
      BY <1>2, <2>2 DEF LinkType, Newest
    <3>2. Units(Newest, 0, g) \o Units(Newest, g, g + k) = Units(Newest, 0, g + k)
      BY <3>1, UnitsJoin, ZenonT(40)
    <3>3. w = q \o Recv(n)
      BY <1>4, <1>8 DEF b
    <3>4. q = Units(Newest, 0, g) /\ Recv(n) = Units(Newest, g, g + k)
      BY <2>1, <2>2, <2>3, Zenon
    <3> QED
      BY <3>1, <3>2, <3>3, <3>4
  <2>5. g = c
    <3>1. PICK t \in Seq(Unit) : t = Units(Newest, 0, g) /\ Len(t) = g
      BY <2>3, <2>4, NewUnits
    <3> QED
      BY <1>4, <2>1, <2>3, <3>1
  <2>6. at' = "in"
    <3>1. SUFFICES ASSUME at' # "in"
                   PROVE  FALSE
      OBVIOUS
    <3>2. Len(w) < 2 /\ Len(w) = c + k
      BY <1>1, <1>7, <1>8, <2>2, <3>1, LinkSizes
    <3>3. k # n /\ k = Len(up)
      BY <1>4, <2>2, <3>2
    <3>4. done >= 2
      BY <1>2, <2>1, NewestFacts, LinkSizes DEF Unanswered
    <3>5. g + k = done
      BY <2>2, <2>3, <3>3
    <3> QED
      BY <2>5, <3>2, <3>4, <3>5
  <2>7. Newest' = Newest /\ First' = First /\ Whole' = Whole
    BY <1>1 DEF Newest, First, Whole
  <2>8. InHeader'
    <3>1. Unanswered'
      BY <1>1, <2>1, <2>7 DEF Unanswered
    <3>2. curr'.buf = Units(Newest', 0, Got')
      BY <1>9, <2>2, <2>3, <2>4, <2>7
    <3> QED
      BY <1>1, <1>10, <2>1, <2>2, <2>6, <3>1, <3>2 DEF InHeader, Units
  <2> QED
    BY <1>11, <2>2, <2>8
<1>15. CASE Untouched
  <2>1. PICK k \in 1..Len(up) :
             /\ k <= n /\ (k = n \/ k = Len(up)) /\ Len(Recv(n)) = k /\ Recv(n) = Units(Newest, 0, k)
             /\ up' \in Seq(Unit) /\ Got' = k /\ Len(up) = done /\ done >= 2
             /\ Reached' /\ held' \in BOOLEAN
             /\ k = Len(up) => ~held'
    BY <1>1, <1>2, <1>5, <1>15, ReadFirst
  <2>2. k = n /\ at' = "in" /\ Len(w) = 2
    <3>1. k = n
      BY <1>4, <2>1
    <3>2. Len(w) = 2
      <4>1. Len(Recv(n)) = 2 - c
        BY <1>4, <2>1, <3>1
      <4>2. Len(w) = c + Len(Recv(n))
        BY <1>7, <1>8
      <4> QED
        BY <1>4, <4>1, <4>2
    <3> QED
      BY <1>1, <1>8, <3>1, <3>2, LinkSizes
  <2>3. Newest' = Newest /\ First' = First /\ Whole' = Whole /\ Newest \in Nat
    BY <1>1, <1>2 DEF Newest, First, Whole, LinkType
  <2>4. CASE q = <<>>
    <3>1. w = Units(Newest, 0, k)
      <4>1. PICK r \in Seq(Unit) : r = Recv(n)
        BY <1>6
      <4>2. q \o r = r
        BY <2>4, ConcatEmptySeq
      <4> QED
        BY <1>4, <1>8, <2>1, <4>1, <4>2 DEF b
    <3>2. cmds # <<>> /\ Unanswered
      BY <1>15 DEF Untouched
    <3>3. Unanswered'
      BY <1>1, <2>3, <3>2 DEF Unanswered
    <3>4. curr'.buf = Units(Newest', 0, Got')
      BY <1>9, <2>1, <2>3, <3>1
    <3>5. InHeader'
      BY <1>1, <1>10, <2>1, <2>2, <3>2, <3>3, <3>4 DEF InHeader, Units
    <3> QED
      BY <1>11, <2>1, <3>5
  <2>5. CASE q # <<>>
    <3>1. q[1][2] # 1
      BY <1>1, <1>4, <1>15, <2>5 DEF Untouched
    <3>2. w # <<>> => w[1][2] # 1
      <4>1. q \o Recv(n) # <<>> => (q \o Recv(n))[1][2] # 1
        BY <1>6, <2>5, <3>1, StillPast
      <4> QED
        BY <1>4, <1>8, <4>1 DEF b
    <3>3. Past'
      BY <1>9, <1>10, <2>1, <2>2, <3>2 DEF Past
    <3> QED
      BY <1>11, <2>1, <3>3
  <2> QED
    BY <2>4, <2>5
<1> QED
  BY <1>2, <1>12, <1>13, <1>14, <1>15 DEF ParserInv

LEMMA ParseHeaderStep ==
    ASSUME Calm, Undisturbed, ParseHeader
    PROVE  Calm'
<1>1. PICK f \in Fields(curr.buf) :
        curr' = [curr EXCEPT !.type = f.type, !.to = f.to, !.exp = f.size, !.total = Len(curr.buf) - Hdr]
  BY DEF ParseHeader
<1>2. /\ at = "in" /\ ~curr.desync /\ ~curr.chunks /\ Len(curr.buf) >= Hdr
      /\ curr.type = "none" /\ curr.exp = 0
      /\ UNCHANGED <<cmds, phase, done, up, held, down, at, conn, faults, log>>
  BY DEF ParseHeader, clientVars, netVars, histVars
<1>3. LinkType /\ SendInv /\ ParserInv /\ curr \in Storage
  BY DEF Calm, LinkType
<1>4. PICK q \in Seq(Unit) : q = curr.buf /\ Len(q) >= 2
  <2>1. curr.buf \in Seq(Unit)
    BY <1>3 DEF Storage
  <2> QED
    BY <1>2, <2>1, LinkSizes
<1>5. ~Untouched /\ ~Accepted
  <2>1. Len(q) >= 2 /\ Need = 2
    BY <1>2, <1>4, LinkSizes DEF Need
  <2> QED
    BY <1>2, <1>4, <2>1 DEF Untouched, Accepted
<1>6. ASSUME f \in Commands, Past' \/ InHeader'
      PROVE  Calm'
  <2>1. Len(q) - Hdr \in Nat
    BY <1>4, LinkSizes
  <2>2. /\ curr' \in Storage /\ curr'.type = f.type /\ curr'.type # "none" /\ curr'.buf = q
        /\ ~curr'.chunks /\ ~curr'.desync
    BY <1>1, <1>2, <1>3, <1>4, <1>6, <2>1 DEF Commands, Storage
  <2>3. /\ LinkType' /\ SendInv' /\ ForwardInv' /\ RightRecipient' /\ WholeMessages'
    BY <1>2, <1>3, <2>2, StorageStep DEF LinkType
  <2>4. ParserInv'
    BY <1>4, <1>6, <2>2, LinkSizes DEF ParserInv
  <2> QED
    BY <2>3, <2>4 DEF Calm
<1>7. CASE Past
  <2>1. q # <<>> /\ q[1][2] # 1
    BY <1>4, <1>7 DEF Past
  <2>2. f \in Commands
    <3>1. ~TrueHdr(q)
      BY <2>1 DEF TrueHdr
    <3>2. f \in [type : {"msg"}, to : {NoUser}, size : {0, Buf}]
      BY <1>4, <3>1 DEF Fields
    <3> QED
      BY <3>2, LinkSizes DEF Commands
  <2>3. Past'
    <3>1. Reached'
      BY <1>2, <1>7 DEF Past, Reached, Got, Newest, RecordEnd, CmdEnd, Units
    <3>2. curr'.buf = q /\ ~curr'.chunks /\ at' = "in"
      BY <1>1, <1>2, <1>3, <1>4 DEF Storage
    <3> QED
      BY <2>1, <3>1, <3>2 DEF Past
  <2> QED
    BY <1>6, <2>2, <2>3
<1>8. CASE InHeader
  <2>1. cmds # <<>> /\ Unanswered /\ Reached /\ q = Units(Newest, 0, Got)
    BY <1>4, <1>8 DEF InHeader
  <2>2. PICK g \in Nat : g = Got
    BY <1>3, <2>1, GotFacts
  <2>3. Newest \in Nat /\ cmds[Newest] \in Commands
    BY <1>3, <2>1, NewestFacts
  <2>4. Len(q) = g /\ \A i \in 1..g : q[i] = <<Newest, i>>
    <3>1. PICK nu \in Seq(Unit) : nu = Units(Newest, 0, g) /\ Len(nu) = g /\ \A i \in 1..g : nu[i] = <<Newest, i>>
      BY <2>2, <2>3, NewUnits
    <3> QED
      BY <2>1, <2>2, <3>1
  <2>5. q[1] = <<Newest, 1>> /\ q[2] = <<Newest, 2>>
    <3>1. 1 \in 1..g /\ 2 \in 1..g
      BY <1>4, <2>4
    <3> QED
      BY <2>4, <3>1
  <2>6. f = cmds[Newest]
    <3>1. TrueHdr(q)
      BY <2>5 DEF TrueHdr
    <3> QED
      BY <1>4, <2>5, <3>1 DEF Fields
  <2>7. InHeader'
    <3>1. Reached' /\ Unanswered' /\ Got' = Got /\ Newest' = Newest
      BY <1>2, <2>1 DEF Reached, Unanswered, Got, Newest, RecordEnd, CmdEnd, Units, Whole, First
    <3>2. /\ curr'.buf = q /\ ~curr'.chunks /\ ~curr'.desync
          /\ curr'.type = f.type /\ curr'.to = f.to /\ curr'.exp = f.size /\ curr'.total = Len(q) - Hdr
      BY <1>1, <1>2, <1>3, <1>4 DEF Storage
    <3>3. cmds' # <<>> /\ at' = "in" /\ curr'.buf = Units(Newest', 0, Got')
      BY <1>2, <2>1, <3>1, <3>2
    <3>4. /\ curr'.type = cmds'[Newest'].type /\ curr'.to = cmds'[Newest'].to /\ curr'.exp = cmds'[Newest'].size
          /\ curr'.total = Got' - Hdr
      BY <1>2, <2>2, <2>4, <2>6, <3>1, <3>2
    <3> QED
      BY <3>1, <3>2, <3>3, <3>4 DEF InHeader, Units
  <2> QED
    BY <1>6, <2>3, <2>6, <2>7
<1> QED
  BY <1>3, <1>5, <1>7, <1>8 DEF ParserInv

LEMMA UnitsGrow ==
    ASSUME NEW id \in Nat, NEW a \in Nat, NEW p \in Nat, a <= p
    PROVE  Units(id, 0, a) \o Units(id, a, p) = Units(id, 0, p)
<1>1. 0 \in Nat /\ 0 <= a
  OBVIOUS
<1> QED
  BY <1>1, UnitsJoin, Zenon

LEMMA WantedIs ==
    ASSUME LinkType
    PROVE  /\ Wanted \in Nat /\ Wanted >= 2 /\ Wanted <= Buf /\ Wanted <= Hdr + curr.exp
           /\ Wanted = IF Hdr + curr.exp <= Buf THEN Hdr + curr.exp ELSE Buf
<1>1. PICK e \in Nat : e = Hdr + curr.exp /\ e >= 2
  BY LinkSizes DEF LinkType, Storage
<1>2. Min({e, Buf}) = IF e <= Buf THEN e ELSE Buf
  BY LinkSizes, MinIs
<1>3. PICK m \in Nat : m = IF e <= Buf THEN e ELSE Buf
  BY LinkSizes
<1>4. Wanted = m
  <2>1. Wanted = Min({e, Buf})
    BY <1>1, Zenon DEF Wanted
  <2>2. PICK x : x = Min({e, Buf})
    OBVIOUS
  <2>3. x = m
    BY <1>2, <1>3, <2>2
  <2> QED
    BY <2>1, <2>2, <2>3
<1> QED
  BY <1>1, <1>3, <1>4, LinkSizes

\* A header that has been read whole says what the client sends first.
LEMMA WantedIsFirst ==
    ASSUME LinkType, cmds # <<>>, curr.exp = cmds[Newest].size
    PROVE  Wanted = First
<1>1. PICK z \in Nat : z = cmds[Newest].size
  BY NewestFacts
<1>2. Wanted = IF 2 + z <= Buf THEN 2 + z ELSE Buf
  BY <1>1, WantedIs, LinkSizes
<1>3. Min({z, Payload}) = IF z <= Payload THEN z ELSE Payload
  BY LinkSizes, MinIs
<1>4. PICK m \in Nat : m = IF z <= Payload THEN z ELSE Payload
  BY LinkSizes
<1>5. First = Hdr + m
  <2>1. PICK x : x = Min({z, Payload})
    OBVIOUS
  <2>2. x = m
    BY <1>3, <1>4, <2>1
  <2>3. First = Hdr + x
    BY <1>1, <2>1 DEF First
  <2> QED
    BY <2>2, <2>3
<1> QED
  BY <1>2, <1>4, <1>5, LinkSizes

LEMMA ReadBodyStep ==
    ASSUME Calm, Undisturbed, ReadBody
    PROVE  Calm'
<1> DEFINE n == Wanted - Len(curr.buf)
           r == Recv(n)
<1>1. /\ at = "in" /\ ~curr.desync /\ ~curr.chunks /\ curr.type # "none"
      /\ Len(curr.buf) >= Hdr /\ Len(curr.buf) < Wanted /\ Read(n)
      /\ curr' = [curr EXCEPT !.buf = @ \o r, !.total = @ + Len(r)]
      /\ at' = IF Len(curr.buf) + Len(r) < Wanted THEN "wait" ELSE "in"
      /\ UNCHANGED <<cmds, phase, done, down, conn, faults, log>>
  BY DEF ReadBody, clientVars, histVars
<1>2. LinkType /\ SendInv /\ ParserInv /\ curr \in Storage
  BY DEF Calm, LinkType
<1>3. PICK c \in Nat, q \in Seq(Unit), v \in Nat :
        q = curr.buf /\ c = Len(q) /\ c >= 2 /\ v = Wanted /\ c < v /\ n = v - c
  <2>1. curr.buf \in Seq(Unit) /\ Len(curr.buf) \in Nat
    BY <1>2 DEF Storage
  <2>2. Wanted \in Nat
    BY <1>2, WantedIs
  <2>3. Len(curr.buf) >= 2
    BY <1>1, LinkSizes
  <2> QED
    BY <1>1, <2>1, <2>2, <2>3
<1>4. n \in Nat \ {0}
  BY <1>3
<1> HIDE DEF n
<1>5. PICK s \in Seq(Unit), k \in Nat : s = r /\ k = Len(s)
  BY <1>2, <1>4, RecvSize
<1>6. PICK w \in Seq(Unit) : w = q \o s /\ Len(w) = c + k /\ w # <<>>
  <2>1. q \o s \in Seq(Unit) /\ Len(q \o s) = c + k
    BY <1>3, <1>5, Joined
  <2>2. q \o s # <<>>
    BY <1>3, <1>5, <2>1
  <2> QED
    BY <2>1, <2>2
<1>7. Recv(n) = s
  BY <1>5
<1> HIDE DEF r
<1>8. /\ curr' \in Storage /\ curr'.buf = w /\ curr'.total = curr.total + k
      /\ curr'.desync = curr.desync /\ curr'.chunks = curr.chunks /\ curr'.type = curr.type
      /\ curr'.exp = curr.exp /\ curr'.to = curr.to
      /\ at' = IF c + k < v THEN "wait" ELSE "in"
  <2>1. curr' = [curr EXCEPT !.buf = w, !.total = curr.total + k]
    BY <1>1, <1>2, <1>3, <1>5, <1>6 DEF Storage
  <2>2. curr.total + k \in Nat
    BY <1>2 DEF Storage
  <2> QED
    BY <1>1, <1>2, <1>3, <1>5, <2>1, <2>2 DEF Storage
<1>9. Wanted' = v /\ Need' = v
  BY <1>1, <1>3, <1>8 DEF Wanted, Need
<1>10. ASSUME up' \in Seq(Unit), held' \in BOOLEAN, InHeader' \/ Past'
       PROVE  Calm'
  <2>1. /\ LinkType' /\ SendInv' /\ ForwardInv' /\ RightRecipient' /\ WholeMessages'
    <3>1. down' \in Seq(Response) /\ at' \in {"wait", "in", "lookup"} /\ ~curr'.chunks
      BY <1>1, <1>2, <1>8 DEF LinkType
    <3> QED
      BY <1>1, <1>8, <1>10, <3>1, StorageStep
  <2>2. /\ curr'.type # "none" /\ ~curr'.desync /\ Len(curr'.buf) >= Hdr
    BY <1>1, <1>3, <1>6, <1>8, LinkSizes
  <2>3. ParserInv'
    BY <1>10, <2>2 DEF ParserInv
  <2> QED
    BY <2>1, <2>3 DEF Calm
<1>11. ~Accepted
  BY <1>1 DEF Accepted
\* The header of the last command is gone when the storage begins otherwise.
<1>12. ASSUME q[1][2] # 1, up' \in Seq(Unit), held' \in BOOLEAN, Reached', c + k < v => ~held'
       PROVE  Calm'
  <2>1. w[1] = q[1]
    <3>1. 1 \in 1..Len(q)
      BY <1>3
    <3> QED
      BY <1>6, <3>1, Joined
  <2>2. Past'
    <3>1. ~curr'.chunks /\ at' # "lookup" /\ curr'.buf[1][2] # 1
      BY <1>1, <1>8, <1>12, <2>1
    <3>2. at' = "wait" => ~held' /\ Len(curr'.buf) < Need'
      BY <1>6, <1>8, <1>9, <1>12
    <3> QED
      BY <1>12, <3>1, <3>2 DEF Past
  <2> QED
    BY <1>10, <1>12, <2>2
<1>13. CASE Past
  <2>1. n \in Nat /\ Read(n) /\ q # <<>>
    BY <1>1, <1>3, <1>4
  <2>2. PICK l \in 0..Len(up) :
             /\ l <= n /\ (l = n \/ l = Len(up)) /\ Len(Recv(n)) = l /\ Recv(n) \in Seq(Unit)
             /\ up' \in Seq(Unit) /\ Reached' /\ held' \in BOOLEAN
             /\ l = Len(up) => ~held'
             /\ curr.buf \o Recv(n) # <<>> => (curr.buf \o Recv(n))[1][2] # 1
    BY <1>1, <1>2, <1>13, <2>1, ReadPast
  <2>3. q[1][2] # 1
    BY <1>3, <1>13, <2>1 DEF Past
  <2>4. l = k
    BY <1>5, <1>7, <2>2
  <2>5. c + k < v => ~held'
    BY <1>3, <2>2, <2>4
  <2> QED
    BY <1>12, <2>2, <2>3, <2>5
<1>14. CASE Untouched
  <2>1. PICK l \in 1..Len(up) :
             /\ l <= n /\ (l = n \/ l = Len(up)) /\ Len(Recv(n)) = l /\ Recv(n) = Units(Newest, 0, l)
             /\ up' \in Seq(Unit) /\ Got' = l /\ Len(up) = done /\ done >= 2
             /\ Reached' /\ held' \in BOOLEAN
             /\ l = Len(up) => ~held'
    BY <1>1, <1>2, <1>4, <1>14, ReadFirst
  <2>2. q[1][2] # 1
    <3>1. q # <<>>
      BY <1>3
    <3> QED
      BY <1>1, <1>3, <1>14, <3>1 DEF Untouched
  <2>3. l = k
    BY <1>5, <1>7, <2>1
  <2>4. c + k < v => ~held'
    BY <1>3, <2>1, <2>3
  <2> QED
    BY <1>12, <2>1, <2>2, <2>4
<1>15. CASE InHeader
  <2>1. /\ cmds # <<>> /\ Unanswered /\ Reached /\ q = Units(Newest, 0, Got)
        /\ curr.type = cmds[Newest].type /\ curr.to = cmds[Newest].to /\ curr.exp = cmds[Newest].size
        /\ curr.total = Got - Hdr
    BY <1>1, <1>3, <1>15 DEF InHeader
  <2>2. PICK l \in 0..Len(up) :
             /\ l <= n /\ (l = n \/ l = Len(up)) /\ Len(Recv(n)) = l
             /\ Recv(n) = Units(Newest, Got, Got + l)
             /\ up' \in Seq(Unit) /\ Len(up') = Len(up) - l
             /\ Got \in Nat /\ Got + Len(up) = done /\ Got' = Got + l
             /\ Reached' /\ held' \in BOOLEAN
             /\ l = Len(up) => ~held'
    BY <1>1, <1>2, <1>4, <2>1, ReadOn
  <2>3. PICK g \in Nat : g = Got
    BY <2>2
  <2>4. l = k
    BY <1>5, <1>7, <2>2
  <2>5. w = Units(Newest, 0, g + k) /\ Newest \in Nat
    <3>1. PICK z \in Nat, p \in Nat : z = Newest /\ p = g + k /\ g <= p
      BY <1>2 DEF LinkType, Newest
    <3>2. q = Units(z, 0, g) /\ s = Units(z, g, p)
      BY <1>7, <2>1, <2>2, <2>3, <2>4, <3>1
    <3>3. Units(z, 0, g) \o Units(z, g, p) = Units(z, 0, p)
      BY <3>1, UnitsGrow, ZenonT(40)
    <3>4. q \o s = Units(z, 0, p)
      BY <3>2, <3>3
    <3> QED
      BY <1>6, <3>1, <3>4
  <2>6. g = c
    <3>1. PICK t \in Seq(Unit) : t = Units(Newest, 0, g) /\ Len(t) = g
      BY <2>3, <2>5, NewUnits
    <3> QED
      BY <1>3, <2>1, <2>3, <3>1
  <2>7. at' = "in"
    <3>1. SUFFICES ASSUME c + k < v
                   PROVE  FALSE
      BY <1>8
    <3>2. k = Len(up)
      BY <1>3, <2>2, <2>4, <3>1
    <3>3. c + k = done
      BY <2>2, <2>3, <2>6, <3>2
    <3>4. v = First /\ done = First
      BY <1>2, <1>3, <2>1, WantedIsFirst DEF Unanswered
    <3> QED
      BY <1>3, <3>1, <3>3, <3>4
  <2>8. Newest' = Newest /\ First' = First /\ Whole' = Whole
    BY <1>1 DEF Newest, First, Whole
  <2>9. InHeader'
    <3>1. Unanswered'
      BY <1>1, <2>1, <2>8 DEF Unanswered
    <3>2. curr'.buf = Units(Newest', 0, Got')
      BY <1>8, <2>2, <2>3, <2>4, <2>5, <2>8
    <3>3. /\ curr'.type = cmds'[Newest'].type /\ curr'.to = cmds'[Newest'].to /\ curr'.exp = cmds'[Newest'].size
      BY <1>1, <1>8, <2>1, <2>8
    <3>4. curr'.total = Got' - Hdr
      BY <1>8, <2>1, <2>2, <2>4, LinkSizes
    <3> QED
      BY <1>1, <1>8, <2>1, <2>2, <2>7, <3>1, <3>2, <3>3, <3>4 DEF InHeader, Units
  <2> QED
    BY <1>10, <2>2, <2>9
<1> QED
  BY <1>2, <1>11, <1>13, <1>14, <1>15 DEF ParserInv

-----------------------------------------------------------------------------
(* Validation. *)

LEMMA FirstOfSeven ==
    ASSUME NEW S, S \subseteq 1..7, 7 \in S
    PROVE  Min(S) \in S /\ \A x \in S : Min(S) <= x
<1>1. \A x \in S : x \in {1, 2, 3, 4, 5, 6, 7}
  OBVIOUS
<1>2. \E m \in S : \A x \in S : m <= x
  <2>1. CASE 1 \in S
    BY <1>1, <2>1
  <2>2. CASE 1 \notin S /\ 2 \in S
    BY <1>1, <2>2
  <2>3. CASE 1 \notin S /\ 2 \notin S /\ 3 \in S
    BY <1>1, <2>3
  <2>4. CASE 1 \notin S /\ 2 \notin S /\ 3 \notin S /\ 4 \in S
    BY <1>1, <2>4
  <2>5. CASE 1 \notin S /\ 2 \notin S /\ 3 \notin S /\ 4 \notin S /\ 5 \in S
    BY <1>1, <2>5
  <2>6. CASE 1 \notin S /\ 2 \notin S /\ 3 \notin S /\ 4 \notin S /\ 5 \notin S /\ 6 \in S
    BY <1>1, <2>6
  <2>7. CASE 1 \notin S /\ 2 \notin S /\ 3 \notin S /\ 4 \notin S /\ 5 \notin S /\ 6 \notin S
    BY <1>1, <2>7
  <2> QED
    BY <2>1, <2>2, <2>3, <2>4, <2>5, <2>6, <2>7
<1> QED
  BY <1>2, Zenon DEF Min

\* A PDU whose header is none is refused before anything else is looked at.
LEMMA ValidationIs ==
    ASSUME NEW b, NEW allow \in BOOLEAN
    PROVE  /\ lwmp_validate_hdrs(b, allow) \in Response \ {"LIST"}
           /\ ~TrueHdr(b) => lwmp_validate_hdrs(b, allow) \in {"INVAL_PDU", "INVAL_CRC"}
<1> DEFINE c == cmds[b[1][1]]
           checks == << <<"INVAL_PDU", ~IsMark(b[1])>>,
                        <<"INVAL_CRC", ~TrueHdr(b)>>,
                        <<"DISALLOWED_FILE", c.type = "file" /\ ~allow>>,
                        <<"TOOBIG_FILE", allow /\ c.size > MaxFile>>,
                        <<"TOOBIG_MSG", c.type # "file" /\ c.size > Payload>>,
                        <<"DCONN", c.type # "req" /\ curr.to \notin conn>>,
                        <<"OK", TRUE>> >>
           S == {i \in 1..Len(checks) : checks[i][2]}
<1>1. lwmp_validate_hdrs(b, allow) = checks[Min(S)][1]
  BY DEF lwmp_validate_hdrs
<1>2. /\ checks[1][1] = "INVAL_PDU" /\ checks[2][1] = "INVAL_CRC" /\ checks[3][1] = "DISALLOWED_FILE"
      /\ checks[4][1] = "TOOBIG_FILE" /\ checks[5][1] = "TOOBIG_MSG" /\ checks[6][1] = "DCONN"
      /\ checks[7][1] = "OK"
  OBVIOUS
<1>3. Len(checks) = 7 /\ checks[7][2] = TRUE
  OBVIOUS
<1>4. ~TrueHdr(b) => checks[2][2]
  OBVIOUS
<1> HIDE DEF checks
<1>5. S \subseteq 1..7 /\ 7 \in S /\ (~TrueHdr(b) => 2 \in S)
  BY <1>3, <1>4
<1> HIDE DEF S
<1>6. PICK m \in 1..7 : m = Min(S) /\ (~TrueHdr(b) => m <= 2)
  <2>1. Min(S) \in S /\ \A x \in S : Min(S) <= x
    BY <1>5, FirstOfSeven, Zenon
  <2> QED
    BY <1>5, <2>1
<1>7. m \in {1, 2, 3, 4, 5, 6, 7} /\ (~TrueHdr(b) => m \in {1, 2})
  BY <1>6
<1>8. checks[m][1] \in Response \ {"LIST"} /\ (~TrueHdr(b) => checks[m][1] \in {"INVAL_PDU", "INVAL_CRC"})
  BY <1>2, <1>7 DEF Response
<1> QED
  BY <1>1, <1>6, <1>8

LEMMA ResetIs ==
    ASSUME NEW d \in BOOLEAN
    PROVE  /\ Reset(d) \in Storage /\ Reset(d).desync = d /\ ~Reset(d).chunks /\ Reset(d).type = "none"
           /\ Reset(d).exp = 0 /\ Reset(d).total = 0 /\ Reset(d).buf = <<>>
BY DEF Reset, Storage

\* The server is done with the last command.
LEMMA OverStep ==
    ASSUME Calm, Undisturbed, UNCHANGED <<cmds, phase, done, up, held, conn, log>>, Reached,
           NEW d \in BOOLEAN, curr' = Reset(d), ~curr.chunks,
           down' \in Seq(Response), at' \in {"wait", "in"}, at' = "wait" => d \/ ~held
    PROVE  Calm'
<1>1. /\ curr' \in Storage /\ curr'.desync = d /\ ~curr'.chunks /\ curr'.type = "none"
      /\ curr'.exp = 0 /\ curr'.total = 0 /\ curr'.buf = <<>>
  BY ResetIs
<1>2. LinkType' /\ SendInv' /\ ForwardInv' /\ RightRecipient' /\ WholeMessages'
  BY <1>1, StorageStep DEF Calm, LinkType
<1>3. Reached'
  BY DEF Reached, Got, Newest, RecordEnd, CmdEnd, Units
<1>4. Need' = Hdr /\ Len(curr'.buf) < Need'
  BY <1>1, LinkSizes DEF Need
<1>5. Past'
  BY <1>1, <1>3, <1>4 DEF Past
<1>6. ParserInv'
  BY <1>1, <1>5 DEF ParserInv
<1> QED
  BY <1>2, <1>6 DEF Calm

LEMMA ValidateStep ==
    ASSUME Calm, Undisturbed, NEW allow \in BOOLEAN, Validate(allow)
    PROVE  Calm'
<1> DEFINE v == lwmp_validate_hdrs(curr.buf, allow)
           req == v = "OK" /\ curr.type = "req"
<1>1. /\ at = "in" /\ ~curr.desync /\ ~curr.chunks /\ curr.type # "none" /\ Len(curr.buf) >= Wanted
      /\ down' = down \o (IF req THEN <<"OK", "LIST">> ELSE <<v>>)
      /\ curr' = IF v # "OK" THEN Reset(v = "INVAL_CRC") ELSE IF req THEN AfterPdu(curr) ELSE curr
      /\ at' = IF v = "OK" /\ ~req THEN "lookup" ELSE "in"
      /\ UNCHANGED <<cmds, phase, done, up, held, conn, faults, log>>
  BY DEF Validate, clientVars
<1>2. LinkType /\ SendInv /\ ParserInv /\ curr \in Storage /\ down \in Seq(Response)
  BY DEF Calm, LinkType
<1>3. v \in Response \ {"LIST"} /\ (~TrueHdr(curr.buf) => v \in {"INVAL_PDU", "INVAL_CRC"})
  BY ValidationIs
<1> HIDE DEF v
<1>4. down' \in Seq(Response)
  <2>1. <<"OK", "LIST">> \in Seq(Response) /\ <<v>> \in Seq(Response)
    BY <1>3 DEF Response
  <2> QED
    BY <1>1, <1>2, <2>1
<1>5. ~Untouched /\ ~Accepted
  <2>1. Wanted \in Nat /\ Len(curr.buf) \in Nat
    BY <1>2, WantedIs DEF Storage
  <2>2. ~(Len(curr.buf) < Wanted)
    BY <1>1, <2>1
  <2> QED
    BY <1>1, <2>2 DEF Untouched, Accepted, Need
<1>6. Past \/ InHeader
  BY <1>2, <1>5 DEF ParserInv
<1>7. Reached
  BY <1>6 DEF Past, InHeader
<1>8. CASE v # "OK"
  <2>1. curr' = Reset(v = "INVAL_CRC") /\ at' = "in" /\ (v = "INVAL_CRC") \in BOOLEAN
    BY <1>1, <1>8
  <2> QED
    BY <1>1, <1>4, <1>7, <2>1, OverStep
<1>9. CASE v = "OK"
  <2>1. InHeader
    <3>1. CASE Past
      <4>1. curr.buf # <<>>
        <5>1. Wanted >= 2 /\ Len(curr.buf) >= 2
          BY <1>1, <1>2, WantedIs DEF Storage
        <5> QED
          BY <5>1
      <4>2. ~TrueHdr(curr.buf)
        BY <3>1, <4>1 DEF Past, TrueHdr
      <4> QED
        BY <1>3, <1>9, <4>2
    <3> QED
      BY <1>6, <3>1
  <2>2. /\ cmds # <<>> /\ Unanswered /\ curr.buf = Units(Newest, 0, Got)
        /\ curr.type = cmds[Newest].type /\ curr.to = cmds[Newest].to /\ curr.exp = cmds[Newest].size
        /\ curr.total = Got - Hdr
    BY <1>1, <2>1 DEF InHeader
  <2>3. PICK g \in Nat : g = Got /\ g <= done
    BY <1>2, <1>7, GotFacts
  <2>4. Len(curr.buf) = g
    <3>1. Newest \in Nat
      BY <1>2 DEF LinkType, Newest
    <3>2. PICK t \in Seq(Unit) : t = Units(Newest, 0, g) /\ Len(t) = g
      BY <3>1, NewUnits
    <3> QED
      BY <2>2, <2>3, <3>2
  <2>5. g = First /\ First \in Nat /\ Whole \in Nat /\ First <= Whole /\ Whole = Hdr + curr.exp
    <3>1. Wanted = First /\ First \in Nat /\ Whole \in Nat /\ First <= Whole
      BY <1>2, <2>2, WantedIsFirst, NewestFacts
    <3>2. done = First
      BY <2>2 DEF Unanswered
    <3> QED
      BY <1>1, <2>2, <2>3, <2>4, <3>1, <3>2 DEF Whole
  <2>6. CASE req
    <3>1. curr.exp = 0
      BY <1>2, <2>2, <2>6 DEF SendInv
    <3>2. curr.total = 0
      <4>1. g = 2
        BY <2>5, <3>1, <1>2, <2>2, NewestFacts, LinkSizes
      <4> QED
        BY <2>2, <2>3, <4>1, LinkSizes
    <3>3. curr' = Reset(FALSE) /\ at' = "in"
      BY <1>1, <1>9, <2>6, <3>1, <3>2 DEF AfterPdu
    <3> QED
      BY <1>1, <1>4, <1>7, <3>3, OverStep
  <2>7. CASE ~req
    <3>1. curr' = curr /\ at' = "lookup" /\ down' = down \o <<"OK">>
      BY <1>1, <1>9, <2>7
    <3>2. down' = <<"OK">>
      <4>1. down = <<>>
        BY <2>2 DEF Unanswered
      <4> QED
        BY <3>1, <4>1, ConcatEmptySeq
    <3>3. LinkType' /\ SendInv' /\ ForwardInv' /\ RightRecipient' /\ WholeMessages'
          /\ Newest' = Newest /\ Whole' = Whole /\ First' = First
      <4>1. curr' \in Storage /\ up' \in Seq(Unit) /\ held' \in BOOLEAN /\ ~curr'.chunks
        BY <1>1, <1>2, <3>1 DEF LinkType
      <4> QED
        BY <1>1, <1>4, <3>1, <4>1, StorageStep
    <3>4. Reached' /\ Got' = Got
      BY <1>1, <1>7 DEF Reached, Got, Newest, RecordEnd, CmdEnd, Units
    <3>5. Accepted'
      <4>1. curr.total <= curr.exp
        BY <1>2, <2>2, <2>3, <2>5, LinkSizes DEF Storage
      <4>2. done = Whole \/ phase = "await"
        BY <2>2 DEF Unanswered
      <4>3. curr.type # "req"
        BY <1>9, <2>7
      <4> QED
        BY <1>1, <2>2, <2>3, <2>5, <3>1, <3>2, <3>3, <3>4, <4>1, <4>2, <4>3 DEF Accepted, Units
    <3>6. ParserInv'
      BY <1>1, <1>2, <3>1, <3>5 DEF ParserInv
    <3> QED
      BY <3>3, <3>6 DEF Calm
  <2> QED
    BY <2>6, <2>7
<1> QED
  BY <1>8, <1>9

-----------------------------------------------------------------------------
(* Forwarding. *)

\* Units of the last command are put behind what its recipient has got.
Appending(t, q, a, g) ==
    /\ cmds # <<>> /\ cmds' = cmds /\ conn' = conn
    /\ t \in conn /\ q \in Seq(Unit) /\ a \in Nat /\ g \in Nat \ {0} /\ a <= g
    /\ cmds[Newest].to = t /\ q = Units(Newest, a, g) /\ log' = [log EXCEPT ![t] = @ \o q]
    /\ log[t] # <<>> /\ a = 0 => CmdEnd(Last(log[t]))
    /\ log[t] # <<>> /\ a # 0 => Last(log[t]) = <<Newest, a>>

LEMMA Appended ==
    ASSUME Calm, Undisturbed, NEW t, NEW q, NEW a, NEW g, Appending(t, q, a, g)
    PROVE  /\ log' \in [User -> Seq(Unit)] /\ RightRecipient' /\ WholeMessages'
           /\ \A u \in User : /\ u \notin conn => log'[u] = <<>>
                              /\ \A i \in 1..Len(log'[u]) : log'[u][i][1] \in 1..Newest
           /\ \A u \in User \ {t} : log'[u] = log[u]
           /\ log'[t] # <<>> => Last(log'[t]) = <<Newest, g>>
<1> SUFFICES ASSUME cmds # <<>>, cmds' = cmds, conn' = conn,
                    t \in conn, q \in Seq(Unit), a \in Nat, g \in Nat \ {0}, a <= g,
                    cmds[Newest].to = t, q = Units(Newest, a, g), log' = [log EXCEPT ![t] = @ \o q],
                    log[t] # <<>> /\ a = 0 => CmdEnd(Last(log[t])),
                    log[t] # <<>> /\ a # 0 => Last(log[t]) = <<Newest, a>>
             PROVE  /\ log' \in [User -> Seq(Unit)] /\ RightRecipient' /\ WholeMessages'
                    /\ \A u \in User : /\ u \notin conn => log'[u] = <<>>
                                       /\ \A i \in 1..Len(log'[u]) : log'[u][i][1] \in 1..Newest
                    /\ \A u \in User \ {t} : log'[u] = log[u]
                    /\ log'[t] # <<>> => Last(log'[t]) = <<Newest, g>>
  BY DEF Appending
<1>1. log \in [User -> Seq(Unit)] /\ t \in User /\ Newest \in Nat /\ Newest \in 1..Newest
  <2>1. LinkType
    BY DEF Calm
  <2> QED
    BY <2>1, NewestFacts DEF LinkType, Newest
<1>2. Len(q) = g - a /\ \A i \in 1..g - a : q[i] = <<Newest, a + i>>
  <2>1. PICK z \in Nat : z = Newest
    BY <1>1
  <2>2. q = Units(z, a, g)
    BY <2>1
  <2>0. PICK y \in Nat : y = g
    OBVIOUS
  <2>3. /\ Len(Units(z, a, g)) = g - a
        /\ \A i \in 1..g - a : Units(z, a, g)[i] = <<z, a + i>>
    <3>1. /\ Len(Units(z, a, y)) = y - a
          /\ \A i \in 1..y - a : Units(z, a, y)[i] = <<z, a + i>>
      <4>1. a <= y
        BY <2>0
      <4> HIDE <2>0
      <4> QED
        BY <4>1, UnitsFacts
    <3> QED
      BY <2>0, <3>1
  <2>4. Len(q) = g - a /\ \A i \in 1..g - a : q[i] = <<z, a + i>>
    BY <2>2, <2>3
  <2> QED
    BY <2>1, <2>4
<1>3. PICK p \in Seq(Unit), n \in Nat, l \in Nat, w \in Seq(Unit) :
        p = log[t] /\ n = Len(p) /\ l = g - a /\ w = p \o q
  <2>1. log[t] \in Seq(Unit)
    BY <1>1
  <2>2. PICK p \in Seq(Unit) : p = log[t]
    BY <2>1
  <2>3. p \o q \in Seq(Unit) /\ Len(p) \in Nat /\ g - a \in Nat
    OBVIOUS
  <2> QED
    BY <2>2, <2>3
<1>4. /\ Len(w) = n + l /\ \A i \in 1..n : w[i] = p[i]
      /\ \A i \in 1..l : w[n + i] = <<Newest, a + i>>
  <2>1. /\ Len(w) = Len(p) + Len(q)
        /\ \A i \in 1..Len(p) : w[i] = p[i]
        /\ \A i \in 1..Len(q) : w[Len(p) + i] = q[i]
    BY <1>3, Joined
  <2>2. Len(p) = n /\ Len(q) = l
    BY <1>2, <1>3
  <2>3. \A i \in 1..l : q[i] = <<Newest, a + i>>
    BY <1>2, <1>3
  <2> QED
    BY <2>1, <2>2, <2>3
<1>5. log'[t] = w /\ \A u \in User \ {t} : log'[u] = log[u]
  BY <1>1, <1>3
<1>6. log' \in [User -> Seq(Unit)]
  BY <1>1, <1>3
<1>7. \A i \in 1..n : p[i][1] \in 1..Newest /\ cmds[p[i][1]].to = t
  BY <1>1, <1>3 DEF Calm, ForwardInv, RightRecipient
<1>8. \A i \in 1..n + l : i \in 1..n \/ (i - n \in 1..l /\ n + (i - n) = i)
  OBVIOUS
<1>9. \A i \in 1..Len(w) : w[i][1] \in 1..Newest /\ cmds[w[i][1]].to = t
  <2> SUFFICES ASSUME NEW i \in 1..Len(w)
               PROVE  w[i][1] \in 1..Newest /\ cmds[w[i][1]].to = t
    OBVIOUS
  <2>1. CASE i \in 1..n
    BY <1>4, <1>7, <2>1
  <2>2. CASE i \notin 1..n
    <3>1. PICK j \in 1..l : i = n + j
      BY <1>4, <1>8, <2>2
    <3>2. w[i] = <<Newest, a + j>>
      BY <1>4, <3>1
    <3> QED
      BY <1>1, <3>2
  <2> QED
    BY <2>1, <2>2
<1>10. RightRecipient'
  <2> SUFFICES ASSUME NEW u \in User, NEW i \in 1..Len(log'[u])
               PROVE  cmds[log'[u][i][1]].to = u
    BY DEF RightRecipient
  <2>1. CASE u = t
    BY <1>5, <1>9, <2>1
  <2>2. CASE u # t
    BY <1>5, <2>2 DEF Calm, RightRecipient
  <2> QED
    BY <2>1, <2>2
<1>11. \A u \in User : /\ u \notin conn => log'[u] = <<>>
                       /\ \A i \in 1..Len(log'[u]) : log'[u][i][1] \in 1..Newest
  <2> SUFFICES ASSUME NEW u \in User
               PROVE  /\ u \notin conn => log'[u] = <<>>
                      /\ \A i \in 1..Len(log'[u]) : log'[u][i][1] \in 1..Newest
    OBVIOUS
  <2>1. CASE u = t
    BY <1>5, <1>9, <2>1
  <2>2. CASE u # t
    BY <1>5, <2>2 DEF Calm, ForwardInv
  <2> QED
    BY <2>1, <2>2
<1>12. w # <<>> => Last(w) = <<Newest, g>>
  <2> SUFFICES ASSUME w # <<>>
               PROVE  Last(w) = <<Newest, g>>
    OBVIOUS
  <2>1. Last(w) = w[n + l]
    BY <1>4 DEF Last
  <2>2. CASE l # 0
    <3>1. l \in 1..l /\ a + l = g
      BY <1>3, <2>2
    <3> QED
      BY <1>4, <2>1, <3>1
  <2>3. CASE l = 0
    <3>1. a = g /\ a # 0 /\ n + l = n /\ n # 0
      BY <1>3, <1>4, <2>3
    <3>2. p # <<>> /\ n \in 1..n
      BY <1>3, <3>1
    <3>3. Last(p) = p[n]
      BY <1>3 DEF Last
    <3>4. p[n] = <<Newest, a>>
      BY <1>3, <3>1, <3>2, <3>3
    <3> QED
      BY <1>4, <2>1, <3>1, <3>2, <3>4
  <2> QED
    BY <2>2, <2>3
<1>14. ASSUME NEW i \in 2..Len(w)
       PROVE  IF w[i][2] = 1 THEN CmdEnd(w[i - 1]) ELSE w[i] = <<w[i - 1][1], w[i - 1][2] + 1>>
  <2>1. CASE i <= n
    <3>1. i \in 2..n /\ i \in 1..n /\ i - 1 \in 1..n
      BY <2>1
    <3>2. IF p[i][2] = 1 THEN CmdEnd(p[i - 1]) ELSE p[i] = <<p[i - 1][1], p[i - 1][2] + 1>>
      BY <1>1, <1>3, <3>1 DEF Calm, WholeMessages
    <3> QED
      BY <1>4, <3>1, <3>2
  <2>2. CASE i = n + 1
    <3>1. n \in 1..n /\ i - 1 = n /\ 1 \in 1..l /\ p # <<>>
      BY <1>3, <1>4, <2>2
    <3>2. w[i] = <<Newest, a + 1>> /\ w[i - 1] = p[n] /\ Last(p) = p[n]
      BY <1>3, <1>4, <2>2, <3>1 DEF Last
    <3>3. CASE a = 0
      BY <1>3, <3>1, <3>2, <3>3
    <3>4. CASE a # 0
      <4>1. p[n] = <<Newest, a>> /\ a + 1 # 1
        BY <1>3, <3>1, <3>2, <3>4
      <4> QED
        BY <3>2, <4>1
    <3> QED
      BY <3>3, <3>4
  <2>3. CASE i > n + 1
    <3>1. PICK j \in 2..l : i = n + j
      <4>1. i - n \in 2..l /\ i = n + (i - n)
        BY <1>4, <2>3
      <4> QED
        BY <4>1
    <3>2. j \in 1..l /\ j - 1 \in 1..l /\ i - 1 = n + (j - 1)
      BY <3>1
    <3>3. w[i] = <<Newest, a + j>> /\ w[i - 1] = <<Newest, a + (j - 1)>>
      BY <1>4, <3>1, <3>2
    <3>4. a + j # 1 /\ a + j = a + (j - 1) + 1
      BY <3>1
    <3>5. w[i][2] # 1 /\ w[i][2] = w[i - 1][2] + 1 /\ w[i][1] = w[i - 1][1] /\ w[i] = <<w[i][1], w[i][2]>>
      BY <3>3, <3>4
    <3> QED
      BY <3>5
  <2>4. i \in Int /\ n \in Int
    BY <1>3, <1>4
  <2>5. i <= n \/ i = n + 1 \/ i > n + 1
    BY <2>4
  <2> QED
    BY <2>1, <2>2, <2>3, <2>5
<1>15. WholeMessages'
  <2> SUFFICES ASSUME NEW u \in User, NEW i \in 2..Len(log'[u])
               PROVE  IF log'[u][i][2] = 1 THEN CmdEnd(log'[u][i - 1])
                      ELSE log'[u][i] = <<log'[u][i - 1][1], log'[u][i - 1][2] + 1>>
    <3>1. \A e : CmdEnd(e)' = CmdEnd(e)
      BY DEF CmdEnd
    <3> QED
      BY <3>1 DEF WholeMessages
  <2>1. CASE u = t
    <3>1. log'[u] = w /\ i \in 2..Len(w)
      BY <1>5, <2>1
    <3> QED
      BY <1>14, <3>1
  <2>2. CASE u # t
    BY <1>5, <2>2 DEF Calm, WholeMessages
  <2> QED
    BY <2>1, <2>2
<1> QED
  BY <1>5, <1>6, <1>10, <1>11, <1>12, <1>15

\* The storage is forwarded.
LEMMA Forwarded ==
    ASSUME Calm, Undisturbed, cmds # <<>>, Got \in Nat \ {0}, NEW a \in Nat, a <= Got,
           curr.to \in conn, cmds[Newest].to = curr.to, cmds' = cmds, conn' = conn,
           curr.buf \in Seq(Unit), curr.buf = Units(Newest, a, Got),
           log' = [log EXCEPT ![curr.to] = @ \o curr.buf],
           log[curr.to] # <<>> /\ a = 0 => CmdEnd(Last(log[curr.to])),
           log[curr.to] # <<>> /\ a # 0 => Last(log[curr.to]) = <<Newest, a>>
    PROVE  /\ log' \in [User -> Seq(Unit)] /\ RightRecipient' /\ WholeMessages'
           /\ \A u \in User : /\ u \notin conn => log'[u] = <<>>
                              /\ \A i \in 1..Len(log'[u]) : log'[u][i][1] \in 1..Newest
           /\ \A u \in User \ {curr.to} : log'[u] = log[u]
           /\ log'[curr.to] # <<>> => Last(log'[curr.to]) = <<Newest, Got>>
<1>1. PICK t, q, g : t = curr.to /\ q = curr.buf /\ g = Got
  OBVIOUS
<1>2. Appending(t, q, a, g)
  BY <1>1 DEF Appending
<1>3. /\ log' \in [User -> Seq(Unit)] /\ RightRecipient' /\ WholeMessages'
      /\ \A u \in User : /\ u \notin conn => log'[u] = <<>>
                         /\ \A i \in 1..Len(log'[u]) : log'[u][i][1] \in 1..Newest
      /\ \A u \in User \ {t} : log'[u] = log[u]
      /\ log'[t] # <<>> => Last(log'[t]) = <<Newest, g>>
  BY <1>2, Appended
<1> QED
  BY <1>1, <1>3

LEMMA NoUnits ==
    ASSUME NEW id \in Nat, NEW a \in Nat
    PROVE  a - 0 = a /\ Units(id, a, a) = <<>>
<1>1. PICK q \in Seq(Unit) : q = Units(id, a, a) /\ Len(q) = a - a
  BY UnitsFacts
<1>2. a - a = 0 /\ a - 0 = a
  OBVIOUS
<1>3. q = <<>>
  BY <1>1, <1>2
<1> QED
  BY <1>1, <1>2, <1>3

\* What the storage holds of the last command goes to its recipient.
LEMMA PutStep ==
    ASSUME Calm, Undisturbed, Accepted, UNCHANGED <<cmds, phase, done, up, held, down, conn>>,
           curr.to \in conn, NEW a \in Nat, a <= Got, curr.buf = Units(Newest, a, Got),
           log' = [log EXCEPT ![curr.to] = @ \o curr.buf],
           curr' = AfterPdu([curr EXCEPT !.buf = <<>>]), at' = "in",
           log[curr.to] # <<>> /\ a = 0 => CmdEnd(Last(log[curr.to])),
           log[curr.to] # <<>> /\ a # 0 => Last(log[curr.to]) = <<Newest, a>>
    PROVE  Calm'
<1>1. /\ LinkType /\ SendInv /\ ForwardInv /\ curr \in Storage /\ cmds # <<>>
      /\ Reached /\ curr.to = cmds[Newest].to /\ curr.exp = cmds[Newest].size
      /\ curr.total = Got - Hdr /\ curr.total <= curr.exp /\ curr.type = cmds[Newest].type
      /\ curr.type # "none" /\ curr.buf \in Seq(Unit) /\ ~curr.desync /\ conn \subseteq User
  <2>1. LinkType /\ SendInv /\ ForwardInv /\ curr \in Storage /\ cmds # <<>> /\ conn \subseteq User
    BY DEF Calm, Accepted, LinkType
  <2>2. cmds[Newest] \in Commands
    BY <2>1, NewestFacts
  <2> QED
    BY <2>1, <2>2 DEF Accepted, Storage, Commands
<1>2. Got \in Nat \ {0} /\ Whole \in Nat /\ Whole = Hdr + curr.exp /\ Newest \in Nat
  BY <1>1, GotFacts, NewestFacts DEF Whole
<1>3. /\ Newest' = Newest /\ Got' = Got /\ Whole' = Whole /\ First' = First
      /\ Reached' = Reached /\ \A e : CmdEnd(e)' = CmdEnd(e)
  BY DEF Reached, Got, Newest, RecordEnd, CmdEnd, Units, Whole, First
<1>4. /\ log' \in [User -> Seq(Unit)] /\ RightRecipient' /\ WholeMessages'
      /\ \A u \in User : /\ u \notin conn => log'[u] = <<>>
                         /\ \A i \in 1..Len(log'[u]) : log'[u][i][1] \in 1..Newest
      /\ \A u \in User \ {curr.to} : log'[u] = log[u]
      /\ log'[curr.to] # <<>> => Last(log'[curr.to]) = <<Newest, Got>>
  BY <1>1, <1>2, Forwarded
<1>5. SendInv'
  BY <1>1, <1>3 DEF SendInv
<1>6. \A u \in User \ {curr.to} : log[u] # <<>> => CmdEnd(Last(log[u]))
  BY <1>1 DEF ForwardInv
<1>7. CASE curr.total = curr.exp
  <2>1. curr' = Reset(FALSE)
    BY <1>7 DEF AfterPdu
  <2>2. /\ curr' \in Storage /\ ~curr'.desync /\ ~curr'.chunks /\ curr'.type = "none"
        /\ curr'.exp = 0 /\ curr'.total = 0 /\ curr'.buf = <<>>
    BY <2>1, ResetIs
  <2>3. LinkType'
    BY <1>1, <1>4, <2>2 DEF LinkType
  <2>4. Past'
    BY <1>1, <1>3, <2>2 DEF Past
  <2>5. ParserInv'
    BY <2>2, <2>4 DEF ParserInv
  <2>6. CmdEnd(<<Newest, Got>>)
    BY <1>1, <1>2, <1>7, LinkSizes, RecordEndIs DEF Whole
  <2>7. \A u \in User : log'[u] # <<>> => CmdEnd(Last(log'[u]))
    BY <1>4, <1>6, <2>6
  <2>8. ForwardInv'
    BY <1>3, <1>4, <2>2, <2>7 DEF ForwardInv
  <2> QED
    BY <1>4, <1>5, <2>3, <2>5, <2>8 DEF Calm
<1>8. CASE curr.total # curr.exp
  <2>1. curr' = [curr EXCEPT !.buf = <<>>, !.chunks = TRUE]
    BY <1>8 DEF AfterPdu
  <2>2. /\ curr' \in Storage /\ ~curr'.desync /\ curr'.chunks /\ curr'.type = curr.type
        /\ curr'.exp = curr.exp /\ curr'.total = curr.total /\ curr'.to = curr.to /\ curr'.buf = <<>>
    <3>1. <<>> \in Seq(Unit)
      OBVIOUS
    <3> QED
      BY <1>1, <2>1, <3>1 DEF Storage
  <2>3. LinkType'
    BY <1>1, <1>4, <2>2 DEF LinkType
  <2>4. PICK z \in Nat, g \in Nat \ {0} : z = Newest /\ g = Got
    BY <1>2
  <2>9. Len(curr'.buf) = 0 /\ curr'.buf = Units(z, g - 0, g) /\ g - 0 = g
    BY <2>2, NoUnits
  <2>5. Accepted'
    <3>1. /\ cmds' # <<>> /\ ~curr'.desync /\ curr'.type = cmds'[Newest'].type /\ curr'.type # "req"
          /\ curr'.to = cmds'[Newest'].to /\ curr'.exp = cmds'[Newest'].size
          /\ Reached' /\ curr'.total = Got' - Hdr /\ curr'.total <= curr'.exp
      BY <1>1, <1>3, <2>2 DEF Accepted
    <3>2. \/ done' = Whole'
          \/ phase' = "await" /\ down' = <<"OK">>
          \/ phase' = "chunks" /\ down' = <<>>
      BY <1>3 DEF Accepted
    <3>3. /\ Len(curr'.buf) <= Chunk /\ Len(curr'.buf) < Got'
          /\ curr'.buf = Units(Newest', Got' - Len(curr'.buf), Got')
      <4>1. Len(curr'.buf) <= Chunk /\ Len(curr'.buf) < g
        BY <2>9, LinkSizes
      <4>2. curr'.buf = Units(z, g - Len(curr'.buf), g)
        BY <2>9
      <4> QED
        BY <1>3, <2>4, <4>1, <4>2
    <3> QED
      BY <2>2, <3>1, <3>2, <3>3 DEF Accepted, Units
  <2>6. ParserInv'
    BY <1>1, <2>2, <2>5 DEF ParserInv
  <2>7. ForwardInv'
    <3> SUFFICES ASSUME NEW u \in User
                 PROVE  /\ u \notin conn' => log'[u] = <<>>
                        /\ \A i \in 1..Len(log'[u]) : log'[u][i][1] \in 1..Newest'
                        /\ log'[u] # <<>> =>
                            IF curr'.chunks /\ curr'.to = u THEN Last(log'[u]) = <<Newest', Got' - Len(curr'.buf)>>
                            ELSE CmdEnd(Last(log[u]))'
      BY <1>3, <1>4, <1>6, <2>2 DEF ForwardInv
    <3> QED
      BY <1>3, <1>4, <1>6, <2>2, <2>4, <2>9
  <2> QED
    BY <1>4, <1>5, <2>3, <2>6, <2>7 DEF Calm
<1> QED
  BY <1>7, <1>8

LEMMA LookupStep ==
    ASSUME Calm, Undisturbed, Lookup
    PROVE  Calm'
<1>1. at = "lookup" /\ UNCHANGED <<cmds, phase, done, up, held, conn>>
  BY DEF Lookup, clientVars
<1>2. LinkType /\ SendInv /\ ParserInv /\ ForwardInv /\ down \in Seq(Response)
  BY DEF Calm, LinkType
<1>3. Accepted /\ ~curr.chunks
  BY <1>1, <1>2 DEF ParserInv, Untouched, InHeader, Past, Accepted
<1>4. /\ cmds # <<>> /\ Reached /\ curr.type = cmds[Newest].type /\ curr.to = cmds[Newest].to
      /\ curr.type # "req" /\ Got = First /\ curr.buf = Units(Newest, 0, Got)
  BY <1>3 DEF Accepted
<1>5. curr.to \in User
  BY <1>2, <1>4 DEF SendInv
<1>6. CASE curr.to \in conn /\ at' = "in"
  <2>1. /\ log' = [log EXCEPT ![curr.to] = @ \o curr.buf] /\ down' = down
        /\ curr' = AfterPdu([curr EXCEPT !.buf = <<>>])
    BY <1>6 DEF Lookup
  <2>2. log[curr.to] # <<>> => CmdEnd(Last(log[curr.to]))
    BY <1>2, <1>3, <1>5 DEF ForwardInv
  <2>3. 0 \in Nat /\ 0 <= Got
    BY <1>2, <1>4, GotFacts
  <2> QED
    BY <1>1, <1>3, <1>4, <1>6, <2>1, <2>2, <2>3, PutStep
<1>7. CASE curr.to \notin conn
  <2>1. down' = Append(down, "DCONN") /\ curr' = Reset(FALSE) /\ at' = "wait" /\ log' = log
    BY <1>7 DEF Lookup, Respond
  <2>2. down' \in Seq(Response)
    BY <1>2, <2>1 DEF Response
  <2>3. ~held
    <3>1. RecordEnd(<<Newest, Got>>)
      BY <1>2, <1>4, FirstEnds
    <3> QED
      BY <1>4, <3>1 DEF Reached
  <2> QED
    BY <1>1, <1>3, <1>4, <2>1, <2>2, <2>3, OverStep
<1>8. curr.to \in conn => at' = "in"
  BY DEF Lookup
<1> QED
  BY <1>6, <1>7, <1>8

\* A chunk is complete: as long as the buffer, or the end of the message.
LEMMA ForwardChunkStep ==
    ASSUME Calm, Undisturbed, ForwardChunk
    PROVE  Calm'
<1>1. at = "in" /\ curr.chunks /\ UNCHANGED <<cmds, phase, done, up, held, conn>>
  BY DEF ForwardChunk, clientVars
<1>2. LinkType /\ SendInv /\ ParserInv /\ ForwardInv /\ down \in Seq(Response) /\ curr \in Storage
  BY DEF Calm, LinkType
<1>3. Accepted
  BY <1>1, <1>2 DEF ParserInv, Untouched, InHeader, Past
<1>4. /\ cmds # <<>> /\ Reached /\ curr.type = cmds[Newest].type /\ curr.to = cmds[Newest].to
      /\ curr.type # "req" /\ Len(curr.buf) < Got /\ curr.buf = Units(Newest, Got - Len(curr.buf), Got)
  BY <1>1, <1>3 DEF Accepted
<1>5. curr.to \in User
  BY <1>2, <1>4 DEF SendInv
<1>6. PICK a \in Nat : a = Got - Len(curr.buf) /\ a <= Got /\ a # 0
  <2>1. Got \in Nat /\ Len(curr.buf) \in Nat
    BY <1>2, <1>4, GotFacts DEF Storage
  <2>2. PICK g \in Nat, c \in Nat : g = Got /\ c = Len(curr.buf) /\ c < g
    BY <1>4, <2>1
  <2>3. g - c \in Nat /\ g - c <= g /\ g - c # 0
    BY <2>2
  <2> QED
    BY <2>2, <2>3
<1>7. CASE curr.to \in conn
  <2>1. /\ log' = [log EXCEPT ![curr.to] = @ \o curr.buf] /\ down' = down /\ at' = "in"
        /\ curr' = AfterPdu([curr EXCEPT !.buf = <<>>])
    BY <1>1, <1>7 DEF ForwardChunk
  <2>2. log[curr.to] # <<>> => Last(log[curr.to]) = <<Newest, a>>
    BY <1>1, <1>2, <1>5, <1>6 DEF ForwardInv
  <2>3. curr.buf = Units(Newest, a, Got)
    BY <1>4, <1>6
  <2> QED
    BY <1>1, <1>3, <1>6, <1>7, <2>1, <2>2, <2>3, PutStep
<1>8. CASE curr.to \notin conn
  <2>1. down' = Append(down, "DCONN") /\ curr' = Reset(TRUE) /\ at' = "wait" /\ log' = log
    BY <1>8 DEF ForwardChunk, Respond
  <2>2. /\ curr' \in Storage /\ curr'.desync /\ ~curr'.chunks /\ curr'.type = "none"
        /\ curr'.exp = 0 /\ curr'.total = 0 /\ curr'.buf = <<>>
    BY <2>1, ResetIs
  <2>3. LinkType'
    <3>1. down' \in Seq(Response)
      BY <1>2, <2>1 DEF Response
    <3> QED
      BY <1>1, <1>2, <2>1, <2>2, <3>1 DEF LinkType
  <2>4. SendInv'
    BY <1>1, <1>2 DEF SendInv, Newest, First, Whole
  <2>5. Reached' /\ Newest' = Newest /\ \A e : CmdEnd(e)' = CmdEnd(e)
    BY <1>1, <1>4 DEF Reached, Got, Newest, RecordEnd, CmdEnd, Units
  <2>6. ParserInv'
    <3>1. Past'
      BY <2>1, <2>2, <2>5 DEF Past
    <3> QED
      BY <2>2, <3>1 DEF ParserInv
  <2>7. ForwardInv'
    <3> SUFFICES ASSUME NEW u \in User
                 PROVE  /\ u \notin conn' => log'[u] = <<>>
                        /\ \A i \in 1..Len(log'[u]) : log'[u][i][1] \in 1..Newest'
                        /\ log'[u] # <<>> => CmdEnd(Last(log[u]))'
      BY <2>2 DEF ForwardInv
    <3>1. log[u] # <<>> => CmdEnd(Last(log[u]))
      BY <1>2, <1>8 DEF ForwardInv
    <3> QED
      BY <1>1, <1>2, <2>1, <2>5, <3>1 DEF ForwardInv
  <2>8. RightRecipient' /\ WholeMessages'
    BY <1>1, <2>1, <2>5 DEF Calm, RightRecipient, WholeMessages
  <2> QED
    BY <2>3, <2>4, <2>6, <2>7, <2>8 DEF Calm
<1> QED
  BY <1>7, <1>8

\* What is read of a chunk fits the buffer and the message.
LEMMA RoomIs ==
    ASSUME curr \in Storage, Len(curr.buf) <= Chunk, Room > 0
    PROVE  /\ Room \in Nat \ {0} /\ Room <= curr.exp - curr.total
           /\ Room <= Chunk - Len(curr.buf) /\ curr.total < curr.exp
<1>1. curr.total < curr.exp /\ Room = Min({curr.exp - curr.total, Chunk - Len(curr.buf)})
  BY DEF Room
<1>2. PICK x \in Int, y \in Int : x = curr.exp - curr.total /\ y = Chunk - Len(curr.buf)
  <2>1. Chunk \in Int /\ curr.exp \in Int /\ curr.total \in Int /\ Len(curr.buf) \in Int
    BY LinkSizes DEF Storage
  <2>2. curr.exp - curr.total \in Int /\ Chunk - Len(curr.buf) \in Int
    BY <2>1
  <2> QED
    BY <2>2
<1>3. Min({x, y}) \in {x, y} /\ Min({x, y}) <= x /\ Min({x, y}) <= y
  BY MinOfTwo
<1>4. Room = Min({x, y})
  BY <1>1, <1>2
<1> QED
  BY <1>1, <1>2, <1>3, <1>4

LEMMA ReadChunkStep ==
    ASSUME Calm, Undisturbed, ReadChunk
    PROVE  Calm'
<1> DEFINE r == Recv(Room)
<1>1. /\ at = "in" /\ curr.chunks /\ Room > 0 /\ Read(Room)
      /\ curr' = [curr EXCEPT !.buf = @ \o r, !.total = @ + Len(r)]
      /\ at' = IF Len(r) < Room THEN "wait" ELSE "in"
      /\ UNCHANGED <<cmds, phase, done, down, conn, faults, log>>
  BY DEF ReadChunk, clientVars, histVars
<1>2. LinkType /\ SendInv /\ ParserInv /\ curr \in Storage
  BY DEF Calm, LinkType
<1>3. Accepted
  BY <1>1, <1>2 DEF ParserInv, Untouched, InHeader, Past
<1>4. /\ cmds # <<>> /\ ~curr.desync /\ Reached /\ curr.type # "req"
      /\ curr.type = cmds[Newest].type /\ curr.to = cmds[Newest].to /\ curr.exp = cmds[Newest].size
      /\ curr.total = Got - Hdr /\ Len(curr.buf) <= Chunk /\ Len(curr.buf) < Got
      /\ curr.buf = Units(Newest, Got - Len(curr.buf), Got)
  BY <1>1, <1>3 DEF Accepted
<1>5. /\ Room \in Nat \ {0} /\ Room <= curr.exp - curr.total
      /\ Room <= Chunk - Len(curr.buf) /\ curr.total < curr.exp
  BY <1>1, <1>2, <1>4, RoomIs
<1>6. PICK l \in 0..Len(up) :
           /\ l <= Room /\ (l = Room \/ l = Len(up)) /\ Len(Recv(Room)) = l
           /\ Recv(Room) = Units(Newest, Got, Got + l)
           /\ up' \in Seq(Unit) /\ Len(up') = Len(up) - l
           /\ Got \in Nat /\ Got + Len(up) = done /\ Got' = Got + l
           /\ Reached' /\ held' \in BOOLEAN
           /\ l = Len(up) => ~held'
  BY <1>1, <1>2, <1>4, <1>5, ReadOn
<1>7. PICK n, k, g, z, c, q, s, e, t :
        /\ n = Room /\ k = l /\ g = Got /\ z = Newest /\ c = Len(curr.buf) /\ q = curr.buf /\ s = r
        /\ e = curr.exp /\ t = curr.total
  OBVIOUS
<1>8. q \in Seq(Unit) /\ s \in Seq(Unit) /\ Len(s) = k /\ Len(q) = c /\ s = Recv(Room)
  <2>1. curr.buf \in Seq(Unit)
    BY <1>2 DEF Storage
  <2>2. r \in Seq(Unit)
    BY <1>2, <1>5, RecvSize
  <2> QED
    BY <1>6, <1>7, <2>1, <2>2
<1> HIDE DEF r
<1>9. /\ n \in Nat \ {0} /\ k \in Nat /\ g \in Nat /\ z \in Nat /\ c \in Nat /\ e \in Nat /\ t \in Nat
      /\ k <= n /\ c < g /\ t = g - 2 /\ n <= e - t /\ n <= Chunk - c /\ t < e
  <2>1. z \in Nat /\ c \in Nat /\ e \in Nat /\ t \in Nat
    BY <1>2, <1>7 DEF LinkType, Newest, Storage
  <2>2. n \in Nat \ {0} /\ n <= e - t /\ n <= Chunk - c /\ t < e
    BY <1>5, <1>7
  <2>3. k \in Nat /\ g \in Nat /\ k <= n
    BY <1>6, <1>7
  <2>4. c < g /\ t = g - 2
    BY <1>4, <1>7, LinkSizes
  <2> QED
    BY <2>1, <2>2, <2>3, <2>4
<1>10. PICK a, b, m : a = g - c /\ b = g + k /\ m = c + k
  OBVIOUS
<1>11. /\ a \in Nat /\ b \in Nat /\ a <= g /\ g <= b /\ b - m = a /\ b - m = g - c
       /\ t + k \in Nat /\ t + k = b - 2 /\ t + k <= e /\ (k < n => t + k < e)
       /\ m <= Chunk /\ m < b
  BY <1>9, <1>10, LinkSizes
<1>12. PICK w \in Seq(Unit) : w = q \o s /\ w = Units(z, a, b) /\ Len(w) = m
  <2>1. q = Units(z, a, g) /\ s = Units(z, g, b)
    BY <1>4, <1>6, <1>7, <1>8, <1>10
  <2>2. Units(z, a, g) \o Units(z, g, b) = Units(z, a, b)
    <3>1. z \in Nat /\ a \in Nat /\ g \in Nat /\ b \in Nat /\ a <= g /\ g <= b
      BY <1>9, <1>11
    <3> QED
      BY <3>1, UnitsJoin
  <2>3. q \o s \in Seq(Unit) /\ Len(q \o s) = Len(q) + Len(s)
    BY <1>8, Joined
  <2> QED
    BY <1>8, <1>10, <2>1, <2>2, <2>3
<1>13. /\ curr' \in Storage /\ curr'.buf = w /\ curr'.total = t + k
       /\ curr'.desync = curr.desync /\ curr'.chunks = curr.chunks /\ curr'.type = curr.type
       /\ curr'.exp = curr.exp /\ curr'.to = curr.to
       /\ at' = IF k < n THEN "wait" ELSE "in"
  <2>1. curr' = [curr EXCEPT !.buf = w, !.total = t + k]
    BY <1>1, <1>2, <1>7, <1>8, <1>12 DEF Storage
  <2>2. at' = IF k < n THEN "wait" ELSE "in"
    BY <1>1, <1>7, <1>8
  <2>3. curr \in Storage /\ w \in Seq(Unit) /\ t + k \in Nat
    BY <1>2, <1>11, <1>12
  <2> QED
    BY <2>1, <2>2, <2>3 DEF Storage
<1>14. Newest' = Newest /\ Whole' = Whole /\ First' = First /\ Got' = b
  BY <1>1, <1>6, <1>7, <1>10 DEF Newest, Whole, First
<1>15. LinkType'
  <2>1. at' \in {"wait", "in", "lookup"}
    BY <1>13
  <2> QED
    BY <1>1, <1>2, <1>6, <1>13, <2>1 DEF LinkType
<1>16. SendInv'
  BY <1>1, <1>2, <1>14 DEF SendInv
<1>17. ForwardInv' /\ RightRecipient' /\ WholeMessages'
  <2>1. Got' - Len(curr.buf)' = Got - Len(curr.buf)
    BY <1>7, <1>11, <1>12, <1>13, <1>14
  <2>2. conn \subseteq conn' /\ curr.chunks' = curr.chunks /\ curr.to' = curr.to
    BY <1>1, <1>13
  <2> QED
    BY <1>1, <2>1, <2>2, ForwardKept
<1>18. Accepted'
  <2>1. curr'.total = Got' - Hdr /\ curr'.total <= curr'.exp /\ (k < n => curr'.total < curr'.exp)
    BY <1>7, <1>11, <1>13, <1>14, LinkSizes
  <2>2. Len(curr'.buf) <= Chunk /\ Len(curr'.buf) < Got'
    BY <1>11, <1>12, <1>13, <1>14
  <2>3. curr'.buf = Units(Newest', Got' - Len(curr'.buf), Got')
    <3>1. Got' - Len(curr'.buf) = a
      BY <1>11, <1>12, <1>13, <1>14
    <3> QED
      BY <1>7, <1>12, <1>13, <1>14, <3>1
  <2>4. at' # "lookup" /\ (at' = "wait" => ~held' /\ curr'.total < curr'.exp)
    <3>1. k < n => ~held'
      BY <1>6, <1>7
    <3> QED
      BY <1>13, <2>1, <3>1
  <2>5. \/ done' = Whole'
        \/ phase' = "await" /\ down' = <<"OK">>
        \/ phase' = "chunks" /\ down' = <<>>
    BY <1>1, <1>3, <1>14 DEF Accepted
  <2>6. /\ cmds' # <<>> /\ curr'.type = cmds'[Newest'].type /\ curr'.to = cmds'[Newest'].to
        /\ curr'.exp = cmds'[Newest'].size
    BY <1>1, <1>4, <1>13, <1>14
  <2> QED
    BY <1>1, <1>4, <1>6, <1>13, <2>1, <2>2, <2>3, <2>4, <2>5, <2>6 DEF Accepted, Units
<1>19. ParserInv'
  <2>1. curr'.chunks /\ ~curr'.desync /\ curr'.type # "none"
    BY <1>1, <1>2, <1>4, <1>13 DEF ParserInv
  <2> QED
    BY <1>18, <2>1 DEF ParserInv
<1> QED
  BY <1>15, <1>16, <1>17, <1>19 DEF Calm

-----------------------------------------------------------------------------
(* The invariant. *)

LEMMA LinkInitHolds == LinkInit => LinkInv
<1> SUFFICES ASSUME LinkInit
             PROVE  LinkInv
  OBVIOUS
<1>1. /\ cmds = <<>> /\ phase = "prompt" /\ done = 0 /\ up = <<>> /\ held = FALSE /\ down = <<>>
      /\ curr = Reset(FALSE) /\ at = "wait" /\ conn = User /\ faults = 0
      /\ log = [u \in User |-> <<>>]
  BY DEF LinkInit
<1>2. /\ curr \in Storage /\ ~curr.desync /\ ~curr.chunks /\ curr.type = "none"
      /\ curr.exp = 0 /\ curr.total = 0 /\ curr.buf = <<>>
  BY <1>1, ResetIs
<1>3. LinkType
  <2>1. cmds \in Seq(Commands) /\ up \in Seq(Unit) /\ down \in Seq(Response)
    BY <1>1
  <2>2. \A u \in User : <<>> \in Seq(Unit)
    OBVIOUS
  <2>3. log \in [User -> Seq(Unit)]
    BY <1>1, <2>2
  <2>4. done \in Nat /\ held \in BOOLEAN /\ conn \subseteq User
    BY <1>1
  <2> QED
    BY <1>1, <1>2, <2>1, <2>3, <2>4 DEF LinkType
<1>4. SendInv
  BY <1>1 DEF SendInv
<1>5. Past
  <2>1. Len(curr.buf) < Need
    BY <1>2, LinkSizes DEF Need
  <2> QED
    BY <1>1, <1>2, <2>1 DEF Past, Reached
<1>6. ParserInv
  BY <1>2, <1>5 DEF ParserInv
<1>7. \A u \in User : log[u] = <<>>
  BY <1>1
<1>8. ForwardInv /\ RightRecipient /\ WholeMessages
  BY <1>7 DEF ForwardInv, RightRecipient, WholeMessages
<1> QED
  BY <1>1, <1>3, <1>4, <1>6, <1>8 DEF LinkInv

\* What disturbs the connection is counted; nothing else changes the count.
LEMMA Counted ==
    ASSUME LinkNext \/ UNCHANGED linkVars
    PROVE  faults' = faults \/ (faults' = faults + 1 /\ (await_timeout \/ ReadFails \/ Notice))
<1>1. CASE await_timeout \/ ReadFails \/ Notice
  BY <1>1 DEF await_timeout, ReadFails, Notice
<1>2. CASE UNCHANGED linkVars
  BY <1>2 DEF linkVars
<1>3. CASE \E u \in User : cmd_msg(u) \/ \E n \in FileSize : cmd_sendfile(u, n)
  BY <1>3 DEF cmd_msg, cmd_sendfile, Send
<1>4. CASE cmd_userlist
  BY <1>4 DEF cmd_userlist, Send
<1>5. CASE \E k \in 1..Len(down) : print_server_resp(k) \/ await_resp(k)
  BY <1>5 DEF print_server_resp, await_resp
<1>6. CASE \E k \in 0..Len(down) : SendChunk(k)
  BY <1>6 DEF SendChunk
<1>7. CASE wt_handle_clientevent \/ Resync \/ ReadHeader \/ ParseHeader \/ ReadBody
  BY <1>7 DEF wt_handle_clientevent, Resync, ReadHeader, ParseHeader, ReadBody
<1>8. CASE (\E allow \in BOOLEAN : Validate(allow)) \/ Lookup \/ ReadChunk \/ ForwardChunk
  BY <1>8 DEF Validate, Lookup, ReadChunk, ForwardChunk
<1>9. CASE \E u \in User : Leave(u) \/ Return(u)
  BY <1>9 DEF Leave, Return, histVars
<1> QED
  BY <1>1, <1>2, <1>3, <1>4, <1>5, <1>6, <1>7, <1>8, <1>9 DEF LinkNext, Client, Handler

LEMMA StutterStep ==
    ASSUME Calm, Undisturbed, UNCHANGED linkVars
    PROVE  Calm'
<1>1. UNCHANGED <<cmds, phase, done, up, held, down, curr, at, conn, log>>
  BY DEF linkVars, clientVars, netVars, histVars
<1>2. LinkType'
  BY <1>1 DEF Calm, LinkType
<1>3. SendInv' /\ ParserInv'
  BY <1>1, SameStages DEF Calm
<1>4. ForwardInv' /\ RightRecipient' /\ WholeMessages'
  <2>1. Got' - Len(curr.buf)' = Got - Len(curr.buf) /\ conn \subseteq conn'
    BY <1>1 DEF Got
  <2> QED
    BY <1>1, <2>1, ForwardKept
<1> QED
  BY <1>2, <1>3, <1>4 DEF Calm

LEMMA CalmStep ==
    ASSUME Patient, Calm, Undisturbed, LinkNext \/ UNCHANGED linkVars, faults' = faults, faults \in Nat
    PROVE  Calm'
<1>1. ~await_timeout /\ ~ReadFails /\ ~Notice
  BY DEF await_timeout, ReadFails, Notice
<1>2. CASE UNCHANGED linkVars
  BY <1>2, StutterStep
<1>3. CASE (\E u \in User : cmd_msg(u) \/ \E n \in FileSize : cmd_sendfile(u, n)) \/ cmd_userlist
  BY <1>3, CommandsStep
<1>4. CASE \E k \in 1..Len(down) : print_server_resp(k) \/ await_resp(k)
  BY <1>4, ProcessStep
<1>5. CASE \E k \in 0..Len(down) : SendChunk(k)
  BY <1>5, ChunkSent
<1>6. CASE wt_handle_clientevent
  BY <1>6, WakeStep
<1>7. CASE Resync
  BY <1>7, ResyncStep
<1>8. CASE ReadHeader
  BY <1>8, ReadHeaderStep
<1>9. CASE ParseHeader
  BY <1>9, ParseHeaderStep
<1>10. CASE ReadBody
  BY <1>10, ReadBodyStep
<1>11. CASE \E allow \in BOOLEAN : Validate(allow)
  BY <1>11, ValidateStep
<1>12. CASE Lookup
  BY <1>12, LookupStep
<1>13. CASE ReadChunk
  BY <1>13, ReadChunkStep
<1>14. CASE ForwardChunk
  BY <1>14, ForwardChunkStep
<1>15. CASE \E u \in User : Leave(u) \/ Return(u)
  <2>1. ASSUME NEW u \in User, Leave(u)
        PROVE  Calm'
    BY <2>1, LeaveStep
  <2>2. ASSUME NEW u \in User, Return(u)
        PROVE  Calm'
    <3>1. u \in User \ conn
      BY <2>2 DEF Return
    <3> QED
      BY <2>2, <3>1, ReturnStep
  <2> QED
    BY <1>15, <2>1, <2>2
<1> QED
  BY <1>1, <1>2, <1>3, <1>4, <1>5, <1>6, <1>7, <1>8, <1>9, <1>10, <1>11, <1>12, <1>13, <1>14, <1>15
     DEF LinkNext, Client, Handler

LEMMA LinkNextHolds ==
    ASSUME Patient
    PROVE  LinkInv /\ [LinkNext]_linkVars => LinkInv'
<1> SUFFICES ASSUME LinkInv, [LinkNext]_linkVars
             PROVE  LinkInv'
  OBVIOUS
<1>1. faults \in Nat /\ (Undisturbed => Calm)
  BY DEF LinkInv, Calm
<1>2. faults' \in Nat /\ (Undisturbed' => Undisturbed /\ faults' = faults)
  BY <1>1, Counted DEF Undisturbed
<1>3. Undisturbed' => Calm'
  BY <1>1, <1>2, CalmStep
<1> QED
  BY <1>2, <1>3 DEF LinkInv, Calm

\* Of a patient user's commands the server knows, at every moment nothing has
\* disturbed the connection, how much it has read, and parser, stream and
\* recipients' queues agree on it.
THEOREM LinkInvariance ==
    ASSUME Patient
    PROVE  LinkSpec => []LinkInv
<1>1. LinkInv /\ [LinkNext]_linkVars => LinkInv'
  BY LinkNextHolds
<1> QED
  BY <1>1, LinkInitHolds, PTL DEF LinkSpec

\* wt_handle_inbound_data: what a worker enqueues to a recipient was addressed to
\* that recipient, however the stream was cut into reads, refused and searched.
THEOREM ForRightRecipient ==
    ASSUME Patient
    PROVE  LinkSpec => []RightRecipient
<1>1. LinkInv => RightRecipient
  BY DEF LinkInv, RightRecipient
<1> QED
  BY <1>1, LinkInvariance, PTL

\* wt_handle_inbound_data: a recipient that stays gets accepted messages whole.
THEOREM MessagesWhole ==
    ASSUME Patient
    PROVE  LinkSpec => []WholeMessages
<1>1. LinkInv => WholeMessages
  BY DEF LinkInv, WholeMessages
<1> QED
  BY <1>1, LinkInvariance, PTL

=============================================================================
