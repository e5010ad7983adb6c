------------------------------- MODULE Client -------------------------------
(***************************************************************************)
(* The command client as a receiver: its event loop (client/client.c,       *)
(* client/clio.c), the life of its connection (connect, register, delete_   *)
(* account, disconnect and quit of client/clcmd.c, client/clnet.c) and what *)
(* it makes of the stream from the server (client/clrecv.c): messages, user *)
(* lists, responses, and files of several senders at the same time.         *)
(*                                                                          *)
(* The stream is a sequence of units <<i, pos>>, position pos of the i-th   *)
(* item the server has sent on this connection: a PDU or a chunk.  Items    *)
(* are whole and in order (Delivery), so the client is never out of step.   *)
(* But a file need not begin with its first PDU: the server may have flushed *)
(* that, or have forwarded it to an earlier session of the user.            *)
(* What it sends is in Link.                                                *)
(***************************************************************************)
EXTENDS Integers, Sequences, SequencesExt, FiniteSetsExt

CONSTANTS
    Sender,     \* users who send to this one
    None,
    Slots,      \* MAX_ACTIVE_TRANSFERS
    RecvBuf,    \* RECV_BUF_SIZE, in units
    ListSize,   \* units of a user list
    FileParts,  \* a file is its first PDU and FileParts - 1 chunks
    use_tls,    \* the connection is TLS, not plain TCP
    MaxItems    \* bound: items on a connection

ASSUME ClientAssumption ==
    /\ None \notin Sender
    /\ {Slots, RecvBuf, ListSize, FileParts} \subseteq Nat \ {0}
    /\ MaxItems \in Nat
    /\ use_tls \in BOOLEAN

VARIABLES
    state,      \* ctx->state
    sock,       \* connection.sock_fd is open, and in the epoll set
    pc,         \* main loop, clrecv_parse, do_auth or the end
    batch,      \* events epoll_wait has reported and that are not handled yet
    in, hup,    \* units not yet read; the server has closed the connection
    mid,        \* OpenSSL holds the rest of a record it has decrypted
    buf,        \* recv_buf
    slot,       \* transfers: None, or [from, got] with the items it has written
    items,      \* the items of this connection: [type, from, file, part]
    parsed,     \* number of items processed
    sending,    \* per sender: the next part of the file it is sending, or 0
    file,       \* per sender: the number of its last file, on this connection
    saved,      \* history: the last file reported as received, or None
    full        \* history: a read stopped because recv_buf was full

serverVars == <<in, hup, mid, items, sending, file>>
recvVars == <<buf, slot, parsed, saved, full>>
vars == <<state, sock, pc, batch, serverVars, recvVars>>

Init ==
    /\ state = "DISCONNECTED" /\ sock = FALSE
    /\ pc = "loop" /\ batch = {}
    /\ in = <<>> /\ hup = FALSE /\ mid = FALSE /\ items = <<>>
    /\ sending = [s \in Sender |-> 0] /\ file = [s \in Sender |-> 0]
    /\ buf = <<>> /\ slot = [i \in 1..Slots |-> None]
    /\ parsed = 0 /\ saved = None /\ full = FALSE

-----------------------------------------------------------------------------
(* The server *)

Size(it) == CASE it.type = "list" -> ListSize [] it.type = "info" -> 1 [] OTHER -> 2
End(u) == u[2] = Size(items[u[1]])

Transmit(it) ==
    /\ state = "CONNECTED" /\ ~hup /\ Len(items) < MaxItems
    /\ items' = Append(items, it)
    /\ in' = in \o [p \in 1..Size(it) |-> <<Len(items) + 1, p>>]
    /\ UNCHANGED <<state, sock, pc, batch, hup, mid, recvVars>>

Item(t, s, f, n) == [type |-> t, from |-> s, file |-> f, part |-> n]

Other == (Transmit(Item("list", None, 0, 0)) \/ Transmit(Item("info", None, 0, 0)))
         /\ UNCHANGED <<sending, file>>

\* The sender may have left in the middle of its last file and be back before
\* anybody looked it up.
FirstPdu(s) ==
    /\ Transmit(Item("file", s, file[s] + 1, 1))
    /\ file' = [file EXCEPT ![s] = @ + 1]
    /\ sending' = [sending EXCEPT ![s] = IF FileParts = 1 THEN 0 ELSE 2]

NextChunk(s) ==
    /\ sending[s] # 0
    /\ Transmit(Item("chunk", s, file[s], sending[s]))
    /\ sending' = [sending EXCEPT ![s] = IF @ = FileParts THEN 0 ELSE @ + 1]
    /\ UNCHANGED file

\* The sender of a queued item is not found: the notice about it, which names
\* nobody, and the flush of what is queued in its name.  If the sender is back
\* by then the flush takes the beginning of its new file, and the rest follows.
Depart(s) ==
    /\ Transmit(Item("info", None, 0, 0))
    /\ \/ sending' = [sending EXCEPT ![s] = 0] /\ UNCHANGED file
       \/ \E n \in 2..FileParts :
            /\ sending' = [sending EXCEPT ![s] = n]
            /\ file' = [file EXCEPT ![s] = @ + 1]

HangUp ==
    /\ state = "CONNECTED" /\ ~hup
    /\ hup' = TRUE
    /\ sending' = [s \in Sender |-> 0]
    /\ UNCHANGED <<state, sock, pc, batch, in, mid, items, file, recvVars>>

-----------------------------------------------------------------------------
(* The event loop *)

\* What OpenSSL has already decrypted does not make the socket readable.
Readable ==
    /\ sock
    /\ \/ hup
       \/ in # <<>> /\ (use_tls /\ mid => \E i \in 1..Len(in) - 1 : End(in[i]))

epoll_wait ==
    /\ pc = "loop" /\ batch = {}
    /\ batch' \in (SUBSET {"stdin", "sock"}) \ {{}}
    /\ ("sock" \in batch') = Readable
    /\ UNCHANGED <<state, sock, pc, serverVars, recvVars>>

\* rl_callback_read_char: a key, or a line that is no command of those below.
clio_on_stdin ==
    /\ pc = "loop" /\ "stdin" \in batch
    /\ batch' = batch \ {"stdin"}
    /\ UNCHANGED <<state, sock, pc, serverVars, recvVars>>

\* cmd_connect up to do_auth.  Without success nothing has changed.
cmd_connect ==
    /\ pc = "loop" /\ "stdin" \in batch
    /\ state = "DISCONNECTED"
    /\ batch' = batch \ {"stdin"}
    /\ pc' = "auth" /\ sock' = TRUE
    /\ in' = <<>> /\ hup' = FALSE /\ mid' = FALSE /\ items' = <<>>
    /\ UNCHANGED <<state, sending, file, recvVars>>

\* A sender may be in the middle of a file it began to send to an earlier
\* session of this user: the rest is forwarded by name.
Midway == [Sender -> {0} \cup 2..FileParts]

\* do_auth waits for the response, or until the server closes: its own time
\* limit of 5 s only makes recv_all ask again.
do_auth(ok) ==
    /\ pc = "auth"
    /\ pc' = "loop"
    /\ state' = IF ok THEN "CONNECTED" ELSE state
    /\ sock' = ok
    /\ buf' = IF ok THEN <<>> ELSE buf
    /\ parsed' = 0
    /\ IF ok THEN sending' \in Midway ELSE UNCHANGED sending
    /\ UNCHANGED <<batch, in, hup, mid, items, file, slot, saved, full>>

\* register and delete_account use a connection of their own and keep the loop
\* waiting until the server has answered or closed it.
cmd_register ==
    /\ pc = "loop" /\ "stdin" \in batch
    /\ batch' = batch \ {"stdin"}
    /\ UNCHANGED <<state, sock, pc, serverVars, recvVars>>

\* Mutant: the transfers stay open.
close_all_transfers_None == UNCHANGED slot

close_all_transfers == slot' = [i \in 1..Slots |-> None]

\* cmd_disconnect, and the same sequence in clrecv_fill and at the end of main.
Disconnected ==
    /\ state' = "DISCONNECTED" /\ sock' = FALSE
    /\ buf' = <<>> /\ parsed' = 0
    /\ close_all_transfers
    /\ in' = <<>> /\ mid' = FALSE /\ hup' = FALSE /\ items' = <<>>
    /\ sending' = [s \in Sender |-> 0] /\ file' = [s \in Sender |-> 0]
    /\ full' = FALSE /\ saved' = None

cmd_disconnect ==
    /\ pc = "loop" /\ "stdin" \in batch /\ state = "CONNECTED"
    /\ batch' = batch \ {"stdin"}
    /\ UNCHANGED pc
    /\ Disconnected

\* quit, or the end of the input; the rest of the batch is still handled.
cmd_quit ==
    /\ pc = "loop" /\ "stdin" \in batch
    /\ batch' = {}
    /\ pc' = "exited"
    /\ Disconnected

-----------------------------------------------------------------------------
(* The socket *)

\* clrecv_fill until there is no more or recv_buf is full; then clrecv_parse.
Fill(n) ==
    /\ pc = "loop" /\ "sock" \in batch /\ sock
    /\ n = Min({RecvBuf - Len(buf), Len(in)})
    /\ ~(hup /\ n = Len(in) /\ n < RecvBuf - Len(buf))
    /\ batch' = batch \ {"sock"}
    /\ buf' = buf \o SubSeq(in, 1, n)
    /\ in' = SubSeq(in, n + 1, Len(in))
    /\ mid' = IF n = 0 THEN mid ELSE ~End(in[n])
    /\ full' = (full \/ Len(in) > n)
    /\ pc' = "parse"
    /\ UNCHANGED <<state, sock, hup, items, sending, file, slot, parsed, saved>>

\* The end of the stream is read in the same loop: what came before it and was
\* not yet parsed is dropped.
FillHup ==
    /\ pc = "loop" /\ "sock" \in batch /\ sock
    /\ hup /\ Len(in) < RecvBuf - Len(buf)
    /\ batch' = batch \ {"sock"}
    /\ UNCHANGED pc
    /\ Disconnected

\* The event is older than the command that closed the socket.  recv fails;
\* SSL_read of a NULL connection fails or ends the process.
StaleEvent ==
    /\ pc = "loop" /\ "sock" \in batch /\ ~sock
    /\ batch' = batch \ {"sock"}
    /\ pc' \in (IF use_tls THEN {"loop", "exited"} ELSE {"loop"})
    /\ Disconnected

\* Mutant: any active transfer will do.
find_transfer_Any(s) ==
    {i \in 1..Slots : slot[i] # None}

find_transfer(s) == {i \in 1..Slots : slot[i] # None /\ slot[i].from = s}

alloc_transfer(sl) == {i \in 1..Slots : sl[i] = None}

Save(s, got) == saved' = [from |-> s, got |-> got]

\* slot without the transfer that a new file of s replaces.
Replaced(s) == [i \in 1..Slots |-> IF i \in find_transfer(s) THEN None ELSE slot[i]]

\* process_received_pdu of the first PDU of a file.
process_file(it, opens) ==
    LET sl == Replaced(it.from)
        free == alloc_transfer(sl)
    IN  \/ /\ free = {} \/ ~opens
           /\ slot' = sl
           /\ UNCHANGED saved
        \/ /\ free # {} /\ opens
           /\ IF FileParts = 1
              THEN slot' = sl /\ Save(it.from, <<parsed + 1>>)
              ELSE /\ slot' = [sl EXCEPT ![Min(free)] = [from |-> it.from, got |-> <<parsed + 1>>]]
                   /\ UNCHANGED saved

\* All that was written belongs to the file that was announced.
OneFile(got) == \A n \in 1..Len(got) : items[got[n]].file = items[got[1]].file

\* A transfer is complete when as many bytes were written as announced: with the
\* last part, if all are its own, and sooner or later otherwise.
process_chunk(it, enough) ==
    LET f == find_transfer(it.from)
        i == Min(f)
        got == Append(slot[i].got, parsed + 1)
        done == IF OneFile(got) THEN Len(got) >= FileParts ELSE enough
    IN  IF f = {} THEN UNCHANGED <<slot, saved>>
        ELSE IF done
             THEN slot' = [slot EXCEPT ![i] = None] /\ Save(slot[i].from, got)
             ELSE slot' = [slot EXCEPT ![i].got = got] /\ UNCHANGED saved

\* Mutant: an item is only taken when more has followed it.
Complete_Late == buf # <<>> /\ Len(buf) > Size(items[parsed + 1])

Complete == buf # <<>> /\ Len(buf) >= Size(items[parsed + 1])

\* opens: the file of a first PDU can be created.  enough: see process_chunk.
clrecv_parse(opens, enough) ==
    LET it == items[parsed + 1]
    IN  /\ pc = "parse" /\ Complete
        /\ buf' = SubSeq(buf, Size(it) + 1, Len(buf))
        /\ parsed' = parsed + 1
        /\ CASE it.type = "file" -> process_file(it, opens)
             [] it.type = "chunk" -> process_chunk(it, enough)
             [] OTHER -> UNCHANGED <<slot, saved>>
        /\ UNCHANGED <<state, sock, pc, batch, serverVars, full>>

parse_done ==
    /\ pc = "parse" /\ ~Complete
    /\ pc' = "loop"
    /\ UNCHANGED <<state, sock, batch, serverVars, recvVars>>

-----------------------------------------------------------------------------
handle_socket_data == (\E n \in 0..RecvBuf : Fill(n)) \/ FillHup \/ StaleEvent

Loop ==
    \/ epoll_wait \/ handle_socket_data \/ parse_done
    \/ \E b, e \in BOOLEAN : clrecv_parse(b, e)
    \/ \E ok \in BOOLEAN : do_auth(ok)
    \/ clio_on_stdin

Command == cmd_connect \/ cmd_register \/ cmd_disconnect \/ cmd_quit

Server == Other \/ HangUp \/ \E s \in Sender : FirstPdu(s) \/ NextChunk(s) \/ Depart(s)

Next == Loop \/ Command \/ Server

\* The loop runs, and the server answers an authentication or closes it at its
\* deadline.  Nobody has to send or to type anything.
Spec == Init /\ [][Next]_vars /\ WF_vars(Loop)

-----------------------------------------------------------------------------
(* Properties *)

\* The first PDU of file f of sender s is not among the items 1..n.
NoFirst(its, s, f, n) ==
    \A j \in 1..n : ~(its[j].type = "file" /\ its[j].from = s /\ its[j].file = f)

\* A chunk of a file whose beginning has not reached the client.
Headless(its, i) == NoFirst(its, its[i].from, its[i].file, i)

\* What a transfer of sender s has written: from the first PDU of a file on, its
\* parts, each once and in order, and after them at most chunks of the same
\* sender that came without a first PDU of their own.
Written(its, s, got) ==
    /\ \A n \in 1..Len(got) : its[got[n]].from = s
    /\ its[got[1]].type = "file"
    /\ \A n \in 1..Len(got) : \/ its[got[n]].file = its[got[1]].file /\ its[got[n]].part = n
                             \/ Headless(its, got[n])

\* A file the client reports as received has the parts of one file of one
\* sender, all of them, also when senders interleave, leave in the middle of a
\* file and come back with another; unless the sender has come back with a file
\* whose first PDU the server has flushed or sent elsewhere.
FilesWhole ==
    saved # None =>
        /\ Written(items, saved.from, saved.got)
        /\ Len(saved.got) = FileParts \/ \E n \in 1..Len(saved.got) : Headless(items, saved.got[n])

\* The unconditional form, which the code does not guarantee.
FilesAlwaysWhole ==
    saved # None => /\ Len(saved.got) = FileParts
                    /\ \A n \in 1..FileParts : /\ items[saved.got[n]].from = saved.from
                                               /\ items[saved.got[n]].file = items[saved.got[1]].file
                                               /\ items[saved.got[n]].part = n

\* ctx->state tells whether there is a connection, once a command is over; then
\* nothing of an earlier one is left.
StateOfConnection ==
    pc # "auth" =>
        /\ (state = "CONNECTED") = sock
        /\ state = "DISCONNECTED" => buf = <<>> /\ \A i \in 1..Slots : slot[i] = None

Behind == state = "CONNECTED" /\ parsed < Len(items)

\* Everything the server sends is shown, or the connection ends.
EventuallyShown == Behind ~> ~Behind

\* The same, but for bursts that have filled recv_buf.
EventuallyShownUnlessFull == Behind ~> ~Behind \/ full

-----------------------------------------------------------------------------
(* The inductive invariant *)

ItemType == [type : {"list", "info", "file", "chunk"}, from : Sender \cup {None},
             file : Nat, part : 0..FileParts]
Transfer == [from : Sender, got : Seq(Nat)]

TypeOK ==
    /\ state \in {"CONNECTED", "DISCONNECTED"} /\ sock \in BOOLEAN
    /\ pc \in {"loop", "parse", "auth", "exited"}
    /\ batch \in SUBSET {"stdin", "sock"}
    /\ {hup, mid, full} \subseteq BOOLEAN
    /\ in \in Seq(Nat \X Nat) /\ buf \in Seq(Nat \X Nat)
    /\ items \in Seq(ItemType) /\ parsed \in Nat
    /\ sending \in [Sender -> 0..FileParts] /\ file \in [Sender -> Nat]
    /\ slot \in [1..Slots -> Transfer \cup {None}]
    /\ saved \in Transfer \cup {None}

\* Without a connection nothing of one is left.
ConnInv ==
    /\ state = "DISCONNECTED" =>
        /\ pc # "parse"
        /\ buf = <<>> /\ in = <<>> /\ items = <<>> /\ parsed = 0
        /\ slot = [i \in 1..Slots |-> None] /\ saved = None
        /\ sending = [s \in Sender |-> 0] /\ file = [s \in Sender |-> 0]
    /\ pc = "auth" => state = "DISCONNECTED"
    /\ pc # "auth" => sock = (state = "CONNECTED")

\* q holds the items its from number n + 1 to the last, whole and in order.
WholeItems(q, its, n) ==
    /\ \A k \in 1..Len(q) : q[k][1] \in 1..Len(its)
    /\ \A k \in 1..Len(q) : q[k][2] = 1 =>
        \A d \in 1..Size(its[q[k][1]]) : k + d - 1 <= Len(q) /\ q[k + d - 1] = <<q[k][1], d>>
    /\ \A k \in 1..Len(q) - 1 : q[k][2] = Size(its[q[k][1]]) => q[k + 1] = <<q[k][1] + 1, 1>>
    /\ q = <<>> => n = Len(its)
    /\ q # <<>> => q[1] = <<n + 1, 1>> /\ q[Len(q)] = <<Len(its), Size(its[Len(its)])>>

StreamInv == WholeItems(buf \o in, items, parsed)

\* Part p of file f is what sender s has to go on with after the items 1..n.
Follows(its, s, f, p, n) ==
    \E i \in 1..n : /\ its[i].from = s /\ \A k \in i + 1..n : its[k].from # s
                    /\ its[i].file = f /\ its[i].part + 1 = p

\* ... or f is a file without a beginning.
Continues(its, s, f, p, n) == Follows(its, s, f, p, n) \/ NoFirst(its, s, f, n)

ItemsInv ==
    /\ \A i \in 1..Len(items) :
        /\ items[i].type \in {"file", "chunk"} => items[i].from \in Sender
        /\ items[i].type \in {"list", "info"} => items[i].from = None
        /\ items[i].type = "file" => items[i].part = 1
        /\ items[i].type = "chunk" => Continues(items, items[i].from, items[i].file, items[i].part, i - 1)
    /\ \A s \in Sender :
        /\ sending[s] # 0 => Continues(items, s, file[s], sending[s], Len(items))
        /\ \A i \in 1..Len(items) : items[i].from = s => items[i].file <= file[s]

\* A transfer has written all that its sender has sent since the first PDU.
TransferInv(t, its, n) ==
    LET last == t.got[Len(t.got)]
    IN  /\ t.got # <<>> /\ \A k \in 1..Len(t.got) : t.got[k] \in 1..n
        /\ \A k \in last + 1..n : its[k].from # t.from
        /\ Written(its, t.from, t.got)
        /\ (\A k \in 1..Len(t.got) : its[t.got[k]].file = its[t.got[1]].file) => Len(t.got) < FileParts

SlotInv ==
    /\ parsed <= Len(items)
    /\ saved # None => saved.got # <<>> /\ \A k \in 1..Len(saved.got) : saved.got[k] \in 1..parsed
    /\ \A x \in 1..Slots : slot[x] # None => TransferInv(slot[x], items, parsed)
    /\ \A x, y \in 1..Slots : slot[x] # None /\ slot[y] # None /\ slot[x].from = slot[y].from => x = y

IInv == TypeOK /\ ConnInv /\ StreamInv /\ ItemsInv /\ SlotInv /\ FilesWhole
=============================================================================
