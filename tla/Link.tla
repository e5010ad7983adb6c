-------------------------------- MODULE Link --------------------------------
(***************************************************************************)
(* One authenticated connection, both ends.  The sending half of the        *)
(* command client (client/clcmd.c, await_resp and pump_socket_once of       *)
(* client/clrecv.c) and the server's parser of the stream it sends          *)
(* (wt_handle_inbound_data of server/worker.c, common/lwmp.c).              *)
(*                                                                          *)
(* The stream is a sequence of units <<id, pos>>: position pos of the id-th *)
(* command.  Positions 1..Hdr are the header, the first of them the         *)
(* synchronisation mark, the others payload.  Whatever does not start with  *)
(* the two header units of one command has a wrong mark or a wrong CRC.     *)
(* Responses reach the client in the order they are made (Delivery).        *)
(***************************************************************************)
EXTENDS Integers, Sequences, SequencesExt, FiniteSetsExt

CONSTANTS
    User,       \* the recipients
    NoUser,     \* the empty dest_uname
    Hdr,        \* LWMP_HDR_SIZE, in units
    Buf,        \* LWMP_MAX_PDU_SIZE, the receive buffer and the client's reads
    Chunk,      \* LWMP_CHUNK_BUF_SIZE
    FileSize,   \* sizes of the files sent
    MaxFile,    \* max_filesize_b
    FakeAt,     \* positions of a file whose content looks like the mark
    TLS,        \* the connection is TLS, not plain TCP
    Patient,    \* the user waits until everything has been answered
    MaxCmds,    \* bound: commands
    MaxLeaves,  \* bound: departures of recipients
    MaxFaults   \* bound: timeouts, unreadable files, notices about others

Payload == Buf - Hdr
Unit == Nat \X Nat

ASSUME LinkAssumption ==
    /\ NoUser \notin User
    /\ {Buf, Chunk} \subseteq Nat
    /\ Hdr = 2 /\ Hdr < Buf /\ Payload < Chunk /\ Chunk < Buf
    /\ FileSize \in SUBSET (Nat \ {0}) /\ FakeAt \in SUBSET Nat
    /\ {TLS, Patient} \subseteq BOOLEAN
    /\ {MaxFile, MaxCmds, MaxLeaves, MaxFaults} \subseteq Nat

VARIABLES
    cmds,       \* the commands sent so far: [type, to, size]
    phase,      \* the client: at the prompt, in await_resp, or sending chunks
    done,       \* units of the last command the client has sent
    up,         \* units sent and not yet read by recv_fn
    held,       \* OpenSSL holds the rest of a record it has decrypted
    down,       \* responses the client has not processed
    curr,       \* temp_recv_storage of the client at the server
    at,         \* the worker: in epoll_wait, in the handler, at its lookup
    conn,       \* recipients that are connected
    leaves, faults,  \* departures and faults so far
    log,        \* history: units enqueued to each recipient's session
    seen,       \* history: commands answered
    strayed     \* history: the rest of a message is read as if it were headers

clientVars == <<cmds, phase, done>>
netVars == <<up, held, down>>
histVars == <<log, seen, strayed>>
linkVars == <<clientVars, netVars, curr, at, conn, leaves, faults, histVars>>

Reset(d) ==
    [desync |-> d, chunks |-> FALSE, type |-> "none", exp |-> 0, total |-> 0,
     to |-> NoUser, buf |-> <<>>]

LinkInit ==
    /\ cmds = <<>> /\ phase = "prompt" /\ done = 0
    /\ up = <<>> /\ held = FALSE /\ down = <<>>
    /\ curr = Reset(FALSE) /\ at = "wait"
    /\ conn = User /\ leaves = 0 /\ faults = 0
    /\ log = [u \in User |-> <<>>] /\ seen = {} /\ strayed = FALSE

-----------------------------------------------------------------------------
(* The stream *)

CmdEnd(u) == u[2] = Hdr + cmds[u[1]].size
\* send_all of one buffer is one TLS record: PDUs and the pieces of a file
\* after the first PDU have at most Buf units.
RecordEnd(u) == CmdEnd(u) \/ u[2] % Buf = 0
IsMark(u) == u[2] = 1 \/ (cmds[u[1]].type = "file" /\ u[2] \in FakeAt)
TrueHdr(b) == b[1][2] = 1 /\ b[2] = <<b[1][1], 2>>
Units(id, a, b) == [i \in 1..b - a |-> <<id, a + i>>]   \* those behind position a, up to b

\* epoll reports the socket: what OpenSSL has already decrypted does not count.
Reported ==
    /\ up # <<>>
    /\ TLS /\ held => \E i \in 1..Len(up) - 1 : RecordEnd(up[i])

\* recv_fn in a loop: up to n units, fewer only when it says EBLOCK.
Recv(n) == SubSeq(up, 1, Min({n, Len(up)}))
Read(n) ==
    /\ up' = SubSeq(up, Len(Recv(n)) + 1, Len(up))
    /\ held' = IF Recv(n) = <<>> THEN held ELSE ~RecordEnd(Last(Recv(n)))

-----------------------------------------------------------------------------
(* The client *)

Quiet == at = "wait" /\ ~Reported /\ down = <<>>
Send(c, n) ==
    /\ phase = "prompt" /\ Len(cmds) < MaxCmds
    /\ Patient => Quiet
    /\ cmds' = Append(cmds, c)
    /\ up' = up \o Units(Len(cmds) + 1, 0, n)
    /\ done' = n
    /\ UNCHANGED <<held, down, curr, at, conn, leaves, faults, histVars>>

cmd_msg(u) == Send([type |-> "msg", to |-> u, size |-> 1], Hdr + 1) /\ UNCHANGED phase
cmd_userlist == Send([type |-> "req", to |-> NoUser, size |-> 0], Hdr) /\ UNCHANGED phase

\* Only a file of several PDUs waits for the server's answer.
cmd_sendfile(u, n) ==
    /\ Send([type |-> "file", to |-> u, size |-> n], Hdr + Min({n, Payload}))
    /\ phase' = IF n > Payload THEN "await" ELSE "prompt"

\* process_received_pdu of the first k responses.  At the prompt they are only
\* printed; await_resp takes the first MT_INFO as its answer.
Infos(k) == {i \in 1..k : down[i] # "LIST"}
Process(k) == down' = SubSeq(down, k + 1, Len(down))

print_server_resp(k) ==
    /\ phase = "prompt" /\ k > 0
    /\ Process(k)
    /\ UNCHANGED <<clientVars, up, held, curr, at, conn, leaves, faults, histVars>>

await_resp(k) ==
    /\ phase = "await" /\ k > 0
    /\ Process(k)
    /\ phase' = IF Infos(k) = {} THEN "await"
                ELSE IF down[Min(Infos(k))] = "OK" THEN "chunks" ELSE "prompt"
    /\ UNCHANGED <<cmds, done, up, held, curr, at, conn, leaves, faults, histVars>>

await_timeout ==
    /\ phase = "await" /\ down = <<>> /\ faults < MaxFaults
    /\ faults' = faults + 1
    /\ phase' = "prompt"
    /\ UNCHANGED <<cmds, done, netVars, curr, at, conn, leaves, histVars>>

\* One piece of the file, then pump_socket_once: an error response stops it.
SendChunk(k) ==
    LET id == Len(cmds)
        n == Min({done + Buf, Hdr + cmds[id].size})
    IN  /\ phase = "chunks"
        /\ up' = up \o Units(id, done, n)
        /\ done' = n
        /\ Process(k)
        /\ phase' = IF (\E i \in Infos(k) : down[i] # "OK") \/ n = Hdr + cmds[id].size
                    THEN "prompt" ELSE "chunks"
        /\ UNCHANGED <<cmds, held, curr, at, conn, leaves, faults, histVars>>

\* fread fails: the client gives up, the server is not told.
ReadFails ==
    /\ phase = "chunks" /\ faults < MaxFaults
    /\ faults' = faults + 1
    /\ phase' = "prompt"
    /\ UNCHANGED <<cmds, done, netVars, curr, at, conn, leaves, histVars>>

\* notify_about_disconnect: someone who was sending to this client has left.
Notice ==
    /\ faults < MaxFaults
    /\ faults' = faults + 1
    /\ down' = Append(down, "DCONN")
    /\ UNCHANGED <<clientVars, up, held, curr, at, conn, leaves, histVars>>

-----------------------------------------------------------------------------
(* The server: the client is read until a handler run ends in EBLOCK *)

Respond(r) == down' = Append(down, r)
Answered(b) == {u[1] : u \in {b[i] : i \in {j \in 1..Len(b) : b[j][2] = 1}}}

wt_handle_clientevent ==
    /\ at = "wait" /\ Reported
    /\ at' = "in"
    /\ UNCHANGED <<clientVars, netVars, curr, conn, leaves, faults, histVars>>

\* Mutant: the search begins behind the first unit of the buffer.
lwmp_stream_resync_SkipsFirst(b) ==
    LET fits(i) == IsMark(b[i]) /\ (Len(b) - i + 1 < Hdr \/ TrueHdr(SubSeq(b, i, Len(b))))
        starts == {i \in 2..Len(b) : fits(i)}
    IN  IF starts = {} THEN <<>> ELSE SubSeq(b, Min(starts), Len(b))

\* lwmp_stream_resync: from the first mark that has a right CRC, or that is too
\* near the end of the buffer to tell.
lwmp_stream_resync(b) ==
    LET fits(i) == IsMark(b[i]) /\ (Len(b) - i + 1 < Hdr \/ TrueHdr(SubSeq(b, i, Len(b))))
        starts == {i \in 1..Len(b) : fits(i)}
    IN  IF starts = {} THEN <<>> ELSE SubSeq(b, Min(starts), Len(b))

\* The buffer is filled and searched; without success the handler stops, also
\* when more is to be had.
Resync ==
    LET b == lwmp_stream_resync(curr.buf \o Recv(Buf - Len(curr.buf)))
    IN  /\ at = "in" /\ curr.desync
        /\ Read(Buf - Len(curr.buf))
        /\ curr' = [curr EXCEPT !.buf = b, !.desync = (b = <<>>)]
        /\ at' = IF b = <<>> THEN "wait" ELSE "in"
        /\ strayed' = (strayed \/ (b # <<>> /\ b[1][2] # 1))
        /\ UNCHANGED <<clientVars, down, conn, leaves, faults, log, seen>>

ReadHeader ==
    LET b == curr.buf \o Recv(Hdr - Len(curr.buf))
    IN  /\ at = "in" /\ ~curr.desync /\ ~curr.chunks /\ Len(curr.buf) < Hdr
        /\ Read(Hdr - Len(curr.buf))
        /\ curr' = [curr EXCEPT !.buf = b]
        /\ at' = IF Len(b) < Hdr THEN "wait" ELSE "in"
        /\ UNCHANGED <<clientVars, down, conn, leaves, faults, histVars>>

\* The fields are taken before anything is validated: of bytes that are no
\* header they can be anything.
Fields(b) ==
    IF TrueHdr(b) THEN {cmds[b[1][1]]}
    ELSE [type : {"msg"}, to : {NoUser}, size : {0, Buf}]
\* Mutant: the units of the header are counted as payload.
ParseHeader_CountsHeader ==
    /\ at = "in" /\ ~curr.desync /\ ~curr.chunks /\ Len(curr.buf) >= Hdr
    /\ curr.type = "none" /\ curr.exp = 0
    /\ \E f \in Fields(curr.buf) :
         curr' = [curr EXCEPT !.type = f.type, !.to = f.to, !.exp = f.size,
                        !.total = Len(curr.buf)]
    /\ UNCHANGED <<clientVars, netVars, at, conn, leaves, faults, histVars>>

ParseHeader ==
    /\ at = "in" /\ ~curr.desync /\ ~curr.chunks /\ Len(curr.buf) >= Hdr
    /\ curr.type = "none" /\ curr.exp = 0
    /\ \E f \in Fields(curr.buf) :
         curr' = [curr EXCEPT !.type = f.type, !.to = f.to, !.exp = f.size,
                        !.total = Len(curr.buf) - Hdr]
    /\ UNCHANGED <<clientVars, netVars, at, conn, leaves, faults, histVars>>

Wanted == Min({Hdr + curr.exp, Buf})
ReadBody ==
    LET r == Recv(Wanted - Len(curr.buf))
    IN  /\ at = "in" /\ ~curr.desync /\ ~curr.chunks /\ curr.type # "none"
        /\ Len(curr.buf) >= Hdr /\ Len(curr.buf) < Wanted
        /\ Read(Wanted - Len(curr.buf))
        /\ curr' = [curr EXCEPT !.buf = @ \o r, !.total = @ + Len(r)]
        /\ at' = IF Len(curr.buf) + Len(r) < Wanted THEN "wait" ELSE "in"
        /\ UNCHANGED <<clientVars, down, conn, leaves, faults, histVars>>

\* resp_codes of the first check that fails.
lwmp_validate_hdrs(b, allow) ==
    LET c == cmds[b[1][1]]
        checks == << <<"INVAL_PDU", ~IsMark(b[1])>>,
                     <<"INVAL_CRC", ~TrueHdr(b)>>,
                     <<"DISALLOWED_FILE", c.type = "file" /\ ~allow>>,
                     <<"TOOBIG_FILE", allow /\ c.size > MaxFile>>,
                     <<"TOOBIG_MSG", c.type # "file" /\ c.size > Payload>>,
                     <<"DCONN", c.type # "req" /\ curr.to \notin conn>>,
                     <<"OK", TRUE>> >>
    IN  checks[Min({i \in 1..Len(checks) : checks[i][2]})][1]

\* Mutant: a message of several PDUs is over with its first.
AfterPdu_NoChunks(t) == Reset(FALSE)

\* After a message or its first PDU: it is over, or chunks follow.
AfterPdu(t) == IF curr.total = curr.exp THEN Reset(FALSE) ELSE [t EXCEPT !.chunks = TRUE]

Validate(allow) ==
    LET hv == lwmp_validate_hdrs(curr.buf, allow)
        req == hv = "OK" /\ curr.type = "req"
    IN  /\ at = "in" /\ ~curr.desync /\ ~curr.chunks /\ curr.type # "none"
        /\ Len(curr.buf) >= Wanted
        /\ down' = down \o (IF req THEN <<"OK", "LIST">> ELSE <<hv>>)
        /\ seen' = seen \cup Answered(curr.buf)
        /\ curr' = IF hv # "OK" THEN Reset(hv = "INVAL_CRC")
                ELSE IF req THEN AfterPdu(curr) ELSE curr
        /\ at' = IF hv = "OK" /\ ~req THEN "lookup" ELSE "in"
        /\ UNCHANGED <<clientVars, up, held, conn, leaves, faults, log, strayed>>

\* The second lookup of the recipient, after the validation's.
Lookup ==
    /\ at = "lookup"
    /\ \/ /\ curr.to \in conn
          /\ log' = [log EXCEPT ![curr.to] = @ \o curr.buf]
          /\ curr' = AfterPdu([curr EXCEPT !.buf = <<>>])
          /\ at' = "in"
          /\ UNCHANGED <<down, strayed>>
       \/ /\ curr.to \notin conn
          /\ Respond("DCONN")
          /\ curr' = Reset(FALSE)
          /\ at' = "wait"
          /\ strayed' = (strayed \/ curr.total < curr.exp)
          /\ UNCHANGED log
    /\ UNCHANGED <<clientVars, up, held, conn, leaves, faults, seen>>

\* Mutant: a chunk is as long as the buffer, whatever the message has left.
Room_IgnoresExpected == Chunk - Len(curr.buf)

\* A chunk is as long as the buffer or the message allows.
Room == IF curr.total < curr.exp THEN Min({curr.exp - curr.total, Chunk - Len(curr.buf)}) ELSE 0
ReadChunk ==
    LET r == Recv(Room)
    IN  /\ at = "in" /\ curr.chunks /\ Room > 0
        /\ Read(Room)
        /\ curr' = [curr EXCEPT !.buf = @ \o r, !.total = @ + Len(r)]
        /\ at' = IF Len(r) < Room THEN "wait" ELSE "in"
        /\ UNCHANGED <<clientVars, down, conn, leaves, faults, histVars>>

ForwardChunk ==
    /\ at = "in" /\ curr.chunks /\ Room = 0
    /\ \/ /\ curr.to \in conn
          /\ log' = [log EXCEPT ![curr.to] = @ \o curr.buf]
          /\ curr' = AfterPdu([curr EXCEPT !.buf = <<>>])
          /\ UNCHANGED <<down, at>>
       \/ /\ curr.to \notin conn
          /\ Respond("DCONN")
          /\ curr' = Reset(TRUE)
          /\ at' = "wait"
          /\ UNCHANGED log
    /\ UNCHANGED <<clientVars, up, held, conn, leaves, faults, seen, strayed>>

-----------------------------------------------------------------------------
(* The recipients: a session that ends takes its queue with it *)

Leave(u) ==
    /\ u \in conn /\ leaves < MaxLeaves
    /\ conn' = conn \ {u}
    /\ leaves' = leaves + 1
    /\ log' = [log EXCEPT ![u] = <<>>]
    /\ UNCHANGED <<clientVars, netVars, curr, at, faults, seen, strayed>>

Return(u) ==
    /\ u \in User \ conn
    /\ conn' = conn \cup {u}
    /\ UNCHANGED <<clientVars, netVars, curr, at, leaves, faults, histVars>>

Client ==
    \/ \E u \in User : cmd_msg(u) \/ \E n \in FileSize : cmd_sendfile(u, n)
    \/ cmd_userlist
    \/ \E k \in 1..Len(down) : print_server_resp(k) \/ await_resp(k)
    \/ \E k \in 0..Len(down) : SendChunk(k)
    \/ await_timeout \/ ReadFails

Handler ==
    \/ wt_handle_clientevent \/ Resync \/ ReadHeader \/ ParseHeader \/ ReadBody
    \/ \E allow \in BOOLEAN : Validate(allow)
    \/ Lookup \/ ReadChunk \/ ForwardChunk

LinkNext ==
    \/ Client \/ Handler \/ Notice
    \/ \E u \in User : Leave(u) \/ Return(u)

\* The worker runs, and the client's loop reads what has arrived and goes on
\* with a file it is sending.  Users need not do anything.
ClientLoop ==
    \/ print_server_resp(Len(down)) \/ await_resp(Len(down))
    \/ \E k \in 0..Len(down) : SendChunk(k)

LinkSpec == LinkInit /\ [][LinkNext]_linkVars /\ WF_linkVars(Handler) /\ WF_linkVars(ClientLoop)

-----------------------------------------------------------------------------
(* Properties *)

\* No transfer was given up, and no notice about someone else arrived, without
\* the server's parser knowing of it.
Undisturbed == faults = 0

\* What a worker enqueues to a recipient was addressed to that recipient: the
\* bytes after an aborted or refused file are never taken for the rest of it.
RightRecipient ==
    Undisturbed =>
        \A u \in User : \A i \in 1..Len(log[u]) : cmds[log[u][i][1]].to = u

\* A recipient whose session lasts gets every accepted message whole: first PDU
\* and chunks follow each other without a gap and without anything between.
WholeMessages ==
    Undisturbed =>
        \A u \in User : \A i \in 2..Len(log[u]) :
            LET a == log[u][i - 1]
                b == log[u][i]
            IN  IF b[2] = 1 THEN CmdEnd(a) ELSE b = <<a[1], a[2] + 1>>

\* while (wt_handle_inbound_data(...) == WT_STOP_BORDER) comes to an end, whatever
\* the client did: the worker goes back to its other clients.
HandlerReturns == at # "wait" ~> at = "wait"

\* A command is answered, also after a file was broken off and the stream had to
\* be resynchronised, unless the recipient of the file left between the two
\* lookups, or the part of the file that had arrived ended in a mark.
EventuallyAnswered ==
    \A id \in 1..MaxCmds : Len(cmds) >= id ~> id \in seen \/ strayed \/ ~Undisturbed

-----------------------------------------------------------------------------
(* The inductive invariant of ClientProofs: a patient user, and as long as  *)
(* nothing has disturbed the connection                                     *)

Response == {"OK", "LIST", "INVAL_PDU", "INVAL_CRC", "DISALLOWED_FILE", "TOOBIG_FILE", "TOOBIG_MSG", "DCONN"}
Commands == [type : {"msg", "req", "file"}, to : User \cup {NoUser}, size : Nat]
Storage == [desync : BOOLEAN, chunks : BOOLEAN, type : {"none", "msg", "req", "file"},
            exp : Nat, total : Nat, to : User \cup {NoUser}, buf : Seq(Unit)]

LinkType ==
    /\ cmds \in Seq(Commands) /\ phase \in {"prompt", "await", "chunks"} /\ done \in Nat
    /\ up \in Seq(Unit) /\ held \in BOOLEAN /\ down \in Seq(Response)
    /\ curr \in Storage /\ at \in {"wait", "in", "lookup"}
    /\ conn \subseteq User /\ log \in [User -> Seq(Unit)]

Newest == Len(cmds)
Whole == Hdr + cmds[Newest].size
First == Hdr + Min({cmds[Newest].size, Payload})

\* What the client has sent of its last command: whole records, all of it or
\* the rest after the answer.
SendInv ==
    IF cmds = <<>> THEN phase = "prompt" /\ done = 0
    ELSE /\ First <= done /\ done <= Whole
         /\ done = Whole \/ done % Buf = 0
         /\ phase # "prompt" => done < Whole
         /\ phase = "await" => done = First
         /\ cmds[Newest].type = "req" => cmds[Newest].size = 0
         /\ cmds[Newest].type # "req" => cmds[Newest].to \in User

\* The units the server has read of the last command, when it has read all
\* that came before.
Got == done - Len(up)
Reached ==
    IF cmds = <<>> THEN up = <<>> /\ ~held
    ELSE up = Units(Newest, Got, done) /\ Got >= 1 /\ (held <=> ~RecordEnd(<<Newest, Got>>))

Need == IF curr.type = "none" THEN Hdr ELSE Wanted

\* The client has had no answer to its last command.
Unanswered ==
    /\ down = <<>> /\ done = First
    /\ phase = "await" \/ (phase = "prompt" /\ done = Whole)

\* Nothing of the last command has been read.  What the server has in its
\* storage or has left unread of an earlier one is searched for a header
\* without success, or spoils the header that follows.
Untouched ==
    /\ cmds # <<>> /\ Unanswered
    /\ ~curr.chunks /\ at # "lookup" /\ (at = "wait" => Reported)
    /\ done <= Len(up) /\ SubSeq(up, Len(up) - done + 1, Len(up)) = Units(Newest, 0, done)
    /\ \A i \in 1..Len(up) - done : up[i][2] # 1
    /\ IF curr.desync THEN Len(up) - done < Buf
       ELSE Len(up) = done /\ Len(curr.buf) < Need /\ (curr.buf # <<>> => curr.buf[1][2] # 1)

\* The server has the header of the last command in its storage, whole or its
\* first unit.
InHeader ==
    /\ cmds # <<>> /\ Unanswered
    /\ ~curr.chunks /\ at = "in" /\ ~curr.desync
    /\ Reached /\ curr.buf = Units(Newest, 0, Got)
    /\ curr.type # "none" =>
        /\ curr.type = cmds[Newest].type /\ curr.to = cmds[Newest].to /\ curr.exp = cmds[Newest].size
        /\ curr.total = Got - Hdr

\* The server has accepted the last command and forwards it, and the client
\* has no reason to break it off.
Accepted ==
    /\ cmds # <<>> /\ ~curr.desync
    /\ curr.type = cmds[Newest].type /\ curr.type # "req"
    /\ curr.to = cmds[Newest].to /\ curr.exp = cmds[Newest].size
    /\ Reached /\ curr.total = Got - Hdr /\ curr.total <= curr.exp
    /\ \/ done = Whole
       \/ phase = "await" /\ down = <<"OK">>
       \/ phase = "chunks" /\ down = <<>>
    /\ IF curr.chunks
       THEN /\ at # "lookup" /\ (at = "wait" => ~held /\ curr.total < curr.exp)
            /\ Len(curr.buf) <= Chunk /\ Len(curr.buf) < Got
            /\ curr.buf = Units(Newest, Got - Len(curr.buf), Got)
       ELSE at = "lookup" /\ Got = First /\ curr.buf = Units(Newest, 0, Got)

\* The header of the last command is gone, and so is the command for the server.
Past ==
    /\ ~curr.chunks /\ at # "lookup"
    /\ Reached
    /\ curr.buf # <<>> => curr.buf[1][2] # 1
    /\ at = "wait" /\ ~curr.desync => ~held /\ Len(curr.buf) < Need

ParserInv ==
    /\ curr.type = "none" => curr.exp = 0 /\ curr.total = 0 /\ ~curr.chunks
    /\ curr.desync => curr.buf = <<>> /\ curr.type = "none"
    /\ curr.type # "none" /\ ~curr.chunks => Len(curr.buf) >= Hdr
    /\ Untouched \/ InHeader \/ Accepted \/ Past

\* What has been forwarded belongs to whom it was addressed to, and ends with
\* the end of a message unless the rest of one is expected.
ForwardInv ==
    \A u \in User :
        /\ u \notin conn => log[u] = <<>>
        /\ \A i \in 1..Len(log[u]) : log[u][i][1] \in 1..Newest
        /\ log[u] # <<>> =>
            IF curr.chunks /\ curr.to = u THEN Last(log[u]) = <<Newest, Got - Len(curr.buf)>>
            ELSE CmdEnd(Last(log[u]))

LinkInv ==
    /\ faults \in Nat
    /\ Undisturbed => LinkType /\ SendInv /\ ParserInv /\ ForwardInv /\ RightRecipient /\ WholeMessages
=============================================================================
