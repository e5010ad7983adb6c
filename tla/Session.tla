------------------------------- MODULE Session -------------------------------
(***************************************************************************)
(* The life of a standard client of the lwmsg server: server/worker.c with  *)
(* the parts of clhandle.c, htable.c and server.c it relies on.             *)
(*                                                                          *)
(* Several worker threads run the same epoll loop.  A std_client is owned   *)
(* by the worker that accepted it; once authenticated it is also reachable  *)
(* by every other worker through the shared client table, keyed by user     *)
(* name, under a reference count.  The module keeps every step at which a   *)
(* worker touches shared state (a table operation under its stripe lock, an *)
(* atomic load or store, a reference count update) as a step of its own, so *)
(* that the handlers of different workers interleave as the threads do.     *)
(* Message contents, time and the IP tables are left out: a socket may      *)
(* deliver, block or fail, and a pending client may time out, at any time.  *)
(***************************************************************************)
EXTENDS Integers, Sequences, FiniteSets

CONSTANTS
    Client,     \* allocations of std_client; each is allocated at most once
    Worker,     \* worker threads
    Name,       \* normalised user names, the keys of the client table
    None,       \* no client, no worker, no name
    MaxPdus,    \* bound: complete PDUs a client sends in its life
    MaxEvents   \* bound: client and listener events returned by one epoll_wait

ASSUME SessionAssumption ==
    /\ IsFiniteSet(Worker)
    /\ None \notin Client \cup Worker \cup Name
    /\ MaxPdus \in Nat
    /\ MaxEvents \in Nat

VARIABLES
    \* per std_client
    mem,        \* "unused", "live", "freed", or "corrupt" after a double free
    cl_state,   \* client.cl_state
    owner,      \* owner_thrd_id
    username,   \* username, also the table key (nd.key)
    queues,     \* are pending_userdata_queue and pending_ctrl_queue created?
    ref_cnt,    \* nd.ref_cnt
    pdus,       \* PDUs the peer has sent so far (bounded by MaxPdus)
    \* shared
    table,      \* the clients linked into client_tbl
    phase,      \* the main thread: "run", "join" or "deleted"
    \* per worker
    preauth,    \* preauth_list
    clth,       \* the clients in the timer heap
    dconn,      \* dconn_clients, the part not yet swept
    sockReg,    \* the clients whose socket is registered with epollfd
    queueReg,   \* the clients whose user data queue is
    sockEv,     \* socket events of the current batch not yet handled
    queueEv,    \* queue events of the current batch not yet handled
    loopEv,     \* "listener" and "shutdown" events not yet handled
    pc,         \* where the worker is
    cur,        \* the client whose event is being handled
    hold,       \* the client it holds a counted reference to
    target,     \* the user name it is authenticating or looking up
    use         \* what the lookup in progress is for

clientVars == <<mem, cl_state, owner, username, queues, ref_cnt, pdus>>
regVars    == <<sockReg, queueReg>>
listVars   == <<preauth, clth, dconn, regVars>>
eventVars  == <<sockEv, queueEv, loopEv>>
lookupVars == <<hold, target, use>>
cleanupVars == <<cl_state, regVars, dconn, mem, preauth, clth>>
vars == <<clientVars, table, phase, listVars, eventVars, pc, cur, lookupVars>>

States == {"INIT", "ACCEPTING", "ACCEPTED", "AUTHENTICATED", "DISCONNECTED"}

PCs == {"poll", "batch", "auth_add", "auth_ok", "inbound", "respond", "reply",
        "gone", "get", "cond", "enqueue", "put", "drop", "outbound", "send", "queued",
        "send_tss", "dequeue", "sweep", "final", "exited"}

Uses == {"none", "validate", "forward", "probe_out", "probe_tss", "probe_msg"}

TypeOK ==
    /\ mem \in [Client -> {"unused", "live", "freed", "corrupt"}]
    /\ cl_state \in [Client -> States]
    /\ owner \in [Client -> Worker \cup {None}]
    /\ username \in [Client -> Name \cup {None}]
    /\ queues \in [Client -> BOOLEAN]
    /\ ref_cnt \in [Client -> Nat]
    /\ pdus \in [Client -> 0..MaxPdus]
    /\ table \in SUBSET Client
    /\ phase \in {"run", "join", "deleted"}
    /\ preauth \in [Worker -> SUBSET Client]
    /\ clth \in [Worker -> SUBSET Client]
    /\ dconn \in [Worker -> Seq(Client)]
    /\ sockReg \in [Worker -> SUBSET Client]
    /\ queueReg \in [Worker -> SUBSET Client]
    /\ sockEv \in [Worker -> SUBSET Client]
    /\ queueEv \in [Worker -> SUBSET Client]
    /\ loopEv \in [Worker -> SUBSET {"listener", "shutdown"}]
    /\ pc \in [Worker -> PCs]
    /\ cur \in [Worker -> Client \cup {None}]
    /\ hold \in [Worker -> Client \cup {None}]
    /\ target \in [Worker -> Name \cup {None}]
    /\ use \in [Worker -> Uses]

Init ==
    /\ mem = [c \in Client |-> "unused"]
    /\ cl_state = [c \in Client |-> "INIT"]
    /\ owner = [c \in Client |-> None]
    /\ username = [c \in Client |-> None]
    /\ queues = [c \in Client |-> FALSE]
    /\ ref_cnt = [c \in Client |-> 0]
    /\ pdus = [c \in Client |-> 0]
    /\ table = {}
    /\ phase = "run"
    /\ preauth = [w \in Worker |-> {}]
    /\ clth = [w \in Worker |-> {}]
    /\ dconn = [w \in Worker |-> <<>>]
    /\ sockReg = [w \in Worker |-> {}]
    /\ queueReg = [w \in Worker |-> {}]
    /\ sockEv = [w \in Worker |-> {}]
    /\ queueEv = [w \in Worker |-> {}]
    /\ loopEv = [w \in Worker |-> {}]
    /\ pc = [w \in Worker |-> "poll"]
    /\ cur = [w \in Worker |-> None]
    /\ hold = [w \in Worker |-> None]
    /\ target = [w \in Worker |-> None]
    /\ use = [w \in Worker |-> "none"]

Goto(w, l) == pc' = [pc EXCEPT ![w] = l]

-----------------------------------------------------------------------------
(* Memory: free() of a std_client and the reference count of its node.      *)

FreeMem(S) ==
    [c \in Client |-> IF c \notin S THEN mem[c]
                      ELSE IF mem[c] = "live" THEN "freed" ELSE "corrupt"]

\* free_std_client.  Closing the socket and the eventfd drops whatever epoll
\* registrations they still have, in every worker.
free_std_client(c) ==
    /\ mem' = FreeMem({c})
    /\ queues' = [queues EXCEPT ![c] = FALSE]
    /\ sockReg' = [v \in Worker |-> sockReg[v] \ {c}]
    /\ queueReg' = [v \in Worker |-> queueReg[v] \ {c}]

\* Mutant: frees when the count read before the decrement is 0, one too late.
node_put_OffByOne(c) ==
    /\ ref_cnt' = [ref_cnt EXCEPT ![c] = @ - 1]
    /\ IF ref_cnt[c] = 0 THEN free_std_client(c)
                         ELSE UNCHANGED <<mem, queues, regVars>>

node_put(c) ==
    /\ ref_cnt' = [ref_cnt EXCEPT ![c] = @ - 1]
    /\ IF ref_cnt[c] = 1 THEN free_std_client(c)
                         ELSE UNCHANGED <<mem, queues, regVars>>

\* The clients htable_get finds under key n: at most one.
Lookup(n) == {c \in table : username[c] = n}

\* The part of cleanup_std_client for a client no other worker knows: it
\* leaves the heap, the list and epoll, each where it was entered, and is freed.
free_unauthenticated(w, c) ==
    /\ cl_state[c] \in {"INIT", "ACCEPTING", "ACCEPTED"}
    /\ clth' = IF cl_state[c] = "ACCEPTED"
               THEN [clth EXCEPT ![w] = @ \ {c}] ELSE clth
    /\ preauth' = IF cl_state[c] # "INIT"
                  THEN [preauth EXCEPT ![w] = @ \ {c}] ELSE preauth
    /\ sockReg' = [sockReg EXCEPT ![w] = @ \ {c}]
    /\ mem' = FreeMem({c})
    /\ UNCHANGED <<cl_state, dconn, queueReg>>

\* Mutant: the socket and the queue stay registered with epoll.
cleanup_std_client_NoEpollDel(w, c) ==
    \/ /\ cl_state[c] = "AUTHENTICATED"
       /\ cl_state' = [cl_state EXCEPT ![c] = "DISCONNECTED"]
       /\ dconn' = [dconn EXCEPT ![w] = Append(@, c)]
       /\ UNCHANGED <<mem, preauth, clth, regVars>>
    \/ free_unauthenticated(w, c)
    \/ /\ cl_state[c] = "DISCONNECTED"
       /\ UNCHANGED cleanupVars

\* Mutant: a client that is already DISCONNECTED is noted for the sweep again.
cleanup_std_client_Twice(w, c) ==
    \/ /\ cl_state[c] \in {"AUTHENTICATED", "DISCONNECTED"}
       /\ cl_state' = [cl_state EXCEPT ![c] = "DISCONNECTED"]
       /\ sockReg' = [sockReg EXCEPT ![w] = @ \ {c}]
       /\ queueReg' = [queueReg EXCEPT ![w] = @ \ {c}]
       /\ dconn' = [dconn EXCEPT ![w] = Append(@, c)]
       /\ UNCHANGED <<mem, preauth, clth>>
    \/ free_unauthenticated(w, c)

\* cleanup_std_client.  An authenticated client leaves epoll at once but stays
\* allocated until the sweep at the end of the batch.
cleanup_std_client(w, c) ==
    \/ /\ cl_state[c] = "AUTHENTICATED"
       /\ cl_state' = [cl_state EXCEPT ![c] = "DISCONNECTED"]
       /\ sockReg' = [sockReg EXCEPT ![w] = @ \ {c}]
       /\ queueReg' = [queueReg EXCEPT ![w] = @ \ {c}]
       /\ dconn' = [dconn EXCEPT ![w] = Append(@, c)]
       /\ UNCHANGED <<mem, preauth, clth>>
    \/ free_unauthenticated(w, c)
    \/ /\ cl_state[c] = "DISCONNECTED"
       /\ UNCHANGED cleanupVars

-----------------------------------------------------------------------------
(* The worker loop: timeouts, epoll_wait, the batch.                        *)

\* handle_clth_timeout, between two batches: a client that is still ACCEPTED
\* when its deadline has passed is popped and cleaned up.
handle_clth_timeout(w) ==
    /\ pc[w] = "poll"
    /\ \E c \in clth[w] :
        /\ cl_state[c] = "ACCEPTED"
        /\ cleanup_std_client(w, c)
    /\ UNCHANGED <<owner, username, queues, ref_cnt, pdus, table, phase, eventVars,
                   pc, cur, lookupVars>>

\* Mutant: the first worker to see the shutdown eventfd reads it empty.
epoll_wait_ReadsShutdown(w) ==
    /\ pc[w] = "poll"
    /\ \E S \in SUBSET sockReg[w], Q \in SUBSET queueReg[w], L \in SUBSET {"listener"} :
        /\ Cardinality(S) + Cardinality(Q) + Cardinality(L) <= MaxEvents
        /\ sockEv' = [sockEv EXCEPT ![w] = S]
        /\ queueEv' = [queueEv EXCEPT ![w] = Q]
        /\ loopEv' = [loopEv EXCEPT ![w] =
                        IF phase = "run" \/ \E v \in Worker : pc[v] \in {"final", "exited"}
                        THEN L ELSE L \cup {"shutdown"}]
    /\ Goto(w, "batch")
    /\ UNCHANGED <<clientVars, table, phase, listVars, cur, lookupVars>>

\* epoll_wait returns some of the ready descriptors.  The shutdown eventfd is
\* never read, so once written it is part of every later batch.
epoll_wait(w) ==
    /\ pc[w] = "poll"
    /\ \E S \in SUBSET sockReg[w], Q \in SUBSET queueReg[w], L \in SUBSET {"listener"} :
        /\ Cardinality(S) + Cardinality(Q) + Cardinality(L) <= MaxEvents
        /\ sockEv' = [sockEv EXCEPT ![w] = S]
        /\ queueEv' = [queueEv EXCEPT ![w] = Q]
        /\ loopEv' = [loopEv EXCEPT ![w] =
                        IF phase = "run" THEN L ELSE L \cup {"shutdown"}]
    /\ Goto(w, "batch")
    /\ UNCHANGED <<clientVars, table, phase, listVars, cur, lookupVars>>

\* The next event of the batch is one of client c: it is consumed.
SockEvent(w, c) ==
    /\ pc[w] = "batch"
    /\ c \in sockEv[w]
    /\ sockEv' = [sockEv EXCEPT ![w] = @ \ {c}]
    /\ UNCHANGED <<queueEv, loopEv>>

\* The for loop over the batch is over: node_arr_sweep comes next.
BatchDone(w) ==
    /\ pc[w] = "batch"
    /\ sockEv[w] = {} /\ queueEv[w] = {} /\ loopEv[w] = {}
    /\ Goto(w, "sweep")
    /\ UNCHANGED <<clientVars, table, phase, listVars, eventVars, cur, lookupVars>>

-----------------------------------------------------------------------------
(* Accepting connections and the TLS handshake.                             *)

\* One round of wt_handle_new_connections that is not turned away by the IP
\* tables: create_std_client, then accept_fn finishes, fails or blocks.
NewConnection(w) ==
    /\ pc[w] = "batch"
    /\ "listener" \in loopEv[w]
    /\ \E c \in Client :
        /\ mem[c] = "unused"
        /\ owner' = [owner EXCEPT ![c] = w]
        /\ ref_cnt' = [ref_cnt EXCEPT ![c] = 1]
        /\ \/ \E done \in BOOLEAN :
               /\ mem' = [mem EXCEPT ![c] = "live"]
               /\ cl_state' = [cl_state EXCEPT
                                 ![c] = IF done THEN "ACCEPTED" ELSE "ACCEPTING"]
               /\ clth' = IF done THEN [clth EXCEPT ![w] = @ \cup {c}] ELSE clth
               /\ preauth' = [preauth EXCEPT ![w] = @ \cup {c}]
               /\ sockReg' = [sockReg EXCEPT ![w] = @ \cup {c}]
           \/ /\ mem' = [mem EXCEPT ![c] = "freed"]
              /\ UNCHANGED <<cl_state, clth, preauth, sockReg>>
    /\ UNCHANGED <<username, queues, pdus, table, phase, dconn, queueReg, eventVars, pc,
                   cur, lookupVars>>

\* accept() returns EAGAIN.
AcceptDone(w) ==
    /\ pc[w] = "batch"
    /\ "listener" \in loopEv[w]
    /\ loopEv' = [loopEv EXCEPT ![w] = @ \ {"listener"}]
    /\ UNCHANGED <<clientVars, table, phase, listVars, sockEv, queueEv, pc, cur, lookupVars>>

\* EPOLLHUP or EPOLLERR on the socket, whatever the client's state.
HangUp(w) ==
    /\ \E c \in Client :
        /\ SockEvent(w, c)
        /\ cleanup_std_client(w, c)
    /\ UNCHANGED <<owner, username, queues, ref_cnt, pdus, table, phase, pc, cur,
                   lookupVars>>

\* wt_handle_accepting: the handshake finishes, fails or blocks again.
wt_handle_accepting(w) ==
    /\ \E c \in Client :
        /\ SockEvent(w, c)
        /\ cl_state[c] = "ACCEPTING"
        /\ \/ cleanup_std_client(w, c)
           \/ /\ clth' = [clth EXCEPT ![w] = @ \cup {c}]
              /\ cl_state' = [cl_state EXCEPT ![c] = "ACCEPTED"]
              /\ UNCHANGED <<mem, preauth, dconn, regVars>>
           \/ UNCHANGED cleanupVars
    /\ UNCHANGED <<owner, username, queues, ref_cnt, pdus, table, phase, pc, cur,
                   lookupVars>>

-----------------------------------------------------------------------------
(* wt_handle_authentication, in its three steps on shared state.            *)

\* The request is incomplete, or complete and refused before the table is
\* changed: recv fails, wrong type, wrong credentials, or the name is taken.
\* The name as sent need not be normalised; then the first lookup, which
\* uses it as sent, cannot match a key of the table.
AuthCheck(w) ==
    /\ \E c \in Client :
        /\ SockEvent(w, c)
        /\ cl_state[c] = "ACCEPTED"
        /\ \/ /\ UNCHANGED <<cleanupVars, pc, cur, target>>
           \/ /\ cleanup_std_client(w, c)
              /\ UNCHANGED <<pc, cur, target>>
           \/ \E n \in Name, normalised \in BOOLEAN :
               /\ normalised => Lookup(n) = {}
               /\ target' = [target EXCEPT ![w] = n]
               /\ cur' = [cur EXCEPT ![w] = c]
               /\ Goto(w, "auth_add")
               /\ UNCHANGED cleanupVars
    /\ UNCHANGED <<owner, username, queues, ref_cnt, pdus, table, phase, hold, use>>

\* Mutant: htable_add does not look for the key again under its lock.
AuthAdd_NoRecheck(w) ==
    LET c == cur[w]
    IN /\ pc[w] = "auth_add"
       /\ clth' = [clth EXCEPT ![w] = @ \ {c}]
       /\ preauth' = [preauth EXCEPT ![w] = @ \ {c}]
       /\ username' = [username EXCEPT ![c] = target[w]]
       /\ target' = [target EXCEPT ![w] = None]
       /\ table' = table \cup {c}
       /\ queues' = [queues EXCEPT ![c] = TRUE]
       /\ queueReg' = [queueReg EXCEPT ![w] = @ \cup {c}]
       /\ Goto(w, "auth_ok")
       /\ UNCHANGED <<mem, sockReg, cur>>
       /\ UNCHANGED <<cl_state, owner, ref_cnt, pdus, phase, dconn, eventVars, hold, use>>

\* The queues are created and registered, the client leaves the heap and the
\* list and gets its normalised name; htable_add then links it or, when
\* another client took the name meanwhile, everything is undone.
AuthAdd(w) ==
    LET c == cur[w]
        n == target[w]
    IN /\ pc[w] = "auth_add"
       /\ clth' = [clth EXCEPT ![w] = @ \ {c}]
       /\ preauth' = [preauth EXCEPT ![w] = @ \ {c}]
       /\ username' = [username EXCEPT ![c] = n]
       /\ target' = [target EXCEPT ![w] = None]
       /\ IF Lookup(n) = {}
          THEN /\ table' = table \cup {c}
               /\ queues' = [queues EXCEPT ![c] = TRUE]
               /\ queueReg' = [queueReg EXCEPT ![w] = @ \cup {c}]
               /\ Goto(w, "auth_ok")
               /\ UNCHANGED <<mem, sockReg, cur>>
          ELSE /\ mem' = FreeMem({c})
               /\ sockReg' = [sockReg EXCEPT ![w] = @ \ {c}]
               /\ cur' = [cur EXCEPT ![w] = None]
               /\ Goto(w, "batch")
               /\ UNCHANGED <<table, queues, queueReg>>
       /\ UNCHANGED <<cl_state, owner, ref_cnt, pdus, phase, dconn, eventVars, hold, use>>

\* Only now is the state stored: until here other workers see ACCEPTED.
AuthDone(w) ==
    /\ pc[w] = "auth_ok"
    /\ cl_state' = [cl_state EXCEPT ![cur[w]] = "AUTHENTICATED"]
    /\ cur' = [cur EXCEPT ![w] = None]
    /\ Goto(w, "batch")
    /\ UNCHANGED <<mem, owner, username, queues, ref_cnt, pdus, table, phase, listVars,
                   eventVars, lookupVars>>

-----------------------------------------------------------------------------
(* Looking a client up by name: htable_get_cond(..., is_not_disconnected).  *)

\* Where the handler goes on, by what it looked the name up for.
Returns(u, found) ==
    IF u = "validate" THEN IF found THEN "respond" ELSE "reply"
    ELSE IF u = "forward" THEN IF found THEN "inbound" ELSE "gone"
    ELSE IF u = "probe_tss" THEN "send_tss" ELSE "send"

\* A handler starts a lookup of name n.
StartLookup(w, n, u) ==
    /\ target' = [target EXCEPT ![w] = n]
    /\ use' = [use EXCEPT ![w] = u]
    /\ Goto(w, "get")

\* dest_uname survives a successful validation: the message goes there.
EndLookup(w, l) ==
    /\ target' = [target EXCEPT ![w] = IF l = "respond" THEN @ ELSE None]
    /\ use' = [use EXCEPT ![w] = "none"]
    /\ Goto(w, l)

\* htable_get(..., true): find the node and count the reference, both under
\* the stripe lock.
htable_get(w) ==
    /\ pc[w] = "get"
    /\ \/ /\ Lookup(target[w]) = {}
          /\ EndLookup(w, Returns(use[w], FALSE))
          /\ UNCHANGED <<hold, ref_cnt>>
       \/ \E c \in Lookup(target[w]) :
           /\ hold' = [hold EXCEPT ![w] = c]
           /\ ref_cnt' = [ref_cnt EXCEPT ![c] = @ + 1]
           /\ Goto(w, "cond")
           /\ UNCHANGED <<target, use>>
    /\ UNCHANGED <<mem, cl_state, owner, username, queues, pdus, table, phase, listVars,
                   eventVars, cur>>

\* cond_fn: is_not_disconnected.  A node that fails it is put back ("drop")
\* and the lookup has found nothing.
htable_get_cond(w) ==
    /\ pc[w] = "cond"
    /\ Goto(w, IF cl_state[hold[w]] = "DISCONNECTED" THEN "drop"
               ELSE IF use[w] = "forward" THEN "enqueue" ELSE "put")
    /\ UNCHANGED <<clientVars, table, phase, listVars, eventVars, cur, lookupVars>>

\* mpscq_enqueue into the recipient's user data queue.
Enqueue(w) ==
    /\ pc[w] = "enqueue"
    /\ Goto(w, "put")
    /\ UNCHANGED <<clientVars, table, phase, listVars, eventVars, cur, lookupVars>>

\* node_put of the looked-up node; the last reference frees it.
Put(w) ==
    /\ pc[w] \in {"put", "drop"}
    /\ node_put(hold[w])
    /\ hold' = [hold EXCEPT ![w] = None]
    /\ EndLookup(w, Returns(use[w], pc[w] = "put"))
    /\ UNCHANGED <<cl_state, owner, username, pdus, table, phase, preauth, clth, dconn,
                   eventVars, cur>>

-----------------------------------------------------------------------------
(* wt_handle_clientevent and wt_handle_inbound_data.                        *)

\* A socket event of a client past authentication: EPOLLIN enters the inbound
\* loop if it is AUTHENTICATED, EPOLLOUT alone goes to the outbound handler.
ClientEvent(w) ==
    /\ \E c \in Client :
        /\ SockEvent(w, c)
        /\ cl_state[c] \in {"AUTHENTICATED", "DISCONNECTED"}
        /\ cur' = [cur EXCEPT ![w] = c]
        /\ \/ cl_state[c] = "AUTHENTICATED" /\ Goto(w, "inbound")
           \/ Goto(w, "outbound")
    /\ UNCHANGED <<clientVars, table, phase, listVars, lookupVars>>

\* The inbound loop ends; the same event may also carry EPOLLOUT.
LeaveInbound(w) ==
    \/ /\ Goto(w, "outbound")
       /\ UNCHANGED cur
    \/ /\ Goto(w, "batch")
       /\ cur' = [cur EXCEPT ![w] = None]

\* The handler of cur[w] is over.
Finish(w) ==
    /\ Goto(w, "batch")
    /\ cur' = [cur EXCEPT ![w] = None]

\* One round of wt_handle_inbound_data up to the first use of shared state:
\* the client was disconnected in an earlier round, recv fails, recv blocks,
\* or a PDU is complete: a message for a recipient, or a request or a PDU that
\* fails validation, answered without a lookup that matters.
Inbound(w) ==
    LET c == cur[w]
    IN /\ pc[w] = "inbound"
       /\ \/ /\ cl_state[c] = "DISCONNECTED"
             /\ Finish(w)
             /\ UNCHANGED <<cleanupVars, pdus, target, use>>
          \/ /\ cl_state[c] # "DISCONNECTED"
             /\ cleanup_std_client(w, c)
             /\ Finish(w)
             /\ UNCHANGED <<pdus, target, use>>
          \/ /\ cl_state[c] # "DISCONNECTED"
             /\ LeaveInbound(w)
             /\ UNCHANGED <<cleanupVars, pdus, target, use>>
          \/ /\ cl_state[c] # "DISCONNECTED"
             /\ pdus[c] < MaxPdus
             /\ pdus' = [pdus EXCEPT ![c] = @ + 1]
             /\ \/ Goto(w, "reply") /\ UNCHANGED <<target, use>>
                \/ \E n \in Name : StartLookup(w, n, "validate")
             /\ UNCHANGED <<cleanupVars, cur>>
       /\ UNCHANGED <<owner, username, queues, ref_cnt, table, phase, eventVars, hold>>

\* wt_serve_response: a send error cleans the sender up, but the handler goes
\* on as if it had not: an accepted message is still forwarded.
wt_serve_response(w) ==
    /\ pc[w] \in {"respond", "reply", "gone"}
    /\ \/ UNCHANGED cleanupVars
       \/ cleanup_std_client(w, cur[w])
    /\ \/ /\ pc[w] = "respond"
          /\ StartLookup(w, target[w], "forward")
          /\ UNCHANGED cur
       \/ /\ pc[w] = "reply"
          /\ Goto(w, "inbound")
          /\ UNCHANGED <<cur, target, use>>
       \/ /\ pc[w] = "gone"
          /\ LeaveInbound(w)
          /\ UNCHANGED <<target, use>>
    /\ UNCHANGED <<owner, username, queues, ref_cnt, pdus, table, phase, eventVars, hold>>

-----------------------------------------------------------------------------
(* wt_handle_outbound_data and wt_handle_queued_messages.                   *)

\* A queue event: the handler returns at once for a DISCONNECTED client.
QueueEvent(w) ==
    /\ \E c \in Client :
        /\ pc[w] = "batch"
        /\ c \in queueEv[w]
        /\ queueEv' = [queueEv EXCEPT ![w] = @ \ {c}]
        /\ \/ /\ cl_state[c] = "DISCONNECTED"
              /\ UNCHANGED <<pc, cur>>
           \/ /\ cl_state[c] # "DISCONNECTED"
              /\ cur' = [cur EXCEPT ![w] = c]
              /\ Goto(w, "queued")
    /\ UNCHANGED <<clientVars, table, phase, listVars, sockEv, loopEv, lookupVars>>

\* The message in temp_send_storage, if there is one and a user sent it: is
\* that user still connected?  (The answer only decides about a notice.)
ProbeTss(w) ==
    /\ pc[w] \in {"outbound", "queued"}
    /\ \/ /\ cl_state[cur[w]] = "DISCONNECTED"
          /\ Finish(w)
          /\ UNCHANGED <<target, use>>
       \/ /\ cl_state[cur[w]] # "DISCONNECTED"
          /\ \/ /\ Goto(w, IF pc[w] = "outbound" THEN "send" ELSE "send_tss")
                /\ UNCHANGED <<target, use>>
             \/ \E n \in Name : StartLookup(w, n, IF pc[w] = "outbound"
                                                  THEN "probe_out" ELSE "probe_tss")
          /\ UNCHANGED cur
    /\ UNCHANGED <<clientVars, table, phase, listVars, eventVars, hold>>

\* send_one_msg for temp_send_storage and the control queue, before a queued
\* user message is taken: an error or a full socket ends the handler.
SendTss(w) ==
    /\ pc[w] = "send_tss"
    /\ \/ cleanup_std_client(w, cur[w]) /\ Finish(w)
       \/ UNCHANGED cleanupVars /\ Finish(w)
       \/ UNCHANGED <<cleanupVars, cur>> /\ Goto(w, "dequeue")
    /\ UNCHANGED <<owner, username, queues, ref_cnt, pdus, table, phase, eventVars,
                   lookupVars>>

\* mpscq_dequeue of a user message, and the check that its sender is there.
Dequeue(w) ==
    /\ pc[w] = "dequeue"
    /\ \E n \in Name : StartLookup(w, n, "probe_msg")
    /\ UNCHANGED <<clientVars, table, phase, listVars, eventVars, cur, hold>>

\* The last send of a handler.
Send(w) ==
    /\ pc[w] = "send"
    /\ \/ cleanup_std_client(w, cur[w])
       \/ UNCHANGED cleanupVars
    /\ Finish(w)
    /\ UNCHANGED <<owner, username, queues, ref_cnt, pdus, table, phase, eventVars,
                   lookupVars>>

-----------------------------------------------------------------------------
(* The sweep, shutdown and the main thread.                                 *)

\* One iteration of node_arr_sweep: htable_remove by the key of the next
\* disconnected client, dropping the table's reference.
SweepOne(w) ==
    /\ pc[w] \in {"sweep", "final"}
    /\ dconn[w] # <<>>
    /\ LET n == username[Head(dconn[w])]
       IN IF Lookup(n) = {} THEN UNCHANGED <<table, ref_cnt, mem, queues, regVars>>
          ELSE \E c \in Lookup(n) :
                /\ table' = table \ {c}
                /\ node_put(c)
    /\ dconn' = [dconn EXCEPT ![w] = Tail(@)]
    /\ UNCHANGED <<cl_state, owner, username, pdus, phase, preauth, clth, eventVars, pc, cur,
                   lookupVars>>

\* The sweep is over: the next round of the loop, or the end of the thread.
SweepDone(w) ==
    /\ pc[w] \in {"sweep", "final"}
    /\ dconn[w] = <<>>
    /\ IF pc[w] = "sweep"
       THEN Goto(w, "poll") /\ UNCHANGED regVars
       ELSE /\ Goto(w, "exited")
            /\ sockReg' = [sockReg EXCEPT ![w] = {}]
            /\ queueReg' = [queueReg EXCEPT ![w] = {}]
    /\ UNCHANGED <<clientVars, table, phase, preauth, clth, dconn, eventVars, cur, lookupVars>>

\* wt_handle_shutdown: every client of the preauth list is cleaned up (none
\* of them is AUTHENTICATED, so all are freed), then the last sweep.
wt_handle_shutdown(w) ==
    /\ pc[w] = "batch"
    /\ "shutdown" \in loopEv[w]
    /\ mem' = FreeMem(preauth[w])
    /\ sockReg' = [sockReg EXCEPT ![w] = @ \ preauth[w]]
    /\ preauth' = [preauth EXCEPT ![w] = {}]
    /\ clth' = [clth EXCEPT ![w] = {}]
    /\ sockEv' = [sockEv EXCEPT ![w] = {}]
    /\ queueEv' = [queueEv EXCEPT ![w] = {}]
    /\ loopEv' = [loopEv EXCEPT ![w] = {}]
    /\ Goto(w, "final")
    /\ UNCHANGED <<cl_state, owner, username, queues, ref_cnt, pdus, table, phase, dconn,
                   queueReg, cur, lookupVars>>

\* main: the control interface asks for a shutdown.
MainShutdown ==
    /\ phase = "run"
    /\ phase' = "join"
    /\ UNCHANGED <<clientVars, table, listVars, eventVars, pc, cur, lookupVars>>

\* main: all workers joined; htable_delete frees every client still linked.
MainDelete ==
    /\ phase = "join"
    /\ \A w \in Worker : pc[w] = "exited"
    /\ mem' = FreeMem(table)
    /\ queues' = [c \in Client |-> IF c \in table THEN FALSE ELSE queues[c]]
    /\ table' = {}
    /\ phase' = "deleted"
    /\ UNCHANGED <<cl_state, owner, username, ref_cnt, pdus, listVars, eventVars, pc, cur,
                   lookupVars>>

Terminated ==
    /\ phase = "deleted"
    /\ UNCHANGED vars

-----------------------------------------------------------------------------

WorkerStep(w) ==
    \/ handle_clth_timeout(w)
    \/ epoll_wait(w)
    \/ BatchDone(w)
    \/ NewConnection(w)
    \/ AcceptDone(w)
    \/ HangUp(w)
    \/ wt_handle_accepting(w)
    \/ AuthCheck(w)
    \/ AuthAdd(w)
    \/ AuthDone(w)
    \/ htable_get(w)
    \/ htable_get_cond(w)
    \/ Enqueue(w)
    \/ Put(w)
    \/ ClientEvent(w)
    \/ Inbound(w)
    \/ wt_serve_response(w)
    \/ QueueEvent(w)
    \/ ProbeTss(w)
    \/ SendTss(w)
    \/ Dequeue(w)
    \/ Send(w)
    \/ SweepOne(w)
    \/ SweepDone(w)
    \/ wt_handle_shutdown(w)

Next ==
    \/ \E w \in Worker : WorkerStep(w)
    \/ MainShutdown
    \/ MainDelete
    \/ Terminated

Spec == Init /\ [][Next]_vars

\* Threads are scheduled and their system calls return: a worker that can
\* take a step takes one, and so does main once the workers have exited.
Fairness == (\A w \in Worker : WF_vars(WorkerStep(w))) /\ WF_vars(MainDelete)

FairSpec == Spec /\ Fairness

-----------------------------------------------------------------------------
(* Properties.                                                              *)

\* The clients waiting for w's sweep.
OnDconn(w) == {dconn[w][i] : i \in 1..Len(dconn[w])}

\* Every client some part of the server can still reach: through the table,
\* a list, the heap, the disconnect array, an epoll registration, an event of
\* the current batch, the handler in progress, or a counted reference.
Reachable(c) ==
    \/ c \in table
    \/ \E w \in Worker :
        \/ c \in preauth[w] \cup clth[w] \cup OnDconn(w)
        \/ c \in sockReg[w] \cup queueReg[w] \cup sockEv[w] \cup queueEv[w]
        \/ cur[w] = c
        \/ hold[w] = c

\* No use after free: whatever a worker can still reach is allocated.  An
\* event returned by epoll_wait before its client was cleaned up, or a
\* reference taken by another worker, never outlives the client.
NoDangling == \A c \in Client : Reachable(c) => mem[c] = "live"

\* No client is freed twice, and none while it was never allocated.
NoDoubleFree == \A c \in Client : mem[c] # "corrupt"

Holders(c) == {w \in Worker : hold[w] = c}

\* Does the reference create_std_client counted still stand?  It is the
\* table's, and is dropped when the sweep unlinks the client.
TableRef(c) ==
    IF c \in table \/ cl_state[c] \notin {"AUTHENTICATED", "DISCONNECTED"} THEN 1 ELSE 0

\* The reference count of a live client is exact: the table's reference plus
\* one for each worker between htable_get and node_put.
RefCountExact ==
    \A c \in Client : mem[c] = "live" =>
        ref_cnt[c] = TableRef(c) + Cardinality(Holders(c))

Authenticated(c) == mem[c] = "live" /\ cl_state[c] = "AUTHENTICATED"

\* A user name belongs to at most one session, although the check for a
\* duplicate and the insertion are separate steps of several workers.
UniqueSession ==
    \A c, d \in Client :
        Authenticated(c) /\ Authenticated(d) /\ c # d => username[c] # username[d]

\* The sweep removes by key: the node it removes is the one it cleaned up,
\* never a newer session under the same name.
SweepsOwnNode ==
    \A w \in Worker : \A c \in OnDconn(w) : Lookup(username[c]) = {c}

\* Every client past the handshake and not yet authenticated is under a
\* deadline: the heap holds exactly the ACCEPTED clients of the preauth list,
\* so the root is never CLTH_NOT_APPLICABLE and nobody waits for ever.
DeadlineCovered ==
    \A w \in Worker : clth[w] = {c \in preauth[w] : cl_state[c] = "ACCEPTED"}

\* A message is only enqueued into a queue that exists.
EnqueueSafe == \A w \in Worker : pc[w] = "enqueue" => queues[hold[w]]

\* When the server has shut down, every client it ever allocated is freed.
NoLeak == phase = "deleted" => \A c \in Client : mem[c] # "live"

\* A disconnected client does not linger: each is eventually freed, and as a
\* client is disconnected once, a time comes when none is waiting for it.
EventuallyFreed ==
    LET Waiting == {c \in Client : cl_state[c] = "DISCONNECTED" /\ mem[c] # "freed"}
    IN  Waiting # {} ~> Waiting = {}

\* A shutdown request is eventually carried out: no worker misses it.
ShutdownCompletes == phase = "join" ~> phase = "deleted"

-----------------------------------------------------------------------------
(* The inductive invariant behind the safety properties: where a client can *)
(* be at each stage of its life, and what a worker at each label knows.     *)

IdlePCs == {"poll", "batch", "sweep", "final", "exited"}
HoldPCs == {"cond", "enqueue", "put", "drop"}

\* What the label of a worker says about its local variables.
LocalInv ==
    \A w \in Worker :
        /\ pc[w] \in IdlePCs <=> cur[w] = None
        /\ pc[w] \in HoldPCs <=> hold[w] # None
        /\ pc[w] \in HoldPCs \cup {"get"} => use[w] # "none"
        /\ pc[w] \in HoldPCs \cup {"get", "respond", "auth_add"} => target[w] # None
        /\ pc[w] \in {"poll", "sweep", "final", "exited"} =>
              sockEv[w] = {} /\ queueEv[w] = {} /\ loopEv[w] = {}
        /\ pc[w] \in {"final", "exited"} => preauth[w] = {}
        /\ pc[w] = "exited" =>
              sockReg[w] = {} /\ queueReg[w] = {} /\ dconn[w] = <<>>

\* A client known to no other worker: handshake or authentication pending.
Pending(c) == cl_state[c] \in {"ACCEPTING", "ACCEPTED"} /\ c \notin table

\* The client a worker is handling is its own and, but for an authentication
\* in progress, linked into the table.
CurInv ==
    \A w \in Worker : cur[w] # None =>
        /\ owner[cur[w]] = w
        /\ mem[cur[w]] = "live"
        /\ pc[w] = "auth_add" =>
              /\ cl_state[cur[w]] = "ACCEPTED"
              /\ cur[w] \in preauth[w]
              /\ cur[w] \notin sockEv[w]
        /\ pc[w] # "auth_add" =>
              /\ cur[w] \in table
              /\ IF pc[w] = "auth_ok" THEN cl_state[cur[w]] = "ACCEPTED"
                 ELSE cl_state[cur[w]] \in {"AUTHENTICATED", "DISCONNECTED"}

\* The stages of a live client.
StageInv ==
    \A c \in Client : mem[c] = "live" =>
        /\ owner[c] \in Worker
        /\ cl_state[c] # "INIT"
        /\ cl_state[c] \in {"ACCEPTING", "ACCEPTED"} =>
              IF c \in table
              THEN pc[owner[c]] = "auth_ok" /\ cur[owner[c]] = c
              ELSE c \in preauth[owner[c]]
        /\ cl_state[c] = "AUTHENTICATED" => c \in table
        /\ c \in table /\ cl_state[c] = "DISCONNECTED" => c \in OnDconn(owner[c])
        /\ c \in table \/ cl_state[c] = "DISCONNECTED" => queues[c]

\* The table holds live clients under distinct names.
TableInv ==
    /\ \A c \in table : mem[c] = "live" /\ username[c] # None
    /\ \A c, d \in table : username[c] = username[d] => c = d

\* The lists of a worker hold its own clients in the right stage.
ListInv ==
    \A w \in Worker :
        /\ \A c \in preauth[w] : mem[c] = "live" /\ owner[c] = w /\ Pending(c)
        /\ \A c \in OnDconn(w) :
              c \in table /\ owner[c] = w /\ cl_state[c] = "DISCONNECTED"
        /\ \A i, j \in 1..Len(dconn[w]) : dconn[w][i] = dconn[w][j] => i = j

\* Registered descriptors and pending events belong to the worker's clients.
EventInv ==
    \A w \in Worker :
        /\ \A c \in sockReg[w] \cup queueReg[w] :
              owner[c] = w /\ mem[c] = "live" /\ cl_state[c] # "DISCONNECTED"
        /\ \A c \in sockEv[w] \cup queueEv[w] :
              owner[c] = w /\ mem[c] = "live" /\ (Pending(c) \/ c \in table)
        /\ queueReg[w] \cup queueEv[w] \subseteq table

\* A counted reference is to a client that was linked, and keeps it alive.
HoldInv ==
    /\ \A w \in Worker : hold[w] # None =>
          mem[hold[w]] = "live" /\ ~ Pending(hold[w])
    /\ \A c \in Client :
          mem[c] = "live" /\ cl_state[c] = "DISCONNECTED" /\ c \notin table
          => \E w \in Worker : hold[w] = c

\* Once main has deleted the table, no worker runs.
PhaseInv ==
    phase = "deleted" => table = {} /\ \A w \in Worker : pc[w] = "exited"

\* The inductive invariant: all of the above, exact counts and no double free.
IInv ==
    /\ TypeOK
    /\ LocalInv
    /\ CurInv
    /\ StageInv
    /\ TableInv
    /\ ListInv
    /\ DeadlineCovered
    /\ EventInv
    /\ HoldInv
    /\ NoDoubleFree
    /\ RefCountExact
    /\ PhaseInv
    /\ NoLeak

=============================================================================
