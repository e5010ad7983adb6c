---------------------------- MODULE Registration ----------------------------
(***************************************************************************)
(* The registration thread (server/registration.c) and the part of the      *)
(* control interface that steers it (server/servctrl.c).                    *)
(*                                                                          *)
(* One thread serves all registration clients.  The main thread, reading    *)
(* console commands, switches the service on and off by storing a flag and  *)
(* writing an eventfd, two steps of one thread against two steps of the     *)
(* other, and keeps block records that the registration thread also keeps.  *)
(* A request is reduced to its outcome, a block record to what chk_reg_block *)
(* tells apart, and the deadline of a client to whether it has passed; the  *)
(* array behind the timer heap is the subject of TimerHeap.                 *)
(*                                                                          *)
(* The handshake is made on a socket that still blocks: with TLS the thread *)
(* stays in SSL_accept until the peer has answered or gone.  A handshake    *)
(* left in progress is therefore never seen, and the branches that continue *)
(* one have no counterpart here.                                            *)
(***************************************************************************)
EXTENDS Naturals

CONSTANTS
    Client,     \* reg_client_nodes; each is allocated at most once
    Addr,       \* peer addresses
    None,       \* no client
    MaxCmds     \* bound: commands entered before shutdown_server

ASSUME RegistrationAssumption == None \notin Client /\ MaxCmds \in Nat

VARIABLES
    \* shared with the main thread
    use_tls,                \* which accept_fn g_server_cfg holds; set once
    allow_registrations,    \* the flag of g_server_cfg
    flg_reg_changed,        \* the count of the eventfd
    flg_shutdown,           \* has the other eventfd been written?
    record,                 \* reg_ipblock_tbl: what is on record of an address
    \* the main thread
    command,    \* "ready", or "stored" before its eventfd_write, or "ended"
    cmds,       \* commands entered so far
    \* the registration thread
    listener,   \* ec_listener.fd is a socket, and not -1
    broken,     \* history: the socket failed since it was last opened or closed
    mem,        \* "unused", "live", "freed" or "corrupt"
    peer,       \* peer_name
    list,       \* reg_client_list
    clth,       \* the clients in the timer heap
    due,        \* the clients whose deadline has passed
    epoll,      \* the clients registered with epollfd
    clientEv,   \* clients with an event of the current batch not yet handled
    loopEv,     \* the other events of the batch not yet handled
    cur,        \* the connection being accepted, not yet tracked
    pc          \* where the thread is

sharedVars == <<use_tls, allow_registrations, flg_reg_changed, flg_shutdown>>
mainVars == <<command, cmds>>
listenVars == <<listener, broken>>
clientVars == <<mem, peer, list, clth, due, epoll>>
eventVars == <<clientEv, loopEv, cur>>
vars == <<sharedVars, record, mainVars, listenVars, clientVars, eventVars, pc>>

Statuses == {"none", "counted", "blocked", "manual", "expired"}

TypeOK ==
    /\ use_tls \in BOOLEAN
    /\ allow_registrations \in BOOLEAN
    /\ flg_reg_changed \in Nat
    /\ flg_shutdown \in BOOLEAN
    /\ record \in [Addr -> Statuses]
    /\ command \in {"ready", "stored", "ended"}
    /\ cmds \in 0..MaxCmds
    /\ listener \in BOOLEAN
    /\ broken \in BOOLEAN
    /\ mem \in [Client -> {"unused", "live", "freed", "corrupt"}]
    /\ peer \in [Client -> Addr]
    /\ list \in SUBSET Client
    /\ clth \in SUBSET Client
    /\ due \in SUBSET Client
    /\ epoll \in SUBSET Client
    /\ clientEv \in SUBSET Client
    /\ loopEv \in SUBSET {"listener", "changed", "shutdown"}
    /\ cur \in Client \cup {None}
    /\ pc \in {"poll", "batch", "toggle", "remove", "admit", "exited"}

\* reg_thrd_routine up to its loop: the listener is opened, if it can be, when
\* the configuration allows registrations.
Init ==
    /\ use_tls \in BOOLEAN
    /\ allow_registrations \in BOOLEAN
    /\ flg_reg_changed = 0
    /\ flg_shutdown = FALSE
    /\ record = [a \in Addr |-> "none"]
    /\ command = "ready"
    /\ cmds = 0
    /\ listener \in {FALSE, allow_registrations}
    /\ broken = (allow_registrations # listener)
    /\ mem = [c \in Client |-> "unused"]
    /\ peer \in [Client -> Addr]
    /\ list = {}
    /\ clth = {}
    /\ due = {}
    /\ epoll = {}
    /\ clientEv = {}
    /\ loopEv = {}
    /\ cur = None
    /\ pc = "poll"

-----------------------------------------------------------------------------
(* The control interface.                                                   *)

Command ==
    /\ command = "ready"
    /\ cmds < MaxCmds
    /\ cmds' = cmds + 1

\* handle_ctrl_registrations: an argument that changes the flag is stored ...
SetFlag ==
    /\ Command
    /\ allow_registrations' = ~ allow_registrations
    /\ command' = "stored"
    /\ UNCHANGED <<use_tls, flg_reg_changed, flg_shutdown, record, listenVars, clientVars, eventVars, pc>>

\* ... and then announced.
Announce ==
    /\ command = "stored"
    /\ flg_reg_changed' = flg_reg_changed + 1
    /\ command' = "ready"
    /\ UNCHANGED <<use_tls, allow_registrations, flg_shutdown, record, cmds, listenVars, clientVars, eventVars, pc>>

\* handle_ctrl_reg_ipblock: an address that is on record already stays as it
\* is, blocked or not.
reg_ipblock(a) ==
    /\ Command
    /\ record' = [record EXCEPT ![a] = IF @ = "none" THEN "manual" ELSE @]
    /\ UNCHANGED <<command, sharedVars, listenVars, clientVars, eventVars, pc>>

reg_unblock(a) ==
    /\ Command
    /\ record' = [record EXCEPT ![a] = "none"]
    /\ UNCHANGED <<command, sharedVars, listenVars, clientVars, eventVars, pc>>

shutdown_server ==
    /\ command = "ready"
    /\ flg_shutdown' = TRUE
    /\ command' = "ended"
    /\ UNCHANGED <<use_tls, allow_registrations, flg_reg_changed, record, cmds, listenVars, clientVars, eventVars, pc>>

-----------------------------------------------------------------------------
(* The clients: the list, the heap and memory.                              *)

list_add(c) == list' = list \cup {c}
list_remove(c) == list' = list \ {c}

Freed(S) ==
    [c \in Client |-> IF c \notin S THEN mem[c]
                      ELSE IF mem[c] = "live" THEN "freed" ELSE "corrupt"]

\* Mutant: the heap keeps a pointer to the client that is freed.
cleanup_reg_client_KeepsHeap(c) ==
    /\ epoll' = epoll \ {c}
    /\ list_remove(c)
    /\ mem' = Freed({c})
    /\ UNCHANGED <<clth, due, peer>>

cleanup_reg_client(c) ==
    /\ epoll' = epoll \ {c}
    /\ clth' = clth \ {c}
    /\ due' = due \ {c}
    /\ list_remove(c)
    /\ mem' = Freed({c})
    /\ UNCHANGED peer

\* The handshake is done: the client gets its deadline.
track_new_client(c) ==
    /\ mem' = [mem EXCEPT ![c] = "live"]
    /\ list_add(c)
    /\ clth' = clth \cup {c}
    /\ epoll' = epoll \cup {c}
    /\ UNCHANGED <<due, peer>>

-----------------------------------------------------------------------------
(* The loop of reg_thrd_routine.                                            *)

\* The clock: a deadline passes.
Tick(c) ==
    /\ c \in clth \ due
    /\ due' = due \cup {c}
    /\ UNCHANGED <<sharedVars, record, mainVars, listenVars, mem, peer, list, clth,
                   epoll, eventVars, pc>>

\* The clock: a record that counts or blocks grows old.
Expire(a) ==
    /\ record[a] \in {"counted", "blocked"}
    /\ record' = [record EXCEPT ![a] = "expired"]
    /\ UNCHANGED <<sharedVars, mainVars, listenVars, clientVars, eventVars, pc>>

\* Mutant: a client that is due is popped and told, but not cleaned up.
handle_clth_timeout_PopOnly ==
    /\ pc = "poll"
    /\ \E c \in clth \cap due : clth' = clth \ {c} /\ due' = due \ {c}
    /\ UNCHANGED <<sharedVars, record, mainVars, listenVars, mem, peer, list, epoll,
                   eventVars, pc>>

\* handle_clth_timeout: every client that is due is told so and cleaned up
\* before the thread waits.
handle_clth_timeout ==
    /\ pc = "poll"
    /\ \E c \in clth \cap due : cleanup_reg_client(c)
    /\ UNCHANGED <<sharedVars, record, mainVars, listenVars, eventVars, pc>>

\* The eventfds that are readable are in every batch, the sockets may be.
Readable ==
    {e \in {"changed", "shutdown"} :
        \/ e = "changed" /\ flg_reg_changed > 0
        \/ e = "shutdown" /\ flg_shutdown}

epoll_wait ==
    /\ pc = "poll"
    /\ clth \cap due = {}
    /\ \E S \in SUBSET epoll, L \in SUBSET {"listener"} :
        /\ L = {} \/ listener
        /\ S \cup L \cup Readable # {}
        /\ clientEv' = S
        /\ loopEv' = L \cup Readable
    /\ pc' = "batch"
    /\ UNCHANGED <<sharedVars, record, mainVars, listenVars, clientVars, cur>>

BatchDone ==
    /\ pc = "batch"
    /\ clientEv = {} /\ loopEv = {}
    /\ pc' = "poll"
    /\ UNCHANGED <<sharedVars, record, mainVars, listenVars, clientVars, eventVars>>

LoopEvent(e) ==
    /\ pc = "batch"
    /\ e \in loopEv
    /\ loopEv' = loopEv \ {e}
    /\ UNCHANGED <<clientEv, cur>>

ClientEvent(c) ==
    /\ pc = "batch"
    /\ c \in clientEv
    /\ clientEv' = clientEv \ {c}
    /\ UNCHANGED <<loopEv, cur>>

-----------------------------------------------------------------------------
(* Switching the service on and off.                                        *)

\* Mutant: the event is not told from the shutdown event.
ReadChanged_Any ==
    /\ \E e \in {"changed", "shutdown"} : LoopEvent(e)
    /\ flg_reg_changed' = 0
    /\ pc' = "toggle"
    /\ UNCHANGED <<use_tls, allow_registrations, flg_shutdown, record, mainVars, listenVars, clientVars>>

\* handle_flg_reg_changed: the read empties the eventfd, however often it was
\* written ...
ReadChanged ==
    /\ LoopEvent("changed")
    /\ flg_reg_changed' = 0
    /\ pc' = "toggle"
    /\ UNCHANGED <<use_tls, allow_registrations, flg_shutdown, record, mainVars, listenVars, clientVars>>

\* Mutant: an event flips the listener, the flag is not consulted.
ApplyFlag_Flips ==
    /\ pc = "toggle"
    /\ \/ listener' = ~ listener
       \/ ~ listener /\ listener' = FALSE
    /\ broken' = (~ listener /\ ~ listener')
    /\ pc' = "batch"
    /\ UNCHANGED <<sharedVars, record, mainVars, clientVars, eventVars>>

\* ... and only then the flag is loaded and the listener brought into line
\* with it.  Opening the socket may fail.
ApplyFlag ==
    /\ pc = "toggle"
    /\ \/ listener' = allow_registrations
       \/ allow_registrations /\ ~ listener /\ listener' = FALSE
    /\ broken' = (allow_registrations # listener')
    /\ pc' = "batch"
    /\ UNCHANGED <<sharedVars, record, mainVars, clientVars, eventVars>>

-----------------------------------------------------------------------------
(* handle_new_connections, one connection after the other.                  *)

\* A connection from a blocked (or, with the whitelist on, an unlisted)
\* address is closed; an expired record is removed first.
Accept ==
    /\ pc = "batch" /\ "listener" \in loopEv /\ listener
    /\ \E c \in Client :
        /\ mem[c] = "unused"
        /\ record[peer[c]] \notin {"blocked", "manual"}
        /\ cur' = c
        /\ pc' = IF record[peer[c]] = "expired" THEN "remove" ELSE "admit"
    /\ UNCHANGED <<sharedVars, record, mainVars, listenVars, clientVars, clientEv, loopEv>>

\* htable_remove by address: whatever is on record by now.
RemoveExpired ==
    /\ pc = "remove"
    /\ record' = [record EXCEPT ![peer[cur]] = "none"]
    /\ pc' = "admit"
    /\ UNCHANGED <<sharedVars, mainVars, listenVars, clientVars, eventVars>>

\* accept_fn returns: there is nothing to do over plain TCP; over TLS the peer
\* has finished the handshake, or failed it.  The thread waits for that as
\* long as the peer likes.
Admit ==
    /\ pc = "admit"
    /\ \/ track_new_client(cur)
       \/ /\ use_tls
          /\ mem' = [mem EXCEPT ![cur] = "freed"]
          /\ UNCHANGED <<peer, list, clth, due, epoll>>
    /\ cur' = None
    /\ pc' = "batch"
    /\ UNCHANGED <<sharedVars, record, mainVars, listenVars, clientEv, loopEv>>

\* accept() has no more, or fails: then the listener is given up although the
\* flag allows it.  It also fails, on fd -1, if this batch closed the listener.
AcceptDone ==
    /\ LoopEvent("listener")
    /\ \/ listener /\ UNCHANGED listenVars
       \/ listener' = FALSE /\ broken' = (broken \/ listener)
    /\ UNCHANGED <<sharedVars, record, mainVars, clientVars, pc>>

-----------------------------------------------------------------------------
(* reg_handle_disconnect and handle_client_event.                           *)

\* EPOLLHUP or EPOLLERR.  A request that had arrived in full is carried out,
\* without an entry in the block records.
reg_handle_disconnect ==
    /\ \E c \in Client : ClientEvent(c) /\ cleanup_reg_client(c)
    /\ UNCHANGED <<sharedVars, record, mainVars, listenVars, pc>>

\* recv_fn blocks, adds a part of the request, or fails.
Receive ==
    /\ \E c \in Client :
        /\ ClientEvent(c)
        /\ cleanup_reg_client(c) \/ UNCHANGED clientVars
    /\ UNCHANGED <<sharedVars, record, mainVars, listenVars, pc>>

\* What manage_reg_ipbr can make of a record: one success blocks, a failure
\* is counted and may be the one too many; an old record stays as it is.
manage_reg_ipbr(old, success) ==
    IF old \in {"blocked", "manual", "expired"} THEN {old}
    ELSE IF success THEN {"blocked"}
    ELSE IF old = "none" THEN {"counted"} ELSE {"counted", "blocked"}

\* The request is complete: it is processed, put on record unless it was a
\* deletion that succeeded, answered, and the client is cleaned up.
Request ==
    /\ \E c \in Client :
        /\ ClientEvent(c)
        /\ \/ UNCHANGED record
           \/ \E success \in BOOLEAN :
                \E new \in manage_reg_ipbr(record[peer[c]], success) :
                    record' = [record EXCEPT ![peer[c]] = new]
        /\ cleanup_reg_client(c)
    /\ UNCHANGED <<sharedVars, mainVars, listenVars, pc>>

\* handle_shutdown: the rest of the batch is dropped, everything is freed.
handle_shutdown ==
    /\ pc = "batch" /\ "shutdown" \in loopEv
    /\ loopEv' = {} /\ clientEv' = {}
    /\ listener' = FALSE
    /\ mem' = Freed(list)
    /\ epoll' = {} /\ list' = {} /\ clth' = {} /\ due' = {}
    /\ pc' = "exited"
    /\ UNCHANGED <<sharedVars, record, mainVars, broken, peer, cur>>

Terminated ==
    /\ pc = "exited" /\ command = "ended"
    /\ UNCHANGED vars

-----------------------------------------------------------------------------

\* What the thread does once epoll_wait has returned.
Handle ==
    \/ BatchDone
    \/ ReadChanged
    \/ ApplyFlag
    \/ Accept
    \/ RemoveExpired
    \/ Admit
    \/ AcceptDone
    \/ reg_handle_disconnect
    \/ Receive
    \/ Request
    \/ handle_shutdown

Next ==
    \/ SetFlag
    \/ Announce
    \/ \E a \in Addr : reg_ipblock(a) \/ reg_unblock(a) \/ Expire(a)
    \/ shutdown_server
    \/ \E c \in Client : Tick(c)
    \/ handle_clth_timeout
    \/ epoll_wait
    \/ Handle
    \/ Terminated

Spec == Init /\ [][Next]_vars

\* The threads keep running, time passes, and a readable eventfd ends the
\* wait.  Nothing makes a peer send, nor answer a handshake the thread waits
\* for.
FairSpec ==
    /\ Spec
    /\ WF_vars(Announce)
    /\ \A c \in Client : WF_vars(Tick(c))
    /\ WF_vars(handle_clth_timeout)
    /\ WF_vars(epoll_wait /\ Readable # {})
    /\ WF_vars(Handle /\ (use_tls => pc # "admit"))

-----------------------------------------------------------------------------
(* Properties.                                                              *)

\* Whatever the thread can still reach is allocated: through the list, the
\* heap, an epoll registration or an event of the batch.
NoDangling == \A c \in list \cup clth \cup epoll \cup clientEv : mem[c] = "live"

\* When the thread waits and no change is announced or about to be, the
\* service is on exactly if it is allowed, unless its socket has failed.
ListenerAgrees ==
    pc = "poll" /\ flg_reg_changed = 0 /\ command # "stored" =>
        listener = allow_registrations \/ (broken /\ allow_registrations)

\* No client outlives the thread.
NoLeak == pc = "exited" => \A c \in Client : mem[c] # "live"

\* A peer that neither answers the handshake nor hangs up holds the thread.
PeerHolds == <>[](use_tls /\ pc = "admit")

\* A shutdown is not missed, whatever else is in the batch, unless a peer
\* holds the thread in its handshake.
ShutdownServed == PeerHolds \/ (flg_shutdown ~> pc = "exited")

\* The last command about registrations takes effect, although several may be
\* announced by one event and the flag may change while an event is handled.
ListenerFollows ==
    PeerHolds \/ <>[](flg_shutdown \/ broken \/ listener = allow_registrations)

\* No client stays longer than its deadline ("the state a client must NOT be
\* in after CLTH_X_MAXPERM_TIME", cltimerheap.c), unless a peer holds the
\* thread.
DeadlineMet == PeerHolds \/ \A c \in Client : mem[c] = "live" ~> mem[c] = "freed"

-----------------------------------------------------------------------------
(* The inductive invariant.                                                 *)

\* The list holds all clients, the thread's other sets are parts of it.
ListInv ==
    /\ \A c \in Client : c \in list <=> mem[c] = "live"
    /\ epoll = list
    /\ clth = list /\ due \subseteq clth
    /\ clientEv \subseteq list

\* Between the steps of a handler.
StepInv ==
    /\ pc \in {"poll", "exited"} => clientEv = {} /\ loopEv = {}
    /\ pc \in {"remove", "admit"} <=> cur # None
    /\ cur # None => mem[cur] = "unused"
    /\ pc = "exited" => list = {}
    /\ \A c \in Client : mem[c] # "corrupt"

\* The listener and the flag differ only while a change is on its way.
ListenerInv ==
    \/ listener = allow_registrations
    \/ broken /\ allow_registrations
    \/ command = "stored" \/ flg_reg_changed > 0 \/ pc \in {"toggle", "exited"}

IInv == TypeOK /\ ListInv /\ StepInv /\ ListenerInv

=============================================================================
