# A TLA+ verification of lwmsg

lwmsg is a messaging server written in C: several threads, one epoll loop each,
TLS or plain TCP, and a command-line client.  The repository has no documents and
no tests; comments, constants and log messages are all it says about itself.
This directory models the server, its client program and the part of its logging
library that runs concurrently in TLA+, checks them with TLC on small instances,
and proves the safety properties of the core with TLAPS for every instance.

`PROJECT.json` lists components, runs, mutants, hazards, findings and theorems,
and maps every definition that models code to the lines it models.

## 1. Inventory

### The server's parts

| Part | State | Operations | Interacts with |
|---|---|---|---|
| Worker loop and sessions (`worker.c`, `clhandle.c`) | per worker: preauth list, timer heap, disconnect array, epoll set; per client: state, name, queues, reference count | accept, handshake, authenticate, read PDUs, look up a recipient, deliver, disconnect, sweep, shut down | all workers share the client table; a worker enqueues into clients of other workers |
| Client table (`htable.c`) | buckets, stripe locks, resize lock, element count; a reference count per node | add, remove, get with or without reference, conditional get, copy all keys, resize, delete | workers, registration, console |
| Message queue (`thrdmsg_mpscq.c`) | doubly linked list, mutex, semaphore eventfd | enqueue, dequeue, flush by sender, destroy | written by any worker, read by the owner of the client |
| Timer heap (`cltimerheap.c`) | array of client pointers, back index and deadline in each client | add, remove, pop, compute the wait | workers and registration thread, each with its own heap |
| Delivery (`worker.c`) | `temp_send_storage`, two queues, epoll interest in socket and queue | send, block, resume, answer a request, notify about a departed sender | message queue, client table |
| Inbound stream (`worker.c`, `common/lwmp.c`) | receive buffer, header and chunk progress, desynchronised flag | header, chunk, resynchronisation | produces responses and messages |
| Registration thread (`registration.c`) | client list, heap, listener, eventfd and flag shared with main | toggle listener, accept, handshake, process a request, time out, shut down | console, block records, database |
| Block records (`ipblock.c`) | per address: counters, time stamp, manual flag, reference count | create, check, count, remove | workers, registration thread, console |
| Control interface (`servctrl.c`) | none of its own | commands from the FIFO `/tmp/lwmsg.ctrl` | flags, eventfds and tables of the others |
| Start-up and end (`server.c`, `thrdctx.c`) | start state under a condition variable, thread contexts | create contexts, start threads, broadcast, join, delete | all threads |
| Configuration (`servcfg.c`) | one record, a file | load with range checks and defaults, change single fields, save at exit | main, console |
| Database, network wrappers, utilities | SQLite; sockets | sequential calls | used by all |
| Client program (`client/`) | connection state, receive buffer, transfers in progress | connect, disconnect, send a message or a file, list users, wait for a response, receive | the server's protocol |
| zlog (`lib/zlog/src`) | environment under a lock, a context per thread, a ring of messages, a consumer thread | log a line, reload the configuration, flush, end | every thread of the server |

### What is hard in it

- **Lifetime across threads.** A client is owned by one worker and can be found
  and written to by all others.  It is freed by whoever drops the last reference,
  by the sweep at the end of a batch, by the shutdown of its worker, or by main.
- **Batches.** One `epoll_wait` returns many events; an early one may disconnect
  the client a later one refers to.
- **Check, then act by key.** Names and addresses are looked up, the lock is
  released, and a later add or remove goes by key again.
- **Interest sets.** A message half on the wire is resumed only if the worker
  asked epoll for the right event before it went to sleep.
- **Two-step signals.** A flag and its eventfd are written and read in two steps
  on either side.
- **Boundaries.** An eight-bit counter, a heap macro without parentheses, an
  array that grows when full, expiry arithmetic.
- **The end.** Shutdown arrives in mid-batch, and three parties free clients.
- **Streams.** Both ends cut messages out of a byte stream; a file that is broken
  off leaves bytes that must be told from the next header, and OpenSSL may hold
  bytes that epoll does not report.
- **Locks in two levels.** A table operation takes the size lock and a stripe; the
  user list takes one stripe after the other.
- **Failed starts.** Any step of main may fail while threads already wait.
- **A call that blocks.** The registration thread makes each TLS handshake on a
  socket that is not yet non-blocking, so its peers decide when it goes on.
- **A writer behind the threads.** Lines are handed to a consumer thread that may
  be replaced, and that reads contexts of threads that have ended.

### What makes each part correct

| Part | Properties |
|---|---|
| Sessions | nothing freed is reachable; nothing is freed twice; counts exact; one session per name; a sweep removes its own client; a pending client has a deadline; nothing leaks; a disconnected client is freed; shutdown completes |
| Message queue | list sound in both directions; eventfd counts messages; a woken consumer finds one; destroy reaches every node; implements a FIFO with removal by sender |
| Timer heap | slots and indices inverse; nobody lost; in bounds; sleep bounded; nobody sleeps past a deadline (fails) |
| Delivery | nothing stranded; messages whole on the wire; order per sender; what is queued is sent |
| Inbound stream and answers | bytes reach only the user they were addressed to; messages arrive whole; the handler returns; every command is answered |
| Hash table | acts as a set with atomic operations; the count is exact; the user list is complete; every call returns |
| Registration | nothing freed is reachable; the listener follows the flag; shutdown served; deadlines met (each unless a peer holds the thread) |
| Block records | references exact; a block lasts (unless the counter wraps); only expired records are removed for their age (fails); they expire on time (fails) |
| Start-up, end, configuration | no thread outlives what it uses; everything is given back; the process ends (unless a peer holds the registration thread); a restart keeps the settings (but for a size below the minimum) |
| Client program | files are saved whole (unless the server has flushed the beginning of a later one); nothing of an old connection is left; what arrives is shown |
| zlog | lines are taken once and in order; under the configuration they were logged with; from memory that is still there; all are written |

## 2. Modules and the code

Each module keeps the control flow of its handlers and abstracts their data.  A
handler is split where another thread can observe or change something in
between: at a table operation, an atomic load or store, a reference count, an
eventfd.  Code that touches only the thread's own state is one step.

**`Session`** - the life of a client: `wt_handle_new_connections`,
`wt_handle_accepting`, `wt_handle_authentication` (name check, then add: two
steps), `wt_handle_clientevent`, `wt_handle_inbound_data` as far as it concerns
other clients (validation, lookup under a reference, enqueue, put),
`wt_serve_response`, `wt_handle_queued_messages`, `cleanup_std_client`,
`node_arr_sweep`, `handle_clth_timeout`, `wt_handle_shutdown`, and main's join
and `htable_delete`.  `mem` is a history of the allocator: a client is unused,
live, freed, or corrupt after a second free.  The table is a set with unique
names; its operations are atomic because the code holds the stripe lock for
each.  A PDU is one of: a request, a message to a name, an error.

**`MsgFifo`** is what the message queue promises: messages with the order of their
arrival, one message in the consumer's hand, atomic enqueue, dequeue of the
oldest, removal by sender and destruction.  The order is kept as the set of
messages that came before each one rather than as a sequence, so that removing
from the middle is a set difference.  **`MsgQueue`** is the pointer code: `next`,
`prev`, `head`, `tail`, mutex and eventfd, with the linking and the signalling of
an enqueue, the reading and the unlinking of a dequeue, and each iteration of a
flush and of the destruction as steps of their own.  `older` is a history of the
arrivals that no step reads.  `Contents`, `Arrival` and `Dequeued` are what the
queue's users see, from the moment a call has the mutex; `FifoSpec` states the
refinement.

**`TimerHeap`** - the array, `timerheap_index`, growth, and each iteration of
`heapify_up` and `heapify_down` as an action, with the sleeping thread around
it.  The macro `MIN` is modelled as the preprocessor expands it at both places of
use (`MIN`, `MINEquals`).

**`Delivery`** - one client's way out: `temp_send_storage`, control and message
queue, and what epoll watches, under partial sends.  Both queues are sequences in
the order of arrival (`MsgFifo`, which `MsgQueue` implements); a flush leaves the
messages of the other senders in their order.  Senders disconnect and return.

**`Registration`** - the registration thread and the console commands that
concern it.  A block record is one of none, counted, blocked, manual, expired.
The heap is a set; the array is `TimerHeap`'s subject.  `SSL_accept`
(`registration.c:179`) is called before `track_new_client` makes the socket
non-blocking (line 103), so the handshake ends within `Admit`, in success or in an
error, or the peer holds the thread there for ever: nothing obliges a step at
`admit` when `use_tls`.  A client left `ACCEPTING` is never seen, and the branches
that continue its handshake (lines 108, 263-278) are left out.  The sockets of the
workers are non-blocking before the handshake (`worker.c:118`).

**`IpBlock`** - the record of one address shared by the workers and the console.
Lookup, check, removal by key and `node_put` are separate steps.  Records of
different addresses have different keys, so one address is enough.  The counter
wraps at `UINT8`; `exposed` is a history of the connections that were open when a
record reached the limit.

**`Link`** - one connection, both ends: the sending commands of the client
(`cmd_msg`, `cmd_userlist`, `cmd_sendfile`, `await_resp`) and the server's
`wt_handle_inbound_data` with `lwmp_validate_hdrs` and `lwmp_stream_resync`.  The
stream is a sequence of units, each a position of a command, of which the first
two are the header; a unit of a file may look like the mark of a header.  With TLS,
what is left of a record that OpenSSL has begun to hand out is not seen by epoll
(`held`).  `up` and `down` are the two directions of the socket, `curr` is
`temp_recv_storage`, `at` says where the worker is.  Recipients leave between the
first PDU and the last chunk.  This is the composition of the client's sending half with the server's receiving half;
`Delivery` is what carries the answers back.

**`KeySet`** is what the tables promise: a set of keys with atomic `htable_add`,
`htable_remove` and `htable_get`.  **`StripedTable`** is `htable.c`: buckets,
sorted chains, the size lock, the stripe locks, `htable_try_resize` with its
overflow test and its failing allocations, and `htable_copy_all_keys`.  Who holds a lock
follows from where each thread is.  An addition and a removal change chain and
count in two steps, a resize moves one bucket at a time, and the user list is
copied bucket by bucket.  When also the allocation that undoes a failed resize
fails (`ShrinkFails`), the process is aborted (line 256) or the table is left with
more buckets on record than it has (line 263); that is the last step of a
behaviour, marked by `broken`.  `ActsAsSet` states the refinement.  `Session` and
`IpBlock` use the table as `KeySet` describes it.

**`Server`** - `main`: load the configuration, start the log, TLS, contexts and
threads, read commands, join, take everything down along the labels, save the
configuration, and start again.  Every call that can fail may do so.  A thread
waits for the start signal, may fail on its own, works, and ends.  The registration
thread may be accepting when the shutdown comes, and notices it only when its
peers let it go on (`Peer`).  The module is of a server with TLS.

**`Client`** - the client program as a receiver: its epoll loop, `clrecv_fill`,
`clrecv_parse`, the transfer slots, `connect` with authentication, `disconnect`,
and connections that break or are replaced.  Items arrive whole and in order
(`Delivery`), but not every item arrives: `Depart` is the worker that finds the
sender of a queued item gone and flushes by his name, which may take the first PDU
of the file of a new session and leave its chunks to come (`worker.c:700-713`), and
`Midway` a file whose first PDU went to an earlier session of this user, the rest of
which is forwarded by name.  A transfer is the list of the items it has written; the
code compares sizes in bytes, so a file put together from parts of different files
is reported at an arbitrary point (`enough`).

**`LogQueue`** - the ring of `fifo.c` with its unsigned indices, and the counters
of the consumer's record.  **`LogEnv`** - the threads on both sides of it:
`zlog_init`, the context of a thread and its rebuilding, a line logged at once or
through the queue (reserve, fill, hold a reference, commit or discard, signal),
`zlog_reload` with the flush of the old consumer, `zlog_fini`, and the consumer
thread.  After a consumer fails to start the code has no valid state
(section 4); `broken` records that.

The `MC*` modules instantiate a module for TLC: symmetry sets where only safety
is checked; in `MCSession` and `MCDelivery`, where liveness is checked as well, a
restriction of `Next` to one representative of each renaming, because TLC's
symmetry reduction is not sound for liveness; in `MCStripedTable` the hash
function.  The other modules are checked as they stand.  `*Proofs` modules hold
the theorems.  Definitions under the word *Mutant* (`Move_KeepsLock`) are
plausible mistakes in that piece of code; each property is known to fail when
one of them replaces the original.

## 3. Runs

| Run | Instance | What it shows |
|---|---|---|
| `session` | 2 clients, 2 workers, 2 names, fair | `NoDangling`, `UniqueSession`, `SweepsOwnNode`, `EventuallyFreed`, `ShutdownCompletes`: both want the same name or send to each other, and either disappears; a duplicate that passes the first check loses at the add, and a name that is taken again is not swept away |
| `msg_queue` | 4 nodes, 2 senders, 2 producers, both modes | `NeverEmpty`, `NothingLeft`, and `FifoSpec`, the refinement of `MsgFifo` |
| `timer_heap` | 5 clients, array of 2 that grows twice | `IndexExact`, `BoundedSleep` |
| `delivery` | 2 senders with 2 messages, 2 requests, 3 of these in all, messages of 2 pieces, a socket that takes 1, fair | `NoneStranded`, `WholeMessages`, `InOrder`, `EventuallySent` |
| `registration` | 2 clients, 1 address, 3 commands, fair | `NoDangling`; `ShutdownServed`, `ListenerFollows`, `DeadlineMet`, each unless a peer holds the thread; TCP and TLS |
| `ip_block` | 2 workers, 2 records, 3 connections, 2-bit counter | `NoDangling`, `RefCountExact`, `BlockSticks` |
| `link` | 2 recipients, 3 commands, a file of 4 reads, one departure, one fault, TLS, fair | `RightRecipient`, `WholeMessages`, `HandlerReturns`, `EventuallyAnswered`, for a user who waits for the answers |
| `striped_table` | 2 threads, 3 keys, 5 operations, 2 buckets that become 4, two failing allocations, fair | `ActsAsSet` (the refinement of `KeySet`), `CountExact`, `ListComplete`, `Returns` |
| `client` | 2 senders, 2 slots, 4 items on a connection, any number of connections, TLS, fair | `FilesWhole`, `StateOfConnection`, `EventuallyShownUnlessFull` |
| `server` | 2 workers, any contents of the file, 2 failures, 2 commands, 2 starts, fair | `NoUseAfterFree`, `GivenBack`, `RestartKeeps`, `EventuallyExits` |
| `log` | 2 threads with 2 lines each, a ring of 8 words, a reload on request and one after every second line, one failure, fair | `InOrder`, `NoUseAfterFree`, `AsLogged`, `EventuallyWritten` |
| `link_answers` | as `link`, a user who does not wait, no fault | *violation* of `RightRecipient`, finding 1 |

### Bounds

- `Client`, `Rec`: each allocation is used once, so an address is never reused
  and a stale pointer is visible as such.  Two clients are enough for one pair of
  sender and recipient, and for a name that is held, contested and taken again; the
  proofs cover any number.
- `MaxPdus` (PDUs of a client), `MaxEvents` (client events in a batch): two
  events are needed for one that disconnects the client of the next; one PDU per
  client already makes both directions cross.
- `Message`: nodes are allocated again after being freed, so behaviours are
  unbounded; four nodes give the flush a first, an inner and a last match.
- `NsecPerSec`, `MaxTime` in `TimerHeap`: two readings in a second tell apart the
  two comparisons of the macro.
- `Units`, `SendBuf`: a message of two pieces and a socket with room for one
  make every send block once.
- `MaxMsgs`, `MaxReqs`, `MaxTotal`: two messages of a sender and one of another
  can be out of order, be flushed together, or be overtaken by a response; two
  responses can wait behind a message.
- `MaxCmds` in `Registration`: three commands are on, off, on.
- `UINT8 = 4`, `AUTHBLOCK_FAIL_THRES = 2`, `MaxConns = 3` scale 256, 5 and the
  connections of one address down: up to three
  connections are open when the limit is reached, and with three (`MayWrap`; in the
  code more than 251) the counter can wrap, so the run has both cases.  `MaxTime = 3`
  lets a record expire.
- `Hdr = 2 < Payload = 3 < Chunk = 4 < Buf = 5` in `Link` keep the order of the
  code's sizes; a file of 9 units is a first PDU, a full chunk and a short one, and
  positions 10 and 11 look like marks, so that a resynchronisation meets marks
  with a wrong CRC and marks at the very end of what has arrived.  The run also
  passes with `TLS = FALSE`.
- `MaxOps = 5`, `Width = 8`, `MCHash` in `StripedTable`: the table grows from 2
  buckets to 4 with keys in it, whose chains split, and the next doubling
  overflows; operations are left to run beside the resize.  `MaxFails = 2`: a resize
  that fails and is undone, twice, or one whose undoing fails.
- `RecvBuf = ListSize = 4`, `FileParts = 2` in `Client`: the longest item just
  fits, and files of both senders interleave.  Four items on a connection are
  the first PDU of a file, a notice, and a chunk of a later file; nothing else of
  the client is bounded.
- `MinSize = 1`, `DefSize = 3`, `Value = CtrlSize = {0, 2}` in `Server`: below and
  above the minimum, neither of them the default, in the file and at the console.
- `QueueLen = 5` becomes a ring of 8 words in `LogEnv`; a line takes 4, so the
  ring holds two, fills, and wraps; `Word = 16` makes the indices wrap as well.

### Fairness

Everywhere a thread with something to do gets to do it, and nothing ever obliges
a peer to send, a client to hang up, a user to type or the console to enter a
command.  In particular: `session`, that main goes on when the workers have
exited; `delivery`, that the peer keeps reading (a peer that does not may hold its
messages for ever, in the code as in the model); `registration`, that time passes,
that a readable eventfd ends `epoll_wait`, as eventfds are level-triggered
there, and that the thread goes on in its handlers except in a TLS handshake, which
is the peer's business: the liveness properties have the alternative `PeerHolds`,
that it stays there (its clients are finitely many, so the loop of accepts ends
otherwise); `link`, that the handler and the client's loop go on; `striped_table`, that
a thread inside the table goes on while the table is not `broken` (weakly: in a run
of finitely many operations nobody is overtaken for ever at a lock); `server`, that
main and the threads run, and that a registration thread that comes back to
`epoll_wait` again and again finds the shutdown event, which is level-triggered, in
one of its batches (strongly, as its peers may call it away in between; that
they let it come back is not assumed: `EventuallyExits` has the alternative
`RegHeld`); `log`, that a thread inside a call and the consumer go on.

## 4. Findings

1. **A notice is taken for an answer** (`clrecv.c:369`, run `link_answers`).
   `await_resp` takes the first response that arrives for the answer to the command
   just sent.  A notice that a user has disconnected is such a response and comes at
   any time.  `cmd_sendfile` then prints "Server rejected the file; aborting
   transfer." (`clcmd.c:366`) although the server has accepted it and waits for the
   chunks.  The client's next command is read as part of the file and forwarded to
   the file's recipient.  A user who waits until everything is answered
   (`Patient`, run `link`) is safe.

The following properties are stated in the modules and do not hold.  No run checks
them; adding them to the configuration named gives the trace.

2. **The timer heap loses its order** (`cltimerheap.c:74`; `NoneOversleeps` in
   `TimerHeap.cfg` with 6 clients, `CLTH_AUTH_MAXPERM_TIME = 4`,
   `DEF_CLTH_SIZE = 8`, `NsecPerSec = 1`).  `MIN(...) == new_index` expands so that
   `== new_index` belongs to one branch only.  Below the root, a client due earlier
   can be moved down; the worker sleeps until the root is due and leaves another
   client `ACCEPTED` past its deadline.
3. **A silent peer holds the registration thread** (`registration.c:179`;
   `ShutdownServed`, `ListenerFollows`, `DeadlineMet` in `Registration.cfg` and
   `EventuallyExits` in `Server.cfg`, without the alternatives `PeerHolds` and
   `RegHeld`).  The handshake is
   made on a blocking socket.  A peer that connects and sends nothing keeps
   the only registration thread in `SSL_accept`: no other client is served or timed
   out, a change of the flag is not applied, and `pthread_join` (`server.c:150`) does
   not return after `shutdown_server`.
4. **A fresh block record is removed as expired** (`worker.c:143`;
   `RemovesExpired` in `IpBlock.cfg`).  Removal is by address, after the lock was
   released; the record that was found expired may have been replaced.
5. **A block lasts twice its time** (`ipblock.c:93` and `:30`; `ExpiresOnTime` in
   `IpBlock.cfg`).  The expiry is added at creation and again at the check, while
   `ipblock.h:17` says `AUTHBLOCK_EXPIRY 3600 // 1 h`.
6. **A limit does not survive a restart** (`servctrl.c:376`; in `Server.cfg`, the
   plain `saved # NoFile /\ main = "zlog" => cfg = saved`).  The console accepts any
   size; `servcfg.h:29` has a minimum of 200, below which the next start takes the
   default.  `RestartKeeps` says just that.
7. **A long user list stops the client** (`clrecv.c:238`; `EventuallyShown` in
   `Client.cfg` with `ListSize = 5`).  An item longer than `recv_buf` is never
   complete, and nothing more is read.
8. **A file put together from two** (`worker.c:709`, `clrecv.c:316`;
   `FilesAlwaysWhole` in `Client.cfg`).  A sender leaves in the middle of a file; a
   worker that takes out one of his messages finds him gone, he connects again
   and sends another file, and the flush by name takes its first PDU.  Its chunks
   arrive alone, and the receiver, who knows a transfer by the name of the sender
   only, appends them to the old one and reports it as received.  `FilesWhole` says
   what a reported file may consist of.
9. **The count of failures wraps** (`worker.c:240`; `BlockAlwaysSticks` in
   `IpBlock.cfg`).  `failed_auths` has eight bits and no limit, and nothing limits
   the connections of one address: when more than 251 are open at the moment the
   block begins and all of them fail, the count is zero again and the address is not
   blocked.

Also seen while modelling, where nothing in the repository says otherwise: the
flush of a departed sender's messages goes by name, so messages of a new session
of that name are lost (`worker.c:709`); a table whose failed resize cannot be undone
keeps the larger count of buckets (`htable.c:263`, `ShrinkFails`); every retry of a half-sent message
of a departed sender queues another notice (`worker.c:620`); a manual block of an
address that has a record is dropped (`servctrl.c:253`); a request of a peer that
hung up is carried out but not counted (`registration.c:239`); two tables are not
deleted when the registration context fails (`GivenBack` says which); a
resynchronisation that finds what looks like a mark in the last bytes of a broken
file keeps it, and the next command is read as the rest of that header
(`lwmp.c:106`, the exception in `EventuallyAnswered`); a
transfer whose sender leaves keeps its slot (`clrecv.c:64`); when the consumer of a
new zlog configuration does not start, the category keeps the rules of a
configuration that is deleted (`zlog.c:429`), and at the first start the missing
consumer is dereferenced (`zlog.c:64`); the consumer filters by a level that
the producer does not set for it (`rule.c:1103`).

## 5. Proofs

All theorems hold for every value of the constants that meets the module's
ASSUME.  Each proof module has the same shape: `Init => IInv`, one lemma or step
per action for `IInv /\ [Next]_vars => IInv'`, and `IInv => P` for each `P`.

**`SessionProofs`** - `Invariance`, `TypeCorrect`, `MemorySafe`, `FreedOnce`,
`CountsExact`, `SessionsUnique`, `SweepsOwn`, `DeadlinesCovered`, `EnqueuesSafe`,
`NothingLeaks`, for any number of clients, workers and names.  `NoDangling` is not
inductive: why an event in the batch points to live memory depends on where its
client is.  `StageInv` says, for every live client and state, which list it is on;
`ListInv`, `EventInv` and `TableInv` that lists, events and table only hold
clients of the right stage; `CurInv` and `LocalInv` what a handler in progress
knows; `HoldInv` that a disconnected client outside the table is alive because
somebody holds it.  With `RefCountExact` a last `node_put` is then exactly the one
nobody else relies on.

**`MsgQueueProofs`** - `Invariance`, `ListStaysSound`, `SignalsExact`,
`DequeueFindsOne`, `DestroyLeavesNothing` and `Refinement`, the implementation of
`MsgFifo`, for any finite set of nodes and any senders and producers.  `ListSound`
describes the list locally (each link has its converse, the ends are right, a
queued node is linked), so that no step needs induction along the list; `LockInv`
says who may be between two steps; `CallInv` what the consumer knows.  That a walk
along the links meets every message, and in the right order, is not local.
`SeqInv` says it with the history `older`: what came before a message is its
neighbour and what came before that (`LinkInv`), and what a flush or a destruction
has still to visit is at its cursor or before it (`WalkInv`).  The last step of a
flush therefore leaves nothing of the sender, which is what makes the whole flush
one step of `MsgFifo`.

**`FacilityProofs`**, first part, `TimerHeap` - `HeapInvariance`, `IndicesExact`,
`NobodyLost`, `StaysInBounds`, `SleepBounded`.  They hold whatever the comparison
macro decides: order is not part of the invariant, which is how finding 2 leaves
memory safe.

**`FacilityProofs`**, second part, `LogEnv` with `LogQueue` - `LogInvariance`,
`LinesInOrder`, `LinesAsLogged`, `NothingUsedAfterFree`, for any number of threads,
lines, reloads and failures and any sizes.  The properties hold together or not at
all: a line is taken in order because its head lies where the consumer looks, which
it does because the room of older messages was never given away, which depends on
the reservations; and its context is alive because it holds a reference from its
reservation until the consumer has written it.  `LogInv` therefore has these parts.
`EnvLockInv`: who reads and who writes the environment.  `ConfInv`: which
configuration, rules and consumer there are at each place of a reload.  `QueueInv`,
`OpenInv`: what is left in the queue, and who has yet to commit.  `RingInv`: the
messages in the ring lie end to end at positions that never wrap; the indices are
these positions modulo `Word`, the cells modulo the size of the ring, and the cell
of a message that is in the ring is its own because no two positions less than a
ring's length apart meet there.  For this the size must divide `Word`, which
`LogQueueAssumption` states: `fifo_create` rounds to a power of two pages.  `ContextInv`:
a context has one reference for its thread and one for each of its lines
in the queue.  `AsNow`: what is in the queue was logged under the configuration in
force; this is what the flush of a reload is for.

**`DeliveryProofs`** - `Invariance`, `NothingStranded`, and `OrderInvariance`,
`TypeCorrect`, `MessagesWhole`, `MessagesInOrder`, for any senders, message sizes,
socket buffers and numbers of messages.  `IInv` relates what epoll watches to what
is unfinished at every point of the handlers (`EpollInv`, `TssInv`), and says when
the control queue is empty (`CtrlInv`).  `SentInv` follows a message on its whole
way: a message partly sent is the last on the wire (`WireInv`); the queues, the
message in hand and the wire are each in the order sent, and everything on the
wire comes before what is in hand, and that before what is queued (`QueueInv`,
`OrderInv`); and of a name that never left, nothing is missing between the wire
and the count of what was sent (`GapInv`).  `InOrder` speaks of gaps on the wire,
so it needs both: no message is passed by a later one, and none vanishes.

**`ClientProofs`**, first part, `Client` - `Invariance`, `ReceivedFilesWhole`, `StateTellsConnection`, for
any number of senders, slots, items and connections.  `StreamInv`: buffer and socket
together hold whole items from the first byte not yet parsed.  `ItemsInv`: the
chunks still to come from a sender continue the file he has begun, or belong to a
file whose first PDU is not on this connection.  `SlotInv`: a transfer has written,
from its first PDU on, everything its sender has sent since, its own parts in their
places and otherwise only chunks without a beginning (`Written`).  While it has only
parts of its own it is incomplete, so a file is reported with its last part and is then whole; a
slot left over from a sender who went away in mid-file is replaced by a later first
PDU of his, and continued only by chunks that have none, which is the exception
`FilesWhole` makes.

**`ClientProofs`**, second part, `Link` - `LinkInvariance`, `ForRightRecipient`,
`MessagesWhole`, for any recipients, commands, sizes of files and of the buffers
(`Hdr = 2`, in the order of the code's), any content of files that looks like the
mark, TCP and TLS, and recipients that leave and return at any time.  They have the
hypothesis `Patient`, the user who waits for the answers: without it
`RightRecipient` is false (finding 1).  As the properties, the invariant speaks of
the time before anything has disturbed the connection (`Undisturbed`: no timeout,
no unreadable file, no notice about others).  A byte goes to the wrong recipient
when client and server disagree on where in a command they are; so `LinkInv` says
where they are.  A patient user has one command on its way, and for the server it
is in one of four stages (`ParserInv`).  `Untouched`: nothing of it has been read,
and what is in the storage or still unread of an earlier one contains no true
header, so that neither a search nor a read of a header finds one before it.
`InHeader`: the storage holds its beginning.  `Accepted`: it is being forwarded, the
storage holds exactly the units behind those forwarded, and the client has no
answer that would make it stop.  `Past`: its header is gone, forwarded or thrown
away, and what is left of it cannot be taken for a header.  In the last three what
is unread is exactly what the client has sent less `Got`, and OpenSSL holds
something just when `Got` is not the end of a record (`Reached`).  When the worker
sleeps, either OpenSSL holds nothing, and the next command is reported by epoll, or
a search for a mark is under way that passes over what it holds; in neither case is
the next command mistaken for the rest of this one.  `SendInv` has the part of the client and `ForwardInv` the ends of
the recipients' queues.  The four stages are the work: each step of the parser
moves between them, and a read or a search needs the place of one stretch of units
in another, which the lemmas at the beginning of the part compute.

**`ServerProofs`**, second part, `Registration` - `RegistrationInvariance`,
`NothingDangles`, `ServiceAgrees`, `NothingLeaks`.  `ListInv`: the list holds exactly the live clients, heap, epoll
and batch are parts of it.  `ListenerInv`: listener and flag differ only while a
change is stored but not announced, announced but not read, or read but not yet
applied.

**`IpBlockProofs`** - `Invariance`, `TypeCorrect`, `CountsExact`, `MemorySafe`,
`StaysBlocked`, for any number of workers, records and connections.  `HoldInv`
and `RefCountExact` give the safety of the records.  The action property
`BlockSticks` needs that an eight-bit count at the limit does not wrap as long as
the connections open when the limit was reached (`exposed`) fit above it: `FailInv`
bounds the count by them, less those that can add to it no more (`Spent`), and
`BusyInv` says that a worker deals with one of them.  `IpBlockAssumption` only has
`AUTHBLOCK_FAIL_THRES < UINT8` (5 and 256); the connections are not bounded.

**`StripedTableProofs`** - `Invariance`, `TypeCorrect`, `CountsExact`,
`ListsComplete` and `Refinement`, the implementation of `KeySet`, for any finite
set of threads, any keys, hash function and sizes.  `LockInv`: a resize is alone,
and a stripe has one writer or readers.  `ChainInv`: chains are sorted and
disjoint and a key is where its hash says, except in buckets a resize has not
come to, which is why a lookup that waited for the size lock finds it.  `CountInv`
accounts for elements counted but not yet linked, and unlinked but still counted.
`CopyOK` says what a user list in progress has of the buckets behind it.  The step
that leaves the table `broken` maps to a stutter, and no step follows it.

**`ServerProofs`**, first part, `Server` - `ServerInvariance`, `ThreadsSafe`, `LabelsGiveBack`,
`ConfigurationKept`, for any number of workers, failures, commands and starts.
`ResInv` says what main has at each label, `ThreadInv` how far the threads can be.
`ConfigurationKept` assumes nothing of the sizes the console is given: what the file
holds was loaded and changed, so every field but the size is in its range, and
the size is what `load_cfg` makes of it.

**Only model-checked.**  Liveness under fairness (`EventuallyFreed`,
`ShutdownCompletes`, `EventuallySent`, `ShutdownServed`, `ListenerFollows`,
`DeadlineMet`, `HandlerReturns`, `EventuallyAnswered`, `Returns`,
`EventuallyShownUnlessFull`, `EventuallyExits`, `EventuallyWritten`), which the
proof system does not handle, and `Link`'s behaviour for a user who does not wait,
where there is nothing to prove: `link_answers` shows the violation.

**Proved and no longer model-checked.**  `IInv` (in `Delivery` also `SentInv`, in
`MsgQueue` `SeqInv`, in `Server` `ResInv`, `ThreadInv`, `CfgInv`, in `LogEnv`
`LogInv`, in `Link` `LinkInv`) of each proved
module, which TLC was given before the proof was tried; and
`NoDoubleFree`, `RefCountExact`, `EnqueueSafe`, `DeadlineCovered`, `NoLeak`
(`Session`), `ListSound`, `EventfdExact` (`MsgQueue`), `Tracked`, `InBounds`
(`TimerHeap`), `ListenerAgrees`, `NoLeak` (`Registration`): the theorems hold for
every instance, so the runs spend their time on what is not proved.

## 6. Not modelled, and the plan

Left out for good: SQLite and hashing, opening of sockets and OpenSSL itself (each
an outcome of the step that makes it), the byte layout and CRC of headers,
tokenising of command lines, allocation, console commands that only print, the
addresses of the whitelist.  Of zlog: the parsing of its configuration and
patterns, formatting, output to files and their rotation, records and level
switches, which run inside one thread or under the locks that are modelled.

Every safety invariant and every refinement that a run checks is now proved for all
values of the constants (those of `Link` for a patient user).  What could come next:

1. `Link` after a disturbance: which commands are safe again once the server has
   resynchronised.  `EventuallyAnswered` says it for the answers; a safety property
   for the bytes needs a history of which part of the stream was given up.
2. The rules and the output of zlog (`rule.c`, `spec.c`, `rotater.c`), as far as two
   threads or two processes meet there: the rotation under its file lock.
