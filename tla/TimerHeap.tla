----------------------------- MODULE TimerHeap -----------------------------
(***************************************************************************)
(* server/cltimerheap.c: the binary heap that holds, by deadline, the       *)
(* clients of one thread that have connected and not yet authenticated, and *)
(* the loop of that thread around it (handle_clth_timeout and epoll_wait in *)
(* server/worker.c).  Only the thread that owns the heap touches it.        *)
(*                                                                          *)
(* Every operation is followed by the steps of its heapify loop, one action *)
(* per iteration.  Slots past num_clients are written before they are read  *)
(* and are left out.                                                        *)
(***************************************************************************)
EXTENDS Integers

CONSTANTS
    Client,
    CLTH_AUTH_MAXPERM_TIME,     \* seconds a client has to authenticate
    DEF_CLTH_SIZE,              \* slots the heap starts with
    NsecPerSec,                 \* clock readings told apart in a second
    MaxTime,                    \* bound: seconds the clock runs
    None                        \* no timeout: epoll_wait gets -1

ASSUME TimerHeapAssumption ==
    /\ CLTH_AUTH_MAXPERM_TIME \in Nat
    /\ DEF_CLTH_SIZE \in Nat \ {0}
    /\ NsecPerSec \in Nat \ {0}
    /\ MaxTime \in Nat
    /\ None \notin Nat

INVAL_TH_IND == -1

VARIABLES
    clients,            \* the slots in use, from 0 on
    num_clients,
    num_slots,
    timerheap_index,    \* of each client: its slot, or INVAL_TH_IND
    auth_deadline,      \* of each client: tv_sec and tv_nsec
    cl_state,           \* "free" (no such client), "ACCEPTED" or "AUTHENTICATED"
    now,                \* CLOCK_MONOTONIC
    wake,               \* the second at which epoll_wait gives up
    pc,                 \* what the thread is doing
    index,              \* the cursor of the heapify loops
    back                \* where the thread goes on after heapify

heapVars == <<clients, num_clients, num_slots, timerheap_index, auth_deadline>>
loopVars == <<wake, pc, index, back>>
vars == <<heapVars, cl_state, now, loopVars>>

Time == [sec : Nat, nsec : 0 .. (NsecPerSec - 1)]
Slot == 0 .. (num_clients - 1)

TypeOK ==
    /\ num_clients \in Nat
    /\ clients \in [Slot -> Client]
    /\ num_slots \in Nat \ {0}
    /\ timerheap_index \in [Client -> Nat \cup {INVAL_TH_IND}]
    /\ auth_deadline \in [Client -> Time]
    /\ cl_state \in [Client -> {"free", "ACCEPTED", "AUTHENTICATED"}]
    /\ now \in Time
    /\ wake \in Nat \cup {None}
    /\ pc \in {"timeouts", "wait", "events", "up", "down"}
    /\ index \in Nat
    /\ back \in {"timeouts", "events"}

Init ==
    /\ clients = [i \in 0 .. -1 |-> None]
    /\ num_clients = 0
    /\ num_slots = DEF_CLTH_SIZE
    /\ timerheap_index = [c \in Client |-> INVAL_TH_IND]
    /\ auth_deadline = [c \in Client |-> [sec |-> 0, nsec |-> 0]]
    /\ cl_state = [c \in Client |-> "free"]
    /\ now = [sec |-> 0, nsec |-> 0]
    /\ wake = None
    /\ pc = "timeouts"
    /\ index = 0
    /\ back = "timeouts"

-----------------------------------------------------------------------------
(* The order of the heap.                                                   *)

Deadline(h, i) == auth_deadline[h[i]]

\* The second and third alternative of the macro MIN(h, a, b).
LaterMIN(h, a, b) ==
    IF Deadline(h, a).sec # Deadline(h, b).sec \/ ~ Deadline(h, a).nsec < Deadline(h, b).nsec
    THEN b ELSE a

\* The macro MIN as the right hand side of an assignment.
MIN(h, a, b) == IF Deadline(h, a).sec < Deadline(h, b).sec THEN a ELSE LaterMIN(h, a, b)

\* The text MIN(h, a, b) == x.  The macro has no parentheses around it, so ==
\* belongs to its last alternative, and the first one yields a itself, which C
\* takes for true unless it is 0.
MINEquals(h, a, b, x) ==
    IF Deadline(h, a).sec < Deadline(h, b).sec THEN a # 0 ELSE LaterMIN(h, a, b) = x

Parent(i) == (i - 1) \div 2

-----------------------------------------------------------------------------
(* The array: clients and timerheap_index after swapping slots i and j, and *)
(* after giving up the last slot, which then holds c.                       *)

Swapped(i, j) == [clients EXCEPT ![i] = clients[j], ![j] = clients[i]]

\* Mutant: the clients change places, the index of the second is not updated.
swap_OneIndex(i, j) == [timerheap_index EXCEPT ![clients[j]] = timerheap_index[clients[i]]]

\* Each client takes over the index of the other.
swap(i, j) ==
    [timerheap_index EXCEPT ![clients[i]] = timerheap_index[clients[j]],
                            ![clients[j]] = timerheap_index[clients[i]]]

Heapify(dir, i, ret) == pc' = dir /\ index' = i /\ back' = ret

\* cl_timerheap_resize, when the slots are used up.
Resize == num_slots' = IF num_clients = num_slots THEN 2 * num_slots ELSE num_slots

\* cl_timerheap_add, when the accept of a connection is done.
cl_timerheap_add(c) ==
    /\ pc = "events"
    /\ cl_state[c] = "free"
    /\ Resize
    /\ num_clients' = num_clients + 1
    /\ clients' = [i \in 0 .. num_clients |-> IF i = num_clients THEN c ELSE clients[i]]
    /\ auth_deadline' = [auth_deadline EXCEPT ![c] =
                            [sec |-> now.sec + CLTH_AUTH_MAXPERM_TIME, nsec |-> now.nsec]]
    /\ timerheap_index' = [timerheap_index EXCEPT ![c] = num_clients]
    /\ cl_state' = [cl_state EXCEPT ![c] = "ACCEPTED"]
    /\ Heapify("up", num_clients, "events")
    /\ UNCHANGED <<now, wake>>

\* The last slot is given up after slot i and it changed places: c, which was
\* in slot i, is out of the heap.
TakeOut(c, i) ==
    LET n == num_clients - 1
    IN /\ num_clients' = n
       /\ clients' = [j \in 0 .. (n - 1) |-> Swapped(i, n)[j]]
       /\ timerheap_index' = [swap(i, n) EXCEPT ![c] = INVAL_TH_IND]
       /\ UNCHANGED <<num_slots, auth_deadline>>

\* cl_timerheap_remove, when client c authenticates (st = "AUTHENTICATED") or
\* is cleaned up after a hang-up or an error (st = "free").
cl_timerheap_remove(c, st) ==
    /\ pc = "events"
    /\ cl_state[c] = "ACCEPTED"
    /\ timerheap_index[c] # INVAL_TH_IND
    /\ LET i == timerheap_index[c]
           n == num_clients - 1
       IN /\ TakeOut(c, i)
          /\ IF i = n THEN UNCHANGED <<pc, index, back>>
             ELSE IF i # 0 /\ MINEquals(clients', i, Parent(i), i)
             THEN Heapify("up", i, "events")
             ELSE Heapify("down", i, "events")
    /\ cl_state' = [cl_state EXCEPT ![c] = st]
    /\ UNCHANGED <<now, wake>>

\* An authenticated client leaves: cl_timerheap_remove finds INVAL_TH_IND and
\* returns.
LeaveAuthenticated(c) ==
    /\ pc = "events"
    /\ cl_state[c] = "AUTHENTICATED"
    /\ timerheap_index[c] = INVAL_TH_IND
    /\ cl_state' = [cl_state EXCEPT ![c] = "free"]
    /\ UNCHANGED <<heapVars, now, loopVars>>

\* cl_timerheap_pop, of a client that is then cleaned up.
Pop ==
    LET c == clients[0]
    IN /\ TakeOut(c, 0)
       /\ cl_state' = [cl_state EXCEPT ![c] = "free"]
       /\ IF num_clients = 1 THEN UNCHANGED <<pc, index, back>>
                             ELSE Heapify("down", 0, "timeouts")
       /\ UNCHANGED <<now, wake>>

-----------------------------------------------------------------------------
(* The heapify loops.                                                       *)

SwapSlots(i, j) ==
    /\ clients' = Swapped(i, j)
    /\ timerheap_index' = swap(i, j)
    /\ UNCHANGED <<num_clients, num_slots, auth_deadline>>

\* One iteration of cl_timerheap_heapify_up.
heapify_up ==
    /\ pc = "up"
    /\ IF index > 0 /\ MINEquals(clients, index, Parent(index), index)
       THEN /\ SwapSlots(index, Parent(index))
            /\ index' = Parent(index)
            /\ UNCHANGED <<pc, back>>
       ELSE /\ pc' = back
            /\ UNCHANGED <<heapVars, index, back>>
    /\ UNCHANGED <<cl_state, now, wake>>

Child ==
    LET l == 2 * index + 1
        r == 2 * index + 2
    IN IF r \in Slot THEN MIN(clients, l, r) ELSE l

\* One iteration of cl_timerheap_heapify_down.
heapify_down ==
    /\ pc = "down"
    /\ IF 2 * index + 1 \in Slot /\ MINEquals(clients, index, Child, Child)
       THEN /\ SwapSlots(index, Child)
            /\ index' = Child
            /\ UNCHANGED <<pc, back>>
       ELSE /\ pc' = back
            /\ UNCHANGED <<heapVars, index, back>>
    /\ UNCHANGED <<cl_state, now, wake>>

-----------------------------------------------------------------------------
(* The loop of the thread.  A client is in the heap only as long as it is   *)
(* ACCEPTED (Tracked, below), so CLTH_NOT_APPLICABLE does not occur.        *)

timediff == Deadline(clients, 0).sec - now.sec

\* handle_clth_timeout, CLTH_TIMEOUT: the root is disconnected.
Timeout ==
    /\ pc = "timeouts"
    /\ num_clients > 0
    /\ timediff <= 0
    /\ Pop

\* Mutant: the last client is overlooked by cl_timerheap_peek.
WaitForever_LastOne ==
    /\ pc = "timeouts"
    /\ num_clients <= 1
    /\ wake' = None
    /\ pc' = "wait"
    /\ UNCHANGED <<heapVars, cl_state, now, index, back>>

\* handle_clth_timeout, CLTH_EMPTY: epoll_wait is given no timeout.
WaitForever ==
    /\ pc = "timeouts"
    /\ num_clients = 0
    /\ wake' = None
    /\ pc' = "wait"
    /\ UNCHANGED <<heapVars, cl_state, now, index, back>>

\* handle_clth_timeout returns the time left to the root.
WaitForRoot ==
    /\ pc = "timeouts"
    /\ num_clients > 0
    /\ timediff > 0
    /\ wake' = now.sec + timediff
    /\ pc' = "wait"
    /\ UNCHANGED <<heapVars, cl_state, now, index, back>>

\* epoll_wait returns, with events or because the time is up.
epoll_wait ==
    /\ pc = "wait"
    /\ pc' = "events"
    /\ UNCHANGED <<heapVars, cl_state, now, wake, index, back>>

BatchDone ==
    /\ pc = "events"
    /\ pc' = "timeouts"
    /\ UNCHANGED <<heapVars, cl_state, now, wake, index, back>>

\* The clock advances.  The heapify loops do not read it.
Tick ==
    /\ pc \notin {"up", "down"}
    /\ now.sec < MaxTime
    /\ now' = IF now.nsec = NsecPerSec - 1
              THEN [sec |-> now.sec + 1, nsec |-> 0]
              ELSE [now EXCEPT !.nsec = @ + 1]
    /\ UNCHANGED <<heapVars, cl_state, loopVars>>

Next ==
    \/ \E c \in Client : \/ cl_timerheap_add(c)
                         \/ cl_timerheap_remove(c, "AUTHENTICATED")
                         \/ cl_timerheap_remove(c, "free")
                         \/ LeaveAuthenticated(c)
    \/ heapify_up
    \/ heapify_down
    \/ Timeout
    \/ WaitForever
    \/ WaitForRoot
    \/ epoll_wait
    \/ BatchDone
    \/ Tick

Spec == Init /\ [][Next]_vars

-----------------------------------------------------------------------------
(* Properties.                                                              *)

\* The stored indices and the array are inverses, in the middle of a heapify
\* loop too: cl_timerheap_remove finds the client it is asked to remove.
IndexExact ==
    /\ \A i \in Slot : timerheap_index[clients[i]] = i
    /\ \A c \in Client : timerheap_index[c] # INVAL_TH_IND =>
                            /\ timerheap_index[c] \in Slot
                            /\ clients[timerheap_index[c]] = c

\* The heap holds exactly the clients that owe an authentication: nobody is
\* forgotten, and no pointer to an authenticated or freed client stays behind.
Tracked ==
    \A c \in Client : cl_state[c] = "ACCEPTED" <=> timerheap_index[c] # INVAL_TH_IND

\* No slot outside the array is in use, whatever was added and removed.
InBounds ==
    /\ num_clients <= num_slots
    /\ pc \in {"up", "down"} => index \in Slot

\* While someone owes an authentication the thread does not sleep without a
\* timeout, nor for longer than a client is given.
BoundedSleep ==
    pc = "wait" /\ num_clients > 0 =>
        /\ wake # None
        /\ wake <= now.sec + CLTH_AUTH_MAXPERM_TIME

\* What cltimerheap.c says of the deadline ("the state a client must NOT be in
\* after CLTH_X_MAXPERM_TIME"): the thread does not sleep past the second in
\* which a client that has not authenticated is due.
NoneOversleeps ==
    pc = "wait" => \A c \in Client : cl_state[c] = "ACCEPTED" => wake <= auth_deadline[c].sec

-----------------------------------------------------------------------------
(* The inductive invariant.                                                 *)

\* Deadlines of clients in the heap are at most CLTH_AUTH_MAXPERM_TIME away.
DeadlineNear ==
    \A i \in Slot : Deadline(clients, i).sec <= now.sec + CLTH_AUTH_MAXPERM_TIME

IInv == TypeOK /\ IndexExact /\ Tracked /\ InBounds /\ BoundedSleep /\ DeadlineNear

=============================================================================
