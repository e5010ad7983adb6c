--------------------------- MODULE FacilityProofs ---------------------------
(***************************************************************************)
(* Proofs about two facilities of the server, the heap of deadlines         *)
(* (TimerHeap) and the log (LogEnv).                                        *)
(*                                                                          *)
(* TimerHeap, for any number of clients: the array and the indices stored   *)
(* in the clients agree through every operation and every iteration of the  *)
(* heapify loops, so that nobody is lost from the heap.  The order of the   *)
(* heap is not used: the argument does not depend on what the comparisons   *)
(* answer.                                                                  *)
(*                                                                          *)
(* LogEnv, for any number of threads, of lines and of reloads, and any size *)
(* of the queue: LogInv is inductive.  Its parts are the lock, what there   *)
(* is of configurations and consumers while a thread is inside a call, what *)
(* is left in the queue, the ring by the positions its messages would have  *)
(* if no index wrapped, and the references to the contexts.                 *)
(***************************************************************************)
EXTENDS TimerHeap, LogEnv, FiniteSetTheorems, TLAPS

(* The heap of deadlines. *)

\* What swapping two slots does to the array and to the indices.
LEMMA SwapFacts ==
    ASSUME TypeOK, IndexExact, NEW i \in Slot, NEW j \in Slot
    PROVE  /\ Swapped(i, j) \in [Slot -> Client]
           /\ Swapped(i, j)[i] = clients[j] /\ Swapped(i, j)[j] = clients[i]
           /\ \A k \in Slot : k # i /\ k # j => Swapped(i, j)[k] = clients[k]
           /\ swap(i, j) \in [Client -> Nat \cup {INVAL_TH_IND}]
           /\ swap(i, j)[clients[i]] = j /\ swap(i, j)[clients[j]] = i
           /\ \A c \in Client : c # clients[i] /\ c # clients[j] => swap(i, j)[c] = timerheap_index[c]
<1>1. clients[i] \in Client /\ clients[j] \in Client
  BY DEF TypeOK
<1>2. timerheap_index[clients[i]] = i /\ timerheap_index[clients[j]] = j
  BY DEF IndexExact
<1>3. i \in Nat /\ j \in Nat
  BY DEF Slot, TypeOK
<1>4. i # j => clients[i] # clients[j]
  BY <1>2
<1>5. Swapped(i, j) \in [Slot -> Client]
  BY <1>1 DEF Swapped, TypeOK
<1>6. /\ Swapped(i, j)[i] = clients[j] /\ Swapped(i, j)[j] = clients[i]
      /\ \A k \in Slot : k # i /\ k # j => Swapped(i, j)[k] = clients[k]
  BY DEF Swapped, TypeOK
<1>7. swap(i, j) \in [Client -> Nat \cup {INVAL_TH_IND}]
  BY <1>1, <1>2, <1>3 DEF swap, TypeOK
<1>8. /\ swap(i, j)[clients[i]] = j /\ swap(i, j)[clients[j]] = i
      /\ \A c \in Client : c # clients[i] /\ c # clients[j] => swap(i, j)[c] = timerheap_index[c]
  BY <1>1, <1>2, <1>4 DEF swap, TypeOK
<1> QED
  BY <1>5, <1>6, <1>7, <1>8

\* An iteration of a heapify loop moves clients around and loses none.
LEMMA SwapSlotsKeeps ==
    ASSUME IInv, NEW i \in Slot, NEW j \in Slot, SwapSlots(i, j), UNCHANGED <<cl_state, now>>
    PROVE  /\ clients' \in [Slot -> Client] /\ Slot' = Slot
           /\ timerheap_index' \in [Client -> Nat \cup {INVAL_TH_IND}]
           /\ IndexExact' /\ Tracked' /\ DeadlineNear'
<1> USE DEF IInv
<1>1. /\ clients' = Swapped(i, j) /\ timerheap_index' = swap(i, j)
      /\ UNCHANGED <<num_clients, num_slots, auth_deadline>>
  BY DEF SwapSlots
<1>2. Slot' = Slot /\ Slot \subseteq Nat /\ INVAL_TH_IND \notin Nat
  BY <1>1 DEF Slot, TypeOK, INVAL_TH_IND
<1>3. /\ clients[i] \in Client /\ clients[j] \in Client
      /\ \A k \in Slot : clients[k] \in Client /\ timerheap_index[clients[k]] = k
  BY DEF TypeOK, IndexExact
<1>s. /\ clients'[i] = clients[j] /\ clients'[j] = clients[i]
      /\ \A k \in Slot : k # i /\ k # j => clients'[k] = clients[k]
      /\ timerheap_index'[clients[i]] = j /\ timerheap_index'[clients[j]] = i
      /\ \A c \in Client : c # clients[i] /\ c # clients[j] => timerheap_index'[c] = timerheap_index[c]
  BY <1>1, SwapFacts
<1>4. ASSUME NEW k \in Slot PROVE timerheap_index'[clients'[k]] = k
  <2>1. CASE k # i /\ k # j
    <3>1. clients'[k] = clients[k] /\ clients[k] # clients[i] /\ clients[k] # clients[j]
      BY <2>1, <1>3, <1>s
    <3> QED BY <3>1, <1>3, <1>s
  <2>2. CASE k = i
    BY <2>2, <1>s
  <2>3. CASE k = j
    BY <2>3, <1>s
  <2> QED BY <2>1, <2>2, <2>3
<1>5. ASSUME NEW c \in Client, timerheap_index'[c] # INVAL_TH_IND
      PROVE  timerheap_index'[c] \in Slot /\ clients'[timerheap_index'[c]] = c
  <2>1. CASE c # clients[i] /\ c # clients[j]
    <3>1. timerheap_index'[c] = timerheap_index[c]
      BY <2>1, <1>1, SwapFacts
    <3>2. timerheap_index[c] \in Slot /\ clients[timerheap_index[c]] = c
      BY <3>1, <1>5 DEF IndexExact
    <3>3. timerheap_index[c] # i /\ timerheap_index[c] # j
      BY <3>2, <2>1
    <3> QED BY <3>1, <3>2, <3>3, <1>s
  <2>2. CASE c = clients[i]
    BY <2>2, <1>1, <1>3, SwapFacts
  <2>3. CASE c = clients[j]
    BY <2>3, <1>1, <1>3, SwapFacts
  <2> QED BY <2>1, <2>2, <2>3
<1>6. IndexExact'
  BY <1>2, <1>4, <1>5 DEF IndexExact, INVAL_TH_IND
<1>7. ASSUME NEW c \in Client
      PROVE  timerheap_index'[c] # INVAL_TH_IND <=> timerheap_index[c] # INVAL_TH_IND
  <2>1. CASE c # clients[i] /\ c # clients[j]
    BY <2>1, <1>1, SwapFacts
  <2>2. CASE c = clients[i] \/ c = clients[j]
    BY <2>2, <1>1, <1>2, <1>3, SwapFacts
  <2> QED BY <2>1, <2>2
<1>8. Tracked'
  BY <1>7 DEF Tracked, INVAL_TH_IND
<1>9. ASSUME NEW k \in Slot PROVE \E l \in Slot : clients'[k] = clients[l]
  <2>1. CASE k = i
    BY <2>1, <1>s
  <2>2. CASE k = j
    BY <2>2, <1>s
  <2>3. CASE k # i /\ k # j
    BY <2>3, <1>s
  <2> QED BY <2>1, <2>2, <2>3
<1>10. DeadlineNear'
  BY <1>1, <1>2, <1>9 DEF DeadlineNear, Deadline
<1> QED
  BY <1>1, <1>2, <1>6, <1>8, <1>10, SwapFacts

\* A client that is taken out of the heap, and only that one, is gone from it.
LEMMA TakeOutKeeps ==
    ASSUME IInv, NEW i \in Slot, NEW c \in Client, clients[i] = c, TakeOut(c, i),
           NEW st \in {"free", "AUTHENTICATED"},
           cl_state' = [cl_state EXCEPT ![c] = st], UNCHANGED now
    PROVE  /\ num_clients' = num_clients - 1 /\ num_clients' \in Nat
           /\ clients' \in [Slot' -> Client]
           /\ timerheap_index' \in [Client -> Nat \cup {INVAL_TH_IND}]
           /\ cl_state' \in [Client -> {"free", "ACCEPTED", "AUTHENTICATED"}]
           /\ UNCHANGED <<num_slots, auth_deadline>>
           /\ IndexExact' /\ Tracked' /\ DeadlineNear'
<1> USE DEF IInv
<1> SUFFICES ASSUME NEW n, n = num_clients - 1
             PROVE  /\ num_clients' = num_clients - 1 /\ num_clients' \in Nat
                    /\ clients' \in [Slot' -> Client]
                    /\ timerheap_index' \in [Client -> Nat \cup {INVAL_TH_IND}]
                    /\ cl_state' \in [Client -> {"free", "ACCEPTED", "AUTHENTICATED"}]
                    /\ UNCHANGED <<num_slots, auth_deadline>>
                    /\ IndexExact' /\ Tracked' /\ DeadlineNear'
  OBVIOUS
<1>1. /\ num_clients' = n
      /\ clients' = [j \in 0 .. (n - 1) |-> Swapped(i, n)[j]]
      /\ timerheap_index' = [swap(i, n) EXCEPT ![c] = INVAL_TH_IND]
      /\ UNCHANGED <<num_slots, auth_deadline>>
  BY DEF TakeOut
<1>2. /\ n \in Nat /\ n \in Slot /\ Slot' = 0 .. (n - 1) /\ Slot = Slot' \cup {n} /\ n \notin Slot'
      /\ Slot \subseteq Nat /\ INVAL_TH_IND \notin Nat
  BY <1>1 DEF Slot, TypeOK, INVAL_TH_IND
<1>3. \A k \in Slot : clients[k] \in Client /\ timerheap_index[clients[k]] = k
  BY DEF TypeOK, IndexExact
<1>4. /\ swap(i, n) \in [Client -> Nat \cup {INVAL_TH_IND}]
      /\ Swapped(i, n) \in [Slot -> Client]
      /\ Swapped(i, n)[i] = clients[n]
      /\ \A k \in Slot : k # i /\ k # n => Swapped(i, n)[k] = clients[k]
      /\ swap(i, n)[c] = n /\ swap(i, n)[clients[n]] = i
      /\ \A d \in Client : d # c /\ d # clients[n] => swap(i, n)[d] = timerheap_index[d]
  <2>1. n \in Slot
    BY <1>2
  <2> QED BY <2>1, SwapFacts
<1>5. /\ timerheap_index'[c] = INVAL_TH_IND
      /\ \A d \in Client : d # c => timerheap_index'[d] = swap(i, n)[d]
      /\ \A k \in Slot' : clients'[k] = Swapped(i, n)[k]
  BY <1>1, <1>2, <1>4
<1>6. ASSUME NEW k \in Slot' PROVE timerheap_index'[clients'[k]] = k /\ \E l \in Slot : clients'[k] = clients[l]
  <2>1. CASE k = i
    <3>1. clients'[k] = clients[n] /\ clients[n] # c
      BY <2>1, <1>2, <1>3, <1>4, <1>5
    <3> QED BY <3>1, <2>1, <1>2, <1>3, <1>4, <1>5
  <2>2. CASE k # i
    <3>1. k # n /\ k \in Slot /\ clients'[k] = clients[k]
      BY <2>2, <1>2, <1>4, <1>5
    <3>2. clients[k] # c /\ clients[k] # clients[n]
      BY <3>1, <2>2, <1>2, <1>3
    <3> QED BY <3>1, <3>2, <1>3, <1>4, <1>5
  <2> QED BY <2>1, <2>2
<1>7. ASSUME NEW d \in Client, timerheap_index'[d] # INVAL_TH_IND
      PROVE  timerheap_index'[d] \in Slot' /\ clients'[timerheap_index'[d]] = d
  <2>1. d # c /\ timerheap_index'[d] = swap(i, n)[d]
    BY <1>5, <1>7
  <2>2. CASE d = clients[n]
    <3>1. timerheap_index'[d] = i /\ i # n
      BY <2>1, <2>2, <1>4
    <3> QED BY <3>1, <2>2, <1>2, <1>4, <1>5
  <2>3. CASE d # clients[n]
    <3>1. timerheap_index'[d] = timerheap_index[d]
      BY <2>1, <2>3, <1>4
    <3>2. timerheap_index[d] \in Slot /\ clients[timerheap_index[d]] = d
      BY <3>1, <1>7 DEF IndexExact
    <3>3. timerheap_index[d] # i /\ timerheap_index[d] # n
      BY <3>2, <2>1, <2>3
    <3> QED BY <3>1, <3>2, <3>3, <1>2, <1>4, <1>5
  <2> QED BY <2>2, <2>3
<1>8. IndexExact'
  BY <1>6, <1>7 DEF IndexExact, INVAL_TH_IND
<1>9. ASSUME NEW d \in Client, d # c
      PROVE  timerheap_index'[d] # INVAL_TH_IND <=> timerheap_index[d] # INVAL_TH_IND
  <2>1. CASE d = clients[n]
    BY <2>1, <1>2, <1>3, <1>4, <1>5, <1>9
  <2>2. CASE d # clients[n]
    BY <2>2, <1>4, <1>5, <1>9
  <2> QED BY <2>1, <2>2
<1>10. Tracked'
  <2>1. cl_state'[c] = st /\ \A d \in Client : d # c => cl_state'[d] = cl_state[d]
    BY DEF TypeOK
  <2> QED BY <2>1, <1>5, <1>9 DEF Tracked, INVAL_TH_IND
<1>11. DeadlineNear'
  BY <1>1, <1>6, SMTT(30) DEF DeadlineNear, Deadline
<1>12. clients' \in [Slot' -> Client] /\ timerheap_index' \in [Client -> Nat \cup {INVAL_TH_IND}]
  <2>1. clients' \in [Slot' -> Client]
    BY <1>1, <1>2, <1>4
  <2> QED BY <2>1, <1>1, <1>4
<1>13. cl_state' \in [Client -> {"free", "ACCEPTED", "AUTHENTICATED"}]
  BY DEF TypeOK
<1> QED
  BY <1>1, <1>2, <1>8, <1>10, <1>11, <1>12, <1>13

-----------------------------------------------------------------------------
(* One lemma per action that touches the heap.                              *)

LEMMA AddStep ==
    ASSUME IInv, NEW c \in Client, cl_timerheap_add(c)
    PROVE  IInv'
<1> USE DEF IInv
<1>1. /\ pc = "events" /\ cl_state[c] = "free"
      /\ num_clients' = num_clients + 1
      /\ clients' = [i \in 0 .. num_clients |-> IF i = num_clients THEN c ELSE clients[i]]
      /\ auth_deadline' = [auth_deadline EXCEPT ![c] =
                            [sec |-> now.sec + CLTH_AUTH_MAXPERM_TIME, nsec |-> now.nsec]]
      /\ timerheap_index' = [timerheap_index EXCEPT ![c] = num_clients]
      /\ cl_state' = [cl_state EXCEPT ![c] = "ACCEPTED"]
      /\ pc' = "up" /\ index' = num_clients /\ back' = "events" /\ now' = now /\ wake' = wake
  BY DEF cl_timerheap_add, Heapify
<1>2. num_slots' \in Nat \ {0} /\ num_clients' <= num_slots'
  BY <1>1 DEF cl_timerheap_add, Resize, TypeOK, InBounds
<1>3. /\ Slot' = Slot \cup {num_clients} /\ Slot' = 0 .. num_clients /\ num_clients \notin Slot
      /\ num_clients \in Nat /\ INVAL_TH_IND \notin Nat
  BY <1>1 DEF Slot, TypeOK, INVAL_TH_IND
<1>4. timerheap_index[c] = INVAL_TH_IND
  BY <1>1 DEF Tracked
<1>5. /\ clients'[num_clients] = c /\ timerheap_index'[c] = num_clients
      /\ \A k \in Slot : clients'[k] = clients[k] /\ clients[k] \in Client /\ clients[k] # c
      /\ \A d \in Client : d # c => timerheap_index'[d] = timerheap_index[d]
  <2>1. \A k \in Slot : clients[k] \in Client /\ clients[k] # c
    BY <1>3, <1>4 DEF TypeOK, IndexExact, Slot
  <2> QED BY <2>1, <1>1, <1>3 DEF TypeOK
<1>6. now.sec + CLTH_AUTH_MAXPERM_TIME \in Nat /\ now.sec \in Nat /\ now \in Time
  BY TimerHeapAssumption DEF TypeOK, Time
<1>7. TypeOK'
  <2>1. clients' \in [Slot' -> Client]
    BY <1>1, <1>3, <1>5
  <2>2. timerheap_index' \in [Client -> Nat \cup {INVAL_TH_IND}]
    BY <1>1, <1>3 DEF TypeOK
  <2>3. auth_deadline' \in [Client -> Time]
    BY <1>1, <1>6 DEF TypeOK, Time
  <2>4. cl_state' \in [Client -> {"free", "ACCEPTED", "AUTHENTICATED"}]
    BY <1>1 DEF TypeOK
  <2> QED BY <2>1, <2>2, <2>3, <2>4, <1>1, <1>2, <1>3 DEF TypeOK, INVAL_TH_IND
<1>8. IndexExact'
  <2>1. ASSUME NEW k \in Slot' PROVE timerheap_index'[clients'[k]] = k
    <3>1. CASE k = num_clients
      BY <3>1, <1>5
    <3>2. CASE k # num_clients
      BY <3>2, <1>3, <1>5 DEF IndexExact
    <3> QED BY <3>1, <3>2
  <2>2. ASSUME NEW d \in Client, timerheap_index'[d] # INVAL_TH_IND
        PROVE  timerheap_index'[d] \in Slot' /\ clients'[timerheap_index'[d]] = d
    <3>1. CASE d = c
      BY <3>1, <1>3, <1>5
    <3>2. CASE d # c
      BY <3>2, <2>2, <1>3, <1>5 DEF IndexExact
    <3> QED BY <3>1, <3>2
  <2> QED BY <2>1, <2>2 DEF IndexExact, INVAL_TH_IND
<1>9. Tracked'
  BY <1>1, <1>3, <1>5 DEF Tracked, TypeOK, INVAL_TH_IND
<1>10. InBounds' /\ BoundedSleep'
  BY <1>1, <1>2, <1>3 DEF InBounds, BoundedSleep
<1>11. DeadlineNear'
  <2> SUFFICES ASSUME NEW k \in Slot'
               PROVE  auth_deadline'[clients'[k]].sec <= now.sec + CLTH_AUTH_MAXPERM_TIME
    BY <1>1 DEF DeadlineNear, Deadline
  <2>1. CASE k = num_clients
    <3>1. auth_deadline'[c].sec = now.sec + CLTH_AUTH_MAXPERM_TIME
      BY <1>1 DEF TypeOK
    <3> QED BY <3>1, <2>1, <1>5, <1>6
  <2>2. CASE k # num_clients
    <3>1. k \in Slot /\ auth_deadline'[clients'[k]] = auth_deadline[clients[k]]
      BY <2>2, <1>1, <1>3, <1>5 DEF TypeOK
    <3> QED BY <3>1 DEF DeadlineNear, Deadline
  <2> QED BY <2>1, <2>2
<1> QED
  BY <1>7, <1>8, <1>9, <1>10, <1>11

LEMMA RemoveStep ==
    ASSUME IInv, NEW c \in Client, NEW st \in {"free", "AUTHENTICATED"}, cl_timerheap_remove(c, st)
    PROVE  IInv'
<1> USE DEF IInv
<1> SUFFICES ASSUME NEW i, i = timerheap_index[c] PROVE IInv'
  OBVIOUS
<1>1. /\ pc = "events" /\ i # INVAL_TH_IND /\ TakeOut(c, i)
      /\ cl_state' = [cl_state EXCEPT ![c] = st] /\ now' = now /\ wake' = wake
  BY DEF cl_timerheap_remove
<1>2. i \in Slot /\ clients[i] = c
  BY <1>1 DEF IndexExact
<1>3. /\ num_clients' = num_clients - 1 /\ num_clients' \in Nat
      /\ clients' \in [Slot' -> Client]
      /\ timerheap_index' \in [Client -> Nat \cup {INVAL_TH_IND}]
      /\ cl_state' \in [Client -> {"free", "ACCEPTED", "AUTHENTICATED"}]
      /\ UNCHANGED <<num_slots, auth_deadline>>
      /\ IndexExact' /\ Tracked' /\ DeadlineNear'
  BY <1>1, <1>2, TakeOutKeeps
<1>4. \/ pc' = pc /\ index' = index /\ back' = back
      \/ i # num_clients - 1 /\ pc' \in {"up", "down"} /\ index' = i /\ back' = "events"
  BY DEF cl_timerheap_remove, Heapify
<1>5. i \in Nat /\ (i # num_clients - 1 => i \in Slot')
  BY <1>2, <1>3 DEF Slot, TypeOK
<1>6. TypeOK'
  BY <1>1, <1>3, <1>4, <1>5 DEF TypeOK, INVAL_TH_IND
<1>7. InBounds'
  BY <1>1, <1>3, <1>4, <1>5 DEF InBounds, TypeOK
<1>8. BoundedSleep'
  BY <1>1, <1>4 DEF BoundedSleep
<1> QED
  BY <1>3, <1>6, <1>7, <1>8

LEMMA TimeoutStep ==
    ASSUME IInv, Timeout
    PROVE  IInv'
<1> USE DEF IInv
<1> SUFFICES ASSUME NEW c, c = clients[0] PROVE IInv'
  OBVIOUS
<1>1. /\ pc = "timeouts" /\ num_clients > 0 /\ TakeOut(c, 0)
      /\ cl_state' = [cl_state EXCEPT ![c] = "free"] /\ now' = now /\ wake' = wake
  BY DEF Timeout, Pop
<1>2. 0 \in Slot /\ c \in Client
  BY <1>1 DEF Slot, TypeOK
<1>3. /\ num_clients' = num_clients - 1 /\ num_clients' \in Nat
      /\ clients' \in [Slot' -> Client]
      /\ timerheap_index' \in [Client -> Nat \cup {INVAL_TH_IND}]
      /\ cl_state' \in [Client -> {"free", "ACCEPTED", "AUTHENTICATED"}]
      /\ UNCHANGED <<num_slots, auth_deadline>>
      /\ IndexExact' /\ Tracked' /\ DeadlineNear'
  BY <1>1, <1>2, TakeOutKeeps
<1>4. \/ pc' = pc /\ index' = index /\ back' = back
      \/ num_clients # 1 /\ pc' = "down" /\ index' = 0 /\ back' = "timeouts"
  BY DEF Timeout, Pop, Heapify
<1>5. num_clients # 1 => 0 \in Slot'
  BY <1>1, <1>3 DEF Slot, TypeOK
<1>6. TypeOK'
  BY <1>1, <1>3, <1>4 DEF TypeOK, INVAL_TH_IND
<1>7. InBounds'
  BY <1>1, <1>3, <1>4, <1>5 DEF InBounds, TypeOK
<1>8. BoundedSleep'
  BY <1>1, <1>4 DEF BoundedSleep
<1> QED
  BY <1>3, <1>6, <1>7, <1>8

LEMMA HeapifyStep ==
    ASSUME IInv, heapify_up \/ heapify_down
    PROVE  IInv'
<1> USE DEF IInv
<1>1. index \in Slot /\ pc \in {"up", "down"}
  BY DEF heapify_up, heapify_down, InBounds
<1>2. /\ UNCHANGED <<cl_state, now, wake, back>>
      /\ \/ pc' = back /\ UNCHANGED <<heapVars, index>>
         \/ pc' = pc /\ \E j \in Slot : SwapSlots(index, j) /\ index' = j
  <2>1. CASE heapify_up
    <3>1. index > 0 => Parent(index) \in Slot
      BY <1>1 DEF Slot, Parent, TypeOK
    <3> QED BY <2>1, <3>1 DEF heapify_up
  <2>2. CASE heapify_down
    <3>1. 2 * index + 1 \in Slot => Child \in Slot
      BY DEF Child, MIN, LaterMIN, TypeOK
    <3> QED BY <2>2, <3>1 DEF heapify_down
  <2> QED BY <2>1, <2>2
<1>3. CASE pc' = back /\ UNCHANGED <<heapVars, index>>
  <2>1. Slot' = Slot /\ UNCHANGED <<clients, num_clients, num_slots, timerheap_index, auth_deadline>>
    BY <1>3 DEF Slot, heapVars
  <2>2. TypeOK' /\ InBounds' /\ BoundedSleep'
    BY <2>1, <1>2, <1>3 DEF TypeOK, InBounds, BoundedSleep, INVAL_TH_IND
  <2>3. IndexExact' /\ Tracked' /\ DeadlineNear'
    BY <2>1, <1>2 DEF IndexExact, Tracked, DeadlineNear, Deadline, INVAL_TH_IND
  <2> QED BY <2>2, <2>3
<1>4. ASSUME NEW j \in Slot, SwapSlots(index, j), index' = j, pc' = pc PROVE IInv'
  <2>1. /\ clients' \in [Slot -> Client] /\ Slot' = Slot
        /\ timerheap_index' \in [Client -> Nat \cup {INVAL_TH_IND}]
        /\ IndexExact' /\ Tracked' /\ DeadlineNear'
    BY <1>1, <1>2, <1>4, SwapSlotsKeeps
  <2>2. j \in Nat /\ UNCHANGED <<num_clients, num_slots, auth_deadline>>
    BY <1>4 DEF Slot, TypeOK, SwapSlots
  <2>3. TypeOK' /\ InBounds' /\ BoundedSleep'
    BY <2>1, <2>2, <1>1, <1>2, <1>4 DEF TypeOK, InBounds, BoundedSleep, INVAL_TH_IND
  <2> QED BY <2>1, <2>3
<1> QED
  BY <1>2, <1>3, <1>4

\* Steps of the thread's loop that leave the heap alone.
LEMMA LoopStep ==
    ASSUME IInv,
           \/ \E c \in Client : LeaveAuthenticated(c)
           \/ WaitForever \/ WaitForRoot \/ epoll_wait \/ BatchDone \/ Tick
           \/ UNCHANGED vars
    PROVE  IInv'
<1> USE DEF IInv
<1>1. /\ UNCHANGED <<clients, num_clients, num_slots, timerheap_index, auth_deadline>>
      /\ Slot' = Slot /\ index' = index /\ back' = back
      /\ pc' \in {"up", "down"} => pc' = pc
  BY DEF LeaveAuthenticated, WaitForever, WaitForRoot, epoll_wait, BatchDone, Tick, vars, heapVars, loopVars, Slot
<1>2. IndexExact' /\ InBounds'
  BY <1>1 DEF IndexExact, InBounds, INVAL_TH_IND
<1>3. cl_state' \in [Client -> {"free", "ACCEPTED", "AUTHENTICATED"}] /\ Tracked'
  <2>1. CASE \E c \in Client : LeaveAuthenticated(c)
    BY <2>1, <1>1 DEF LeaveAuthenticated, TypeOK, Tracked, INVAL_TH_IND
  <2>2. CASE cl_state' = cl_state
    BY <2>2, <1>1 DEF TypeOK, Tracked, INVAL_TH_IND
  <2> QED BY <2>1, <2>2 DEF WaitForever, WaitForRoot, epoll_wait, BatchDone, Tick, vars
<1>4. now' \in Time /\ now'.sec >= now.sec /\ now.sec \in Nat
  <2>1. CASE Tick
    BY <2>1, TimerHeapAssumption DEF Tick, TypeOK, Time
  <2>2. CASE now' = now
    BY <2>2 DEF TypeOK, Time
  <2> QED BY <2>1, <2>2 DEF LeaveAuthenticated, WaitForever, WaitForRoot, epoll_wait, BatchDone, vars
<1>5. DeadlineNear'
  <2> SUFFICES ASSUME NEW k \in Slot
               PROVE  auth_deadline[clients[k]].sec <= now'.sec + CLTH_AUTH_MAXPERM_TIME
    BY <1>1 DEF DeadlineNear, Deadline
  <2>1. /\ auth_deadline[clients[k]].sec <= now.sec + CLTH_AUTH_MAXPERM_TIME
        /\ auth_deadline[clients[k]].sec \in Nat /\ now'.sec \in Nat
    BY <1>4 DEF DeadlineNear, Deadline, TypeOK, Time
  <2> QED BY <2>1, <1>4, TimerHeapAssumption
<1>6. wake' \in Nat \cup {None} /\ pc' \in {"timeouts", "wait", "events", "up", "down"} /\ BoundedSleep'
  <2>1. CASE WaitForever
    BY <2>1, <1>1 DEF WaitForever, BoundedSleep
  <2>2. CASE WaitForRoot
    <3>1. 0 \in Slot
      BY <2>2 DEF WaitForRoot, Slot, TypeOK
    <3>2. Deadline(clients, 0).sec \in Nat
      BY <3>1 DEF Deadline, TypeOK, Time
    <3>3. wake' = Deadline(clients, 0).sec /\ now' = now /\ pc' = "wait"
      BY <2>2, <3>2, <1>4 DEF WaitForRoot, timediff
    <3>4. Deadline(clients, 0).sec <= now.sec + CLTH_AUTH_MAXPERM_TIME
      BY <3>1 DEF DeadlineNear
    <3> QED BY <3>2, <3>3, <3>4, TimerHeapAssumption DEF BoundedSleep
  <2>3. CASE epoll_wait \/ BatchDone
    BY <2>3 DEF epoll_wait, BatchDone, BoundedSleep, TypeOK
  <2>4. CASE Tick
    <3>1. pc' = pc /\ wake' = wake
      BY <2>4 DEF Tick, loopVars
    <3> SUFFICES ASSUME pc = "wait", num_clients > 0 PROVE BoundedSleep!2'
      BY <3>1, <1>1 DEF BoundedSleep, TypeOK
    <3>2. wake \in Nat /\ wake <= now.sec + CLTH_AUTH_MAXPERM_TIME /\ now'.sec \in Nat
      BY <1>4 DEF BoundedSleep, TypeOK, Time
    <3> QED BY <3>1, <3>2, <1>4, TimerHeapAssumption
  <2>5. CASE pc' = pc /\ wake' = wake /\ now' = now
    BY <2>5, <1>1 DEF BoundedSleep, TypeOK
  <2> QED BY <2>1, <2>2, <2>3, <2>4, <2>5 DEF LeaveAuthenticated, vars, loopVars
<1>7. TypeOK'
  BY <1>1, <1>3, <1>4, <1>6 DEF TypeOK, INVAL_TH_IND
<1> QED
  BY <1>2, <1>3, <1>5, <1>6, <1>7

-----------------------------------------------------------------------------
(* The theorems.                                                            *)

LEMMA InitHolds == Init => IInv
<1> SUFFICES ASSUME Init PROVE IInv
  OBVIOUS
<1>1. Slot = {} /\ num_clients = 0
  BY DEF Init, Slot
<1>2. TypeOK
  <2>1. clients \in [Slot -> Client]
    BY <1>1 DEF Init
  <2>2. now \in Time /\ auth_deadline \in [Client -> Time]
    BY TimerHeapAssumption DEF Init, Time
  <2> QED BY <2>1, <2>2, <1>1, TimerHeapAssumption DEF Init, TypeOK, INVAL_TH_IND
<1>3. IndexExact /\ Tracked /\ DeadlineNear
  BY <1>1 DEF Init, IndexExact, Tracked, DeadlineNear
<1>4. InBounds /\ BoundedSleep
  BY TimerHeapAssumption DEF Init, InBounds, BoundedSleep
<1> QED
  BY <1>2, <1>3, <1>4 DEF IInv

LEMMA StepHolds == IInv /\ [Next]_vars => IInv'
<1> SUFFICES ASSUME IInv, [Next]_vars PROVE IInv'
  OBVIOUS
<1>1. ASSUME NEW c \in Client, cl_timerheap_add(c) PROVE IInv'
  BY <1>1, AddStep
<1>2. ASSUME NEW c \in Client, cl_timerheap_remove(c, "AUTHENTICATED") PROVE IInv'
  BY <1>2, RemoveStep
<1>3. ASSUME NEW c \in Client, cl_timerheap_remove(c, "free") PROVE IInv'
  BY <1>3, RemoveStep
<1>4. CASE heapify_up \/ heapify_down
  BY <1>4, HeapifyStep
<1>5. CASE Timeout
  BY <1>5, TimeoutStep
<1>6. CASE \/ \E c \in Client : LeaveAuthenticated(c)
           \/ WaitForever \/ WaitForRoot \/ epoll_wait \/ BatchDone \/ Tick
           \/ UNCHANGED vars
  BY <1>6, LoopStep
<1> QED
  BY <1>1, <1>2, <1>3, <1>4, <1>5, <1>6 DEF Next

\* IInv holds in every state of the heap and of the loop around it.
THEOREM HeapInvariance == Spec => []IInv
BY InitHolds, StepHolds, PTL DEF Spec

\* timerheap_index and the array agree, also between the swaps of a heapify
\* loop.
THEOREM IndicesExact == Spec => []IndexExact
<1>1. IInv => IndexExact
  BY DEF IInv
<1> QED
  BY <1>1, HeapInvariance, PTL

\* No client that owes an authentication is lost from the heap, and no other
\* is in it, whatever order the comparisons put it in.
THEOREM NobodyLost == Spec => []Tracked
<1>1. IInv => Tracked
  BY DEF IInv
<1> QED
  BY <1>1, HeapInvariance, PTL

\* The heap never uses a slot it does not have.
THEOREM StaysInBounds == Spec => []InBounds
<1>1. IInv => InBounds
  BY DEF IInv
<1> QED
  BY <1>1, HeapInvariance, PTL

\* epoll_wait is given a timeout of at most CLTH_AUTH_MAXPERM_TIME whenever
\* there is a client to time out.
THEOREM SleepBounded == Spec => []BoundedSleep
<1>1. IInv => BoundedSleep
  BY DEF IInv
<1> QED
  BY <1>1, HeapInvariance, PTL

-----------------------------------------------------------------------------
(* The log: arithmetic of indices that wrap. *)

LEMMA DivMod ==
    ASSUME NEW s \in Nat \ {0}, NEW x \in Int
    PROVE  /\ x % s \in 0..s - 1 /\ x \div s \in Int
           /\ x = s * (x \div s) + (x % s)
  OBVIOUS

LEMMA Unique ==
    ASSUME NEW s \in Nat \ {0}, NEW q \in Int, NEW p \in Int, NEW r \in 0..s - 1, NEW k \in 0..s - 1,
           s * q + r = s * p + k
    PROVE  r = k
  <1>1. s * (q - p) = k - r
    OBVIOUS
  <1>2. CASE q - p >= 1
    <2>1. s * (q - p) >= s
      BY <1>2
    <2> QED BY <1>1, <2>1
  <1>3. CASE q - p <= -1
    <2>1. s * (q - p) <= -s
      BY <1>3
    <2> QED BY <1>1, <2>1
  <1>4. CASE q = p
    BY <1>1, <1>4
  <1> QED BY <1>2, <1>3, <1>4

LEMMA Shift ==
    ASSUME NEW s \in Nat \ {0}, NEW x \in Int, NEW y \in Int, NEW n \in Int, x = y + s * n
    PROVE  x % s = y % s
  <1>1. PICK q \in Int, r \in 0..s - 1 : q = x \div s /\ r = x % s /\ x = s * q + r
    BY DivMod
  <1>2. PICK p \in Int, k \in 0..s - 1 : p = y \div s /\ k = y % s /\ y = s * p + k
    BY DivMod
  <1>3. s * q + r = s * (p + n) + k
    BY <1>1, <1>2
  <1>4. p + n \in Int
    BY <1>2
  <1> QED BY <1>1, <1>2, <1>3, <1>4, Unique

LEMMA Apart ==
    ASSUME NEW s \in Nat \ {0}, NEW a \in Nat, NEW b \in Nat, a < b, b < a + s
    PROVE  a % s # b % s
  <1>1. PICK q \in Int, r \in 0..s - 1 : q = a \div s /\ r = a % s /\ a = s * q + r
    BY DivMod
  <1>2. PICK p \in Int, k \in 0..s - 1 : p = b \div s /\ k = b % s /\ b = s * p + k
    BY DivMod
  <1>3. ASSUME r = k PROVE FALSE
    <2>1. s * (p - q) = b - a
      BY <1>1, <1>2, <1>3
    <2>2. CASE p - q >= 1
      <3>1. s * (p - q) >= s
        BY <2>2
      <3> QED BY <2>1, <3>1
    <2>3. CASE p - q <= 0
      <3>1. s * (p - q) <= 0
        BY <2>3
      <3> QED BY <2>1, <3>1
    <2> QED BY <2>2, <2>3
  <1> QED BY <1>1, <1>2, <1>3

LEMMA Small ==
    ASSUME NEW s \in Nat \ {0}, NEW a \in 0..s - 1
    PROVE  a % s = a
  <1>1. a \in Int OBVIOUS
  <1>2. PICK q \in Int, r \in 0..s - 1 : q = a \div s /\ r = a % s /\ a = s * q + r
    BY <1>1, DivMod
  <1>3. s * q + r = s * 0 + a
    BY <1>2
  <1> QED BY <1>2, <1>3, Unique

LEMMA AddMod ==
    ASSUME NEW s \in Nat \ {0}, NEW x \in Int, NEW d \in Int
    PROVE  ((x % s) + d) % s = (x + d) % s
  <1>1. PICK q \in Int, r \in 0..s - 1 : q = x \div s /\ r = x % s /\ x = s * q + r
    BY DivMod
  <1>2. PICK y \in Int : y = r + d
    OBVIOUS
  <1>3. PICK z \in Int : z = x + d
    OBVIOUS
  <1>4. PICK n \in Int : n = 0 - q
    OBVIOUS
  <1>5. y = z + s * n
    BY <1>1, <1>2, <1>3, <1>4
  <1>6. y % s = z % s
    BY <1>5, Shift
  <1> QED BY <1>1, <1>2, <1>3, <1>6

LEMMA SubMod ==
    ASSUME NEW s \in Nat \ {0}, NEW a \in Nat, NEW b \in Nat, a - b \in 0..s - 1
    PROVE  ((a % s) - (b % s)) % s = a - b
  <1>1. PICK q \in Int, r \in 0..s - 1 : q = a \div s /\ r = a % s /\ a = s * q + r
    BY DivMod
  <1>2. PICK p \in Int, k \in 0..s - 1 : p = b \div s /\ k = b % s /\ b = s * p + k
    BY DivMod
  <1>3. PICK y \in Int, z \in 0..s - 1, n \in Int : y = r - k /\ z = a - b /\ n = p - q
    BY <1>1, <1>2
  <1>4. s * n = s * p - s * q
    BY <1>3
  <1>5. y = z + s * n /\ z \in Int
    BY <1>1, <1>2, <1>3, <1>4
  <1>6. y % s = z % s
    BY <1>5, Shift
  <1>7. z % s = z
    BY Small
  <1> QED BY <1>1, <1>2, <1>3, <1>6, <1>7

LEMMA ModMod ==
    ASSUME NEW s \in Nat \ {0}, NEW w \in Nat \ {0}, w % s = 0, NEW x \in Int
    PROVE  (x % w) % s = x % s
  <1>1. PICK q \in Int, r \in 0..w - 1 : q = x \div w /\ r = x % w /\ x = w * q + r
    BY DivMod
  <1>2. PICK n \in Int : w = s * n
    <2>1. PICK n \in Int, r2 \in 0..s - 1 : n = w \div s /\ r2 = w % s /\ w = s * n + r2
      BY DivMod
    <2> QED BY <2>1
  <1>3. w * q = s * (n * q)
    BY <1>2
  <1>4. PICK m \in Int : m = n * q
    OBVIOUS
  <1>5. x = r + s * m /\ r \in Int
    BY <1>1, <1>3, <1>4
  <1>6. x % s = r % s
    BY <1>5, Shift
  <1> QED BY <1>1, <1>6
-----------------------------------------------------------------------------
LEMMA SizeFacts ==
    /\ FifoSize \in Nat \ {0} /\ Word \in Nat \ {0} /\ Main \in Threads
    /\ Word % FifoSize = 0 /\ FifoSize < Word
  BY LogQueueAssumption, LogEnvAssumption

\* A consumer that is there has all its fields.
LEMMA ConsumerThere ==
    ASSUME LogType, logc.pc # "none"
    PROVE  logc \in ConsumerType
  BY DEF LogType, NoConsumer

LEMMA CreatedType ==
    /\ log_consumer_create \in ConsumerType
    /\ log_consumer_create.queue = fifo_create
    /\ log_consumer_create.pc = "top" /\ ~log_consumer_create.seen /\ ~log_consumer_create.stop
  BY SizeFacts DEF log_consumer_create, ConsumerType, fifo_create, FifoType, HeadType, NoHead

\* enque_signal leaves the queue alone.
LEMMA SignalFacts ==
    ASSUME NEW c \in ConsumerType
    PROVE  /\ enque_signal(c) \in ConsumerType
           /\ enque_signal(c).queue = c.queue /\ enque_signal(c).seen = c.seen
           /\ enque_signal(c).stop = c.stop /\ enque_signal(c).flushed = c.flushed
           /\ enque_signal(c).pc \in {c.pc, "woken"} /\ (c.pc = "ended" <=> enque_signal(c).pc = "ended")
           /\ c.pc = "drain" => enque_signal(c).pc = "drain"
  <1>1. PICK n \in Int : n = c.send + 1
    BY DEF ConsumerType
  <1>2. n % Word \in Nat
    BY SizeFacts, DivMod
  <1> QED
    BY <1>1, <1>2 DEF enque_signal, ConsumerType

LEMMA MsgFacts ==
    ASSUME NEW s \in Seq(MsgType), NEW i \in 1..Len(s)
    PROVE  /\ s[i] \in MsgType /\ s[i].thread \in Threads /\ s[i].conf \in ConfType
           /\ s[i].words \in Nat \ {0} /\ s[i].at \in Nat /\ s[i].mdc \in BOOLEAN
           /\ s[i].discarded \in BOOLEAN /\ s[i].kind \in {"line", "flush", "exit"}
  <1>1. s[i] \in MsgType
    OBVIOUS
  <1> QED
    BY <1>1 DEF MsgType

LEMMA GoneFacts ==
    ASSUME LogType
    PROVE  /\ Gone \in Nat /\ Len(sent) \in Nat /\ taken \in Nat
           /\ Gone \in {taken, taken + 1}
           /\ logc.pc # "none" => Gone = taken + (IF logc.seen THEN 1 ELSE 0)
           /\ logc.pc = "none" => Gone = taken
  BY DEF Gone, LogType

-----------------------------------------------------------------------------
(* What a step leaves alone. *)

LEMMA OpenSame ==
    ASSUME LogType, sent' = sent, Gone' = Gone, OpenInv,
           \A t \in Threads : loc'[t] \in Working <=> loc[t] \in Working
    PROVE  /\ OpenInv'
           /\ \A i \in 1..Len(sent) : Open(i)' <=> Open(i)
  <1>1. \A i \in 1..Len(sent) : sent[i].thread \in Threads
    BY MsgFacts DEF LogType
  <1>2. \A i \in 1..Len(sent) : Open(i)' <=> Open(i)
    BY <1>1 DEF Open
  <1>3. ASSUME NEW t \in Threads, loc'[t] \in Working
        PROVE  \E i \in (Gone + 1..Len(sent))' : (sent[i].thread = t)' /\ Open(i)'
    <2>1. PICK i \in Gone + 1..Len(sent) : sent[i].thread = t /\ Open(i)
      BY <1>3 DEF OpenInv
    <2>2. i \in 1..Len(sent)
      BY <2>1, GoneFacts
    <2> QED
      BY <2>1, <2>2, <1>2
  <1> QED
    BY <1>2, <1>3 DEF OpenInv

LEMMA RingSame ==
    ASSUME LogType, sent' = sent, taken' = taken, logc'.queue = logc.queue,
           \A i \in 1..Len(sent) : Open(i)' <=> Open(i),
           \E P \in [Nat -> Nat] : RingInv(P)
    PROVE  \E P \in [Nat -> Nat] : RingInv(P)'
  <1>1. PICK P : P \in [Nat -> Nat] /\ RingInv(P)
    OBVIOUS
  <1>2. InQueue' = InQueue /\ \A i \in InQueue : i \in 1..Len(sent)
    BY DEF InQueue, LogType
  <1>3. \A i \in InQueue :
            logc'.queue.data[P[i] % FifoSize] =
                [id |-> i, size |-> sent[i].words,
                 flags |-> IF Open(i)' THEN "RESERVED" ELSE IF sent[i].discarded THEN "DISCARDED" ELSE "COMMITED"]
    <2> SUFFICES ASSUME NEW i \in InQueue
                 PROVE  logc'.queue.data[P[i] % FifoSize] =
                            [id |-> i, size |-> sent[i].words,
                             flags |-> IF Open(i)' THEN "RESERVED" ELSE IF sent[i].discarded THEN "DISCARDED" ELSE "COMMITED"]
      OBVIOUS
    <2>1. logc.queue.data[P[i] % FifoSize] =
            [id |-> i, size |-> sent[i].words,
             flags |-> IF Open(i) THEN "RESERVED" ELSE IF sent[i].discarded THEN "DISCARDED" ELSE "COMMITED"]
      BY <1>1, Zenon DEF RingInv
    <2>2. Open(i)' <=> Open(i)
      BY <1>2
    <2> QED
      BY <2>1, <2>2, Zenon
  <1>4. RingInv(P)'
    BY <1>1, <1>2, <1>3, Zenon DEF RingInv
  <1> QED
    BY <1>1, <1>4, Zenon

LEMMA LinesSame ==
    ASSUME LogType, sent' = sent, Gone' = Gone, NEW t \in Threads,
           loc'[t] = "reserved" <=> loc[t] = "reserved",
           \A i \in 1..Len(sent) : Open(i)' <=> Open(i)
    PROVE  Lines(t)' = Lines(t) /\ Held(t)' = Held(t)
  <1>1. Lines(t)' = Lines(t)
    BY DEF Lines
  <1>2. \A i \in Lines(t) : i \in 1..Len(sent)
    BY GoneFacts DEF Lines
  <1> QED
    BY <1>1, <1>2 DEF Held

LEMMA ContextSame ==
    ASSUME LogType, NEW t \in Threads, ContextInv(t),
           Lines(t)' = Lines(t), Held(t)' = Held(t), th'[t] = th[t], 
           \/ version' = version /\ (is_init' => is_init /\ conf' = conf)
           \/ version' = version + 1 /\ Lines(t) = {},
           loc'[t] = "start" => loc[t] = "start", loc'[t] = "ended" <=> loc[t] = "ended"
    PROVE  ContextInv(t)'
  <1>1. th[t].version \in Nat /\ version \in Nat
    BY DEF LogType, ThType
  <1> QED
    BY <1>1 DEF ContextInv

LEMMA HandledSame ==
    ASSUME sent' = sent, Gone' = Gone, handled' = handled, InOrder, AsLogged
    PROVE  InOrder' /\ AsLogged'
  BY DEF InOrder, AsLogged

LEMMA OrderSame ==
    ASSUME Gone' = Gone, handled' = handled, InOrder,
           {i \in 1..Gone : ~sent'[i].discarded} = {i \in 1..Gone : ~sent[i].discarded}
    PROVE  InOrder'
  BY DEF InOrder

LEMMA AsNowSame ==
    ASSUME LogType, sent' = sent, Gone' = Gone, AsNow, rules' = rules,
           \A t \in Threads : th'[t].mdc = th[t].mdc \/ Lines(t) = {}
    PROVE  AsNow'
  <1> SUFFICES ASSUME NEW i \in Gone + 1..Len(sent), sent[i].kind = "line"
               PROVE  sent[i].conf = rules /\ sent[i].mdc = th'[sent[i].thread].mdc
    BY DEF AsNow
  <1>1. i \in 1..Len(sent)
    BY GoneFacts
  <1>2. sent[i].thread \in Threads /\ i \in Lines(sent[i].thread)
    BY <1>1, MsgFacts DEF LogType, Lines
  <1> QED
    BY <1>2 DEF AsNow

\* A step that neither sends nor takes a message, nor touches a context.
LEMMA QuietStep ==
    ASSUME LogInv, sent' = sent, taken' = taken, handled' = handled, th' = th,
           logc.pc # "none" => logc'.pc # "none" /\ logc'.queue = logc.queue /\ logc'.seen = logc.seen,
           logc.pc = "none" => logc'.pc = "none",
           \/ version' = version /\ (is_init' => is_init /\ conf' = conf)
           \/ version' = version + 1 /\ Gone = Len(sent),
           rules' = rules \/ Gone = Len(sent),
           \A t \in Threads : /\ loc'[t] \in Working <=> loc[t] \in Working
                              /\ loc'[t] = "reserved" <=> loc[t] = "reserved"
                              /\ loc'[t] = "ended" <=> loc[t] = "ended"
                              /\ loc'[t] = "start" => loc[t] = "start"
    PROVE  /\ OpenInv' /\ (logc.pc # "none" => \E P \in [Nat -> Nat] : RingInv(P))'
           /\ (\A t \in Threads : ContextInv(t))' /\ AsNow' /\ InOrder' /\ AsLogged'
  <1>1. Gone' = Gone
    BY DEF Gone
  <1>2. OpenInv' /\ \A i \in 1..Len(sent) : Open(i)' <=> Open(i)
    BY <1>1, OpenSame DEF LogInv
  <1>3. logc'.pc # "none" => \E P \in [Nat -> Nat] : RingInv(P)'
    BY <1>2, RingSame DEF LogInv
  <1>4. ASSUME NEW t \in Threads
        PROVE  ContextInv(t)'
    <2>1. Lines(t)' = Lines(t) /\ Held(t)' = Held(t)
      BY <1>1, <1>2, LinesSame DEF LogInv
    <2>2. Gone = Len(sent) => Lines(t) = {}
      BY GoneFacts DEF Lines, LogInv
    <2> QED
      BY <2>1, <2>2, ContextSame DEF LogInv
  <1>5. AsNow'
    <2>1. CASE rules' = rules
      BY <2>1, <1>1, AsNowSame DEF LogInv
    <2>2. CASE Gone = Len(sent)
      BY <2>2, <1>1, GoneFacts DEF LogInv, AsNow
    <2> QED
      BY <2>1, <2>2
  <1>6. InOrder' /\ AsLogged'
    BY <1>1, HandledSame DEF LogInv
  <1> QED
    BY <1>2, <1>3, <1>4, <1>5, <1>6

\* What a step of thread t to l means for the lock: it enters a section when
\* it may, or stays on its side.
LEMMA LockStep ==
    ASSUME LogType, EnvLockInv, NEW t \in Threads, NEW l \in Locs, loc' = [loc EXCEPT ![t] = l],
           loc[t] # "boot", l # "boot", loc[t] = "start" => loc[Main] # "boot",
           l \in Writing => loc[t] \in Writing \/ CanWrite,
           l \in Reading => loc[t] \in Reading \cup Writing \/ CanRead,
           loc[t] \in Writing => l \notin Reading
    PROVE  EnvLockInv'
  <1>1. loc[Main] # "boot"
    BY DEF EnvLockInv
  <1> QED
    BY <1>1, SizeFacts DEF EnvLockInv, CanWrite, CanRead, LogType

\* What the queue holds is as before, and who waits for it still does.
LEMMA QueueSame ==
    ASSUME LogType, QueueInv, taken' = taken, Gone' = Gone, Len(sent') = Len(sent),
           \A i \in 1..Len(sent) : sent'[i].kind = sent[i].kind,
           logc.pc = "none" <=> logc'.pc = "none",
           logc.pc # "none" => /\ logc'.stop = logc.stop /\ logc'.flushed = logc.flushed
                               /\ logc'.pc = "ended" => logc'.stop
                               /\ logc'.seen => logc'.pc = "drain",
           \A t \in Threads : /\ loc'[t] \in {"flushsig", "flushwait"} => loc[t] \in {"flushsig", "flushwait"}
                              /\ loc'[t] = "update" => loc[t] = "update" \/ Gone = Len(sent)
                              /\ loc'[t] \in {"swap", "fini"} => loc[t] \in {"swap", "fini"} \/ taken = Len(sent),
           \A t \in Threads : loc[t] \in {"exitsig", "join"} => loc'[t] \in {"exitsig", "join"},
           \/ \A t \in Threads : loc[t] \in {"flushsig", "flushwait"} => loc'[t] \in {"flushsig", "flushwait"}
           \/ Gone = Len(sent)
    PROVE  QueueInv'
  <1>1. /\ Gone <= Len(sent) /\ logc.pc = "none" => taken = Len(sent)
    BY DEF QueueInv
  <1>2. ASSUME logc'.pc # "none"
        PROVE  /\ logc'.stop => Gone = Len(sent) /\ \E t \in Threads : loc'[t] \in {"exitsig", "join"}
               /\ \A t \in Threads : loc'[t] \in {"flushsig", "flushwait"} /\ logc'.flushed => Gone = Len(sent)
    BY <1>2 DEF QueueInv
  <1>3. ASSUME NEW i \in Gone + 1..Len(sent)
        PROVE  /\ sent'[i].kind = "flush" => i = Len(sent) /\ \E t \in Threads : loc'[t] \in {"flushsig", "flushwait"}
               /\ sent'[i].kind = "exit" => i = Len(sent) /\ \E t \in Threads : loc'[t] \in {"exitsig", "join"}
    <2>1. i \in 1..Len(sent)
      BY GoneFacts
    <2> QED
      BY <2>1 DEF QueueInv
  <1>4. \A t \in Threads : /\ loc'[t] = "update" => Gone = Len(sent)
                           /\ loc'[t] \in {"swap", "fini"} => taken = Len(sent)
    BY DEF QueueInv
  <1> QED
    BY <1>1, <1>2, <1>3, <1>4 DEF QueueInv

\* Who is inside a call finds the consumer.
LEMMA Inside_Finds ==
    ASSUME LogInv, NEW t \in Threads,
           loc[t] \in Working \cup {"signal"} \cup Flushing \cup Exiting
    PROVE  logc.pc # "none" /\ logc \in ConsumerType /\ conf.en
  <1>1. conf.en
    BY DEF LogInv, ConfInv
  <1>2. loc[t] \in Reading \cup Writing /\ loc[t] \notin {"swap", "fini"}
    BY DEF Working, Flushing, Exiting, Reading, Writing
  <1>3. \A u \in Threads : loc[u] \notin {"swap", "fini"}
    BY <1>2 DEF LogInv, EnvLockInv, Writing
  <1> QED
    BY <1>1, <1>3, ConsumerThere DEF LogInv, ConfInv

\* A step of one thread under which the queue stays as it is.
LEMMA MoveStep ==
    ASSUME LogInv, LogType', EnvLockInv', ConfInv', QueueInv', NEW t \in Threads, NEW l \in Locs,
           loc' = [loc EXCEPT ![t] = l],
           {loc[t], l} \cap (Working \cup {"start", "ended"}) = {},
           sent' = sent, taken' = taken, handled' = handled, th' = th,
           logc.pc # "none" => logc'.pc # "none" /\ logc'.queue = logc.queue /\ logc'.seen = logc.seen,
           logc.pc = "none" => logc'.pc = "none",
           \/ version' = version /\ (is_init' => is_init /\ conf' = conf)
           \/ version' = version + 1 /\ Gone = Len(sent),
           rules' = rules \/ Gone = Len(sent)
    PROVE  LogInv'
  <1>1. \A u \in Threads : /\ loc'[u] \in Working <=> loc[u] \in Working
                           /\ loc'[u] = "reserved" <=> loc[u] = "reserved"
                           /\ loc'[u] = "ended" <=> loc[u] = "ended"
                           /\ loc'[u] = "start" => loc[u] = "start"
    BY DEF LogInv, LogType, Working
  <1>2. /\ OpenInv' /\ (logc.pc # "none" => \E P \in [Nat -> Nat] : RingInv(P))'
        /\ (\A u \in Threads : ContextInv(u))' /\ AsNow' /\ InOrder' /\ AsLogged'
    BY <1>1, QuietStep
  <1> QED
    BY <1>2 DEF LogInv

LEMMA SignalStep ==
    ASSUME LogInv, NEW t \in Threads, Signal(t)
    PROVE  LogInv'
  <1> USE DEF Signal, Goto, envVars, histVars, boundVars
  <1>1. logc.pc # "none" /\ logc \in ConsumerType /\ conf.en
    BY Inside_Finds
  <1>2. logc' = enque_signal(logc) /\ logc' \in ConsumerType /\ logc'.pc # "none"
    BY <1>1, SignalFacts DEF ConsumerType
  <1>3. LogType'
    BY <1>2 DEF LogInv, LogType, Locs, Reading
  <1>4. EnvLockInv'
    BY LockStep DEF LogInv, Locs, Reading, Writing, Flushing, Exiting
  <1>5. ConfInv'
    BY <1>1, <1>2 DEF LogInv, LogType, ConfInv, Working, Flushing, Exiting, Writing
  <1>6. QueueInv'
    <2>1. Gone' = Gone
      BY <1>1, <1>2, SignalFacts DEF Gone
    <2>2. /\ logc'.stop = logc.stop /\ logc'.flushed = logc.flushed
          /\ logc'.pc = "ended" => logc'.stop
          /\ logc'.seen => logc'.pc = "drain"
      BY <1>1, <1>2, SignalFacts DEF LogInv, QueueInv
    <2> QED
      BY <1>1, <1>2, <2>1, <2>2, QueueSame DEF LogInv, LogType
  <1> QED
    BY <1>1, <1>2, <1>3, <1>4, <1>5, <1>6, SignalFacts, MoveStep DEF Locs, Reading, Working

LEMMA LeaveStep ==
    ASSUME LogInv, NEW t \in Threads, Leave(t)
    PROVE  LogInv'
  <1>1. loc[t] = "leave" /\ UNCHANGED <<is_init, conf, version, newconf, rules, logc, th, broken, histVars, boundVars>>
    BY DEF Leave
  <1>2. PICK l \in {"reload", "idle"} : loc' = [loc EXCEPT ![t] = l]
    BY DEF Leave, Goto
  <1> USE DEF histVars, boundVars
  <1>3. LogType'
    BY <1>1, <1>2 DEF LogInv, LogType, Locs
  <1>4. EnvLockInv'
    BY <1>1, <1>2, LockStep DEF LogInv, Locs, Reading, Writing, Flushing, Exiting
  <1>5. ConfInv'
    BY <1>1, <1>2 DEF LogInv, LogType, ConfInv, Working, Flushing, Exiting, Writing
  <1>6. QueueInv'
    BY <1>1, <1>2, QueueSame DEF LogInv, LogType, Gone, QueueInv
  <1> QED
    BY <1>1, <1>2, <1>3, <1>4, <1>5, <1>6, MoveStep DEF Locs, Working

LEMMA zlog_reloadStep ==
    ASSUME LogInv, NEW t \in Threads, NEW en \in BOOLEAN, NEW fails \in BOOLEAN, zlog_reload(t, en, fails)
    PROVE  LogInv'
  <1>1. /\ loc[t] = "reload" /\ CanWrite
        /\ UNCHANGED <<is_init, conf, version, rules, logc, th, broken, histVars, lines>>
    BY DEF zlog_reload
  <1>2. \A u \in Threads : loc[u] \notin Writing
    BY <1>1 DEF CanWrite, CanRead
  <1>3. newconf = NoConf /\ (logc.pc # "none" <=> conf.en)
    BY <1>2 DEF LogInv, ConfInv, Writing
  <1>4. PICK l \in {"idle", "flush", "update"} :
            /\ loc' = [loc EXCEPT ![t] = l]
            /\ reloads' \in Nat /\ newconf' \in ConfType
            /\ l = "idle" => newconf' = NoConf
            /\ l # "idle" => newconf' # NoConf
            /\ l = "flush" => conf.en
            /\ l = "update" => ~conf.en
    <2>1. CASE ~is_init \/ count <= Period
      BY <1>1, <1>3, <2>1 DEF zlog_reload, Goto, LogInv, LogType
    <2>2. CASE ~(~is_init \/ count <= Period)
      <3>1. PICK l : l = IF fails THEN "idle" ELSE IF conf.en THEN "flush" ELSE "update"
        OBVIOUS
      <3>2. /\ loc' = [loc EXCEPT ![t] = l] /\ reloads' = reloads + 1
            /\ newconf' = IF fails THEN NoConf ELSE [id |-> reloads + 2, en |-> en]
        BY <3>1, <2>2 DEF zlog_reload, Goto
      <3>3. reloads \in Nat
        BY DEF LogInv, LogType
      <3>4. l \in {"idle", "flush", "update"} /\ (l = "idle" <=> fails)
            /\ (l = "flush" => conf.en) /\ (l = "update" => ~conf.en)
        BY <3>1
      <3>5. reloads' \in Nat
        BY <3>2, <3>3
      <3>6. CASE fails
        BY <3>2, <3>4, <3>5, <3>6 DEF NoConf, ConfType
      <3>7. CASE ~fails
        <4>1. newconf' = [id |-> reloads + 2, en |-> en]
          BY <3>2, <3>7
        <4>2. newconf' \in ConfType /\ newconf'.id # 0
          BY <4>1, <3>3 DEF ConfType
        <4>3. newconf' # NoConf
          BY <4>2 DEF NoConf
        <4> QED
          BY <3>2, <3>4, <3>5, <3>7, <4>2, <4>3
      <3> QED
        BY <3>6, <3>7
    <2> QED
      BY <2>1, <2>2
  <1> USE DEF histVars
  <1>5. LogType'
    BY <1>1, <1>4 DEF LogInv, LogType, Locs, Writing, Flushing
  <1>6. EnvLockInv'
    BY <1>1, <1>4, LockStep DEF LogInv, Locs, Reading, Writing, Flushing, Exiting
  <1>7. ConfInv'
    BY <1>1, <1>2, <1>3, <1>4 DEF LogInv, LogType, ConfInv, Working, Flushing, Exiting, Writing
  <1>8. QueueInv'
    <2>1. LogType /\ QueueInv
      BY DEF LogInv
    <2>2. logc.pc = "none" => Gone = Len(sent)
      BY <2>1, GoneFacts DEF QueueInv
    <2>3. Gone' = Gone
      BY <1>1 DEF Gone
    <2>4. \A u \in Threads : loc'[u] = loc[u] \/ (u = t /\ loc'[u] = l)
      BY <1>4, <2>1 DEF LogType
    <2> QED
      BY <1>1, <1>3, <1>4, <2>1, <2>2, <2>3, <2>4, QueueSame DEF QueueInv
  <1> QED
    BY <1>1, <1>4, <1>5, <1>6, <1>7, <1>8, MoveStep DEF Locs, Working, Writing, Flushing

\* The signals after the flush and the exit message, like that after a line.
LEMMA CmdSignalStep ==
    ASSUME LogInv, NEW t \in Threads, FlushSignal(t) \/ ExitSignal(t)
    PROVE  LogInv'
  <1>0. PICK k \in {"flushsig", "exitsig"}, l \in {"flushwait", "join"} :
            /\ loc[t] = k /\ loc' = [loc EXCEPT ![t] = l] /\ (k = "flushsig" <=> l = "flushwait")
    BY DEF FlushSignal, ExitSignal, Goto
  <1>1. logc.pc # "none" /\ logc \in ConsumerType /\ conf.en
    BY <1>0, Inside_Finds DEF Flushing, Exiting
  <1>2. logc' = enque_signal(logc) /\ logc' \in ConsumerType /\ logc'.pc # "none"
    BY <1>1, SignalFacts DEF ConsumerType, FlushSignal, ExitSignal
  <1>3. UNCHANGED <<envVars, th, broken, histVars, boundVars>>
    BY DEF FlushSignal, ExitSignal
  <1> USE DEF envVars, histVars, boundVars
  <1>4. LogType'
    BY <1>0, <1>2, <1>3 DEF LogInv, LogType, Locs, Writing, Flushing, Exiting
  <1>5. EnvLockInv'
    BY <1>0, <1>3, LockStep DEF LogInv, Locs, Reading, Writing, Flushing, Exiting
  <1>6. ConfInv'
    BY <1>0, <1>1, <1>2, <1>3 DEF LogInv, LogType, ConfInv, Working, Flushing, Exiting, Writing
  <1>7. QueueInv'
    <2>1. Gone' = Gone
      BY <1>1, <1>2, <1>3, SignalFacts DEF Gone
    <2>2. /\ logc'.stop = logc.stop /\ logc'.flushed = logc.flushed
          /\ logc'.pc = "ended" => logc'.stop
          /\ logc'.seen => logc'.pc = "drain"
      BY <1>1, <1>2, SignalFacts DEF LogInv, QueueInv
    <2> QED
      BY <1>0, <1>1, <1>2, <1>3, <2>1, <2>2, QueueSame DEF LogInv, LogType
  <1> QED
    BY <1>0, <1>1, <1>2, <1>3, <1>4, <1>5, <1>6, <1>7, SignalFacts, MoveStep
       DEF Locs, Writing, Flushing, Exiting, Working

LEMMA FlushWaitStep ==
    ASSUME LogInv, NEW t \in Threads, FlushWait(t)
    PROVE  LogInv'
  <1>1. /\ loc[t] = "flushwait" /\ logc.flushed /\ loc' = [loc EXCEPT ![t] = "update"]
        /\ UNCHANGED <<envVars, logc, th, broken, histVars, boundVars>>
    BY DEF FlushWait, Goto
  <1>2. logc.pc # "none" /\ logc \in ConsumerType /\ conf.en
    BY <1>1, Inside_Finds DEF Flushing
  <1>3. Gone = Len(sent)
    BY <1>1, <1>2 DEF LogInv, QueueInv
  <1> USE DEF envVars, histVars, boundVars
  <1>4. LogType'
    BY <1>1 DEF LogInv, LogType, Locs, Writing
  <1>5. EnvLockInv'
    BY <1>1, LockStep DEF LogInv, Locs, Reading, Writing, Flushing, Exiting
  <1>6. ConfInv'
    BY <1>1, <1>2 DEF LogInv, LogType, ConfInv, Working, Flushing, Exiting, Writing
  <1>7. QueueInv'
    BY <1>1, <1>3, QueueSame DEF LogInv, LogType, Gone, QueueInv
  <1> QED
    BY <1>1, <1>4, <1>5, <1>6, <1>7, MoveStep DEF Locs, Writing, Working

LEMMA UpdateRulesStep ==
    ASSUME LogInv, NEW t \in Threads, NEW fails \in BOOLEAN, UpdateRules(t, fails)
    PROVE  LogInv'
  <1>1. /\ loc[t] = "update"
        /\ rules' = (IF fails THEN NoConf ELSE newconf) /\ newconf' = (IF fails THEN NoConf ELSE newconf)
        /\ UNCHANGED <<is_init, conf, version, count, logc, th, broken, histVars, lines, reloads>>
    BY DEF UpdateRules, zlog_category_update_rules
  <1>2. PICK l \in {"idle", "consumer"} : loc' = [loc EXCEPT ![t] = l] /\ (fails <=> l = "idle")
    BY DEF UpdateRules, Goto
  <1>3. \A u \in Threads : u # t => loc[u] \notin Reading \cup Writing
    BY <1>1 DEF LogInv, EnvLockInv, Writing
  <1>4. Gone = Len(sent) /\ newconf # NoConf /\ (logc.pc # "none" <=> conf.en)
    BY <1>1, <1>3 DEF LogInv, QueueInv, ConfInv, Writing
  <1> USE DEF histVars
  <1>5. LogType'
    BY <1>1, <1>2 DEF LogInv, LogType, Locs, Writing, ConfType, NoConf
  <1>6. EnvLockInv'
    BY <1>1, <1>2, LockStep DEF LogInv, Locs, Reading, Writing, Flushing, Exiting
  <1>7. ConfInv'
    BY <1>1, <1>2, <1>3, <1>4 DEF LogInv, LogType, ConfInv, Working, Flushing, Exiting, Writing
  <1>8. QueueInv'
    BY <1>1, <1>2, <1>4, QueueSame DEF LogInv, LogType, Gone, QueueInv
  <1> QED
    BY <1>1, <1>2, <1>4, <1>5, <1>6, <1>7, <1>8, MoveStep DEF Locs, Working, Writing

LEMMA zlog_finiStep ==
    ASSUME LogInv, NEW t \in Threads, zlog_fini(t)
    PROVE  LogInv'
  <1>1. /\ loc[t] = "idle" /\ CanWrite
        /\ UNCHANGED <<envVars, logc, th, broken, histVars, boundVars>>
    BY DEF zlog_fini
  <1>2. \A u \in Threads : loc[u] \notin Writing
    BY <1>1 DEF CanWrite, CanRead
  <1>3. newconf = NoConf /\ (logc.pc # "none" <=> conf.en)
    BY <1>2 DEF LogInv, ConfInv, Writing
  <1>4. PICK l \in {"exit", "fini"} : loc' = [loc EXCEPT ![t] = l] /\ (l = "exit" <=> conf.en)
    BY DEF zlog_fini, Goto
  <1> USE DEF envVars, histVars, boundVars
  <1>5. LogType'
    BY <1>1, <1>4 DEF LogInv, LogType, Locs, Writing, Exiting
  <1>6. EnvLockInv'
    BY <1>1, <1>4, LockStep DEF LogInv, Locs, Reading, Writing, Flushing, Exiting
  <1>7. ConfInv'
    BY <1>1, <1>2, <1>3, <1>4 DEF LogInv, LogType, ConfInv, Working, Flushing, Exiting, Writing
  <1>8. QueueInv'
    <2>1. LogType /\ QueueInv
      BY DEF LogInv
    <2>2. Gone' = Gone
      BY <1>1 DEF Gone
    <2>3. \A u \in Threads : loc'[u] = loc[u] \/ (u = t /\ loc'[u] = l)
      BY <1>4, <2>1 DEF LogType
    <2> QED
      BY <1>1, <1>3, <1>4, <2>1, <2>2, <2>3, QueueSame DEF QueueInv
  <1> QED
    BY <1>1, <1>4, <1>5, <1>6, <1>7, <1>8, MoveStep DEF Locs, Working, Writing, Exiting

LEMMA FiniStep ==
    ASSUME LogInv, NEW t \in Threads, Fini(t)
    PROVE  LogInv'
  <1>1. /\ loc[t] = "fini" /\ loc' = [loc EXCEPT ![t] = "idle"]
        /\ rules' = NoConf /\ conf' = NoConf /\ is_init' = FALSE
        /\ UNCHANGED <<version, count, newconf, logc, th, broken, histVars, boundVars>>
    BY DEF Fini, Goto
  <1>2. \A u \in Threads : u # t => loc[u] \notin Reading \cup Writing
    BY <1>1 DEF LogInv, EnvLockInv, Writing
  <1>3. newconf = NoConf /\ logc.pc = "none" /\ Gone = Len(sent) /\ taken = Len(sent)
    BY <1>1, GoneFacts DEF LogInv, ConfInv, QueueInv
  <1> USE DEF histVars, boundVars
  <1>4. LogType'
    <2>1. is_init' \in BOOLEAN /\ NoConf \in ConfType
      BY <1>1 DEF NoConf, ConfType
    <2>2. loc' \in [Threads -> Locs]
      BY <1>1 DEF LogInv, LogType, Locs
    <2> QED
      BY <1>1, <2>1, <2>2 DEF LogInv, LogType
  <1>5. EnvLockInv'
    BY <1>1, LockStep DEF LogInv, Locs, Reading, Writing, Flushing, Exiting
  <1>6. ConfInv'
    BY <1>1, <1>2, <1>3 DEF LogInv, LogType, ConfInv, NoConf, Working, Flushing, Exiting, Writing, Reading
  <1>7. QueueInv'
    BY <1>1, <1>3, QueueSame DEF LogInv, LogType, Gone, QueueInv
  <1> QED
    BY <1>1, <1>3, <1>4, <1>5, <1>6, <1>7, MoveStep DEF Locs, Working

LEMMA SwapStep ==
    ASSUME LogInv, NEW t \in Threads, Swap(t)
    PROVE  LogInv'
  <1>1. /\ loc[t] = "swap" /\ loc' = [loc EXCEPT ![t] = "idle"]
        /\ conf' = newconf /\ newconf' = NoConf /\ version' = version + 1
        /\ UNCHANGED <<is_init, count, rules, logc, th, broken, histVars, boundVars>>
    BY DEF Swap, Goto
  <1>2. \A u \in Threads : u # t => loc[u] \notin Reading \cup Writing
    BY <1>1 DEF LogInv, EnvLockInv, Writing
  <1>3. taken = Len(sent) /\ (logc.pc # "none" <=> newconf.en) /\ (broken \/ rules = newconf)
    BY <1>1 DEF LogInv, ConfInv, QueueInv
  <1>4. Gone = Len(sent)
    BY <1>3, GoneFacts DEF LogInv, QueueInv
  <1> USE DEF histVars, boundVars
  <1>5. LogType'
    BY <1>1 DEF LogInv, LogType, Locs, NoConf, ConfType
  <1>6. EnvLockInv'
    BY <1>1, LockStep DEF LogInv, Locs, Reading, Writing, Flushing, Exiting
  <1>7. ConfInv'
    BY <1>1, <1>2, <1>3 DEF LogInv, LogType, ConfInv, Working, Flushing, Exiting, Writing, Reading
  <1>8. QueueInv'
    BY <1>1, <1>3, <1>4, QueueSame DEF LogInv, LogType, Gone, QueueInv
  <1> QED
    BY <1>1, <1>4, <1>5, <1>6, <1>7, <1>8, MoveStep DEF Locs, Working

-----------------------------------------------------------------------------
(* The consumer, as long as it takes nothing. *)

\* A step of the consumer that changes only where it is and what it thinks is
\* pending.
LEMMA ConsumerStays ==
    ASSUME LogInv, logc \in ConsumerType, logc' \in ConsumerType,
           UNCHANGED <<consumerOnly, th, histVars>>,
           logc'.queue = logc.queue, logc'.seen = logc.seen, logc'.stop = logc.stop, logc'.flushed = logc.flushed,
           logc'.pc = "ended" => logc'.stop, logc'.seen => logc'.pc = "drain"
    PROVE  LogInv'
  <1> USE DEF consumerOnly, envVars, histVars, boundVars
  <1>1. logc.pc # "none" /\ logc'.pc # "none"
    BY DEF ConsumerType
  <1>2. LogType'
    BY DEF LogInv, LogType
  <1>3. EnvLockInv'
    BY DEF LogInv, EnvLockInv
  <1>4. ConfInv'
    BY <1>1 DEF LogInv, ConfInv
  <1>5. Gone' = Gone
    BY <1>1 DEF Gone
  <1>6. QueueInv'
    BY <1>1, <1>5, QueueSame DEF LogInv
  <1>7. /\ OpenInv' /\ (logc.pc # "none" => \E P \in [Nat -> Nat] : RingInv(P))'
        /\ (\A t \in Threads : ContextInv(t))' /\ AsNow' /\ InOrder' /\ AsLogged'
    BY <1>1, QuietStep DEF LogInv, LogType
  <1> QED
    BY <1>2, <1>3, <1>4, <1>6, <1>7 DEF LogInv

LEMMA TopStep ==
    ASSUME LogInv, Top \/ Woken \/ SpuriousWake
    PROVE  LogInv'
  <1>1. logc.pc \in {"top", "woken", "asleep"} /\ UNCHANGED <<consumerOnly, th, histVars>>
    BY DEF Top, Woken, SpuriousWake
  <1>2. logc \in ConsumerType
    BY <1>1, ConsumerThere DEF LogInv
  <1>3. ~logc.seen
    BY <1>1 DEF LogInv, QueueInv
  <1>4. PICK n \in Int : n = logc.send - logc.recv
    BY <1>2 DEF ConsumerType
  <1>5. n % Word \in Nat
    BY SizeFacts, DivMod
  <1>6. PICK k \in {"asleep", "drain", "woken"}, m \in Nat : logc' = [logc EXCEPT !.pc = k, !.pending = m]
    <2>1. CASE logc' = [logc EXCEPT !.pc = "drain", !.pending = (logc.send - logc.recv) % Word]
      BY <2>1, <1>4, <1>5
    <2>2. CASE logc' = [logc EXCEPT !.pc = "asleep"] \/ logc' = [logc EXCEPT !.pc = "woken"]
      <3>1. PICK k \in {"asleep", "woken"} : logc' = [logc EXCEPT !.pc = k]
        BY <2>2
      <3>2. logc' = [logc EXCEPT !.pc = k, !.pending = logc.pending] /\ logc.pending \in Nat
        BY <3>1, <1>2 DEF ConsumerType
      <3> QED
        BY <3>2
    <2> QED
      BY <2>1, <2>2 DEF Top, Woken, SpuriousWake
  <1>7. /\ logc' \in ConsumerType /\ logc'.queue = logc.queue /\ logc'.seen = logc.seen
        /\ logc'.stop = logc.stop /\ logc'.flushed = logc.flushed /\ logc'.pc # "ended"
    BY <1>2, <1>6 DEF ConsumerType
  <1> QED
    BY <1>1, <1>2, <1>3, <1>7, ConsumerStays

LEMMA DrainedStep ==
    ASSUME LogInv, Drained
    PROVE  LogInv'
  <1>1. logc.pc = "drain" /\ ~logc.seen /\ UNCHANGED <<consumerOnly, th, histVars>>
    BY DEF Drained
  <1>2. logc \in ConsumerType
    BY <1>1, ConsumerThere DEF LogInv
  <1>3. PICK k \in {"ended", "top"} : logc' = [logc EXCEPT !.pc = k] /\ (k = "ended" => logc.stop)
    BY DEF Drained
  <1>4. /\ logc' \in ConsumerType /\ logc'.queue = logc.queue /\ logc'.seen = logc.seen
        /\ logc'.stop = logc.stop /\ logc'.flushed = logc.flushed /\ (logc'.pc = "ended" => logc.stop)
    BY <1>2, <1>3 DEF ConsumerType
  <1> QED
    BY <1>1, <1>2, <1>4, ConsumerStays

-----------------------------------------------------------------------------
(* A consumer comes or goes. *)

\* The queue was empty, and so is the new one, if there is one.
LEMMA Renewed ==
    ASSUME LogInv, LogType', logc' \in {NoConsumer, log_consumer_create},
           sent' = sent, taken' = taken, handled' = handled, taken = Len(sent), Gone = Len(sent),
           \A t \in Threads : loc'[t] \notin Working
    PROVE  /\ Gone' = Gone /\ OpenInv' /\ (logc.pc # "none" => \E P \in [Nat -> Nat] : RingInv(P))'
           /\ AsNow' /\ InOrder' /\ AsLogged'
           /\ \A t \in Threads : Lines(t) = {} /\ Lines(t)' = {} /\ Held(t) = {} /\ Held(t)' = {}
  <1>1. taken \in Nat /\ Len(sent) \in Nat
    BY DEF LogInv, LogType
  <1>2. Gone' = Gone
    BY <1>1, CreatedType DEF Gone, NoConsumer
  <1>3. (Gone + 1..Len(sent)) = {} /\ (Gone + 1..Len(sent))' = {}
    BY <1>1, <1>2
  <1>4. OpenInv'
    <2>1. \A i \in 1..Len(sent) : ~Open(i)'
      BY MsgFacts DEF Open, LogInv, LogType
    <2> QED
      BY <2>1 DEF OpenInv
  <1>5. ASSUME logc'.pc # "none"
        PROVE  \E P \in [Nat -> Nat] : RingInv(P)'
    <2>1. logc'.queue = fifo_create
      BY <1>5, CreatedType DEF NoConsumer
    <2>2. logc'.queue.in = 0 /\ logc'.queue.out = 0
      BY <2>1 DEF fifo_create
    <2>3. 0 % Word = 0
      BY SizeFacts, Small
    <2>4. PICK P \in [Nat -> Nat] : P = [n \in Nat |-> 0]
      OBVIOUS
    <2>5. P[Len(sent) + 1] = 0
      BY <1>1, <2>4
    <2>6. InQueue' = {}
      BY <1>1 DEF InQueue
    <2>7. RingInv(P)'
      BY <1>1, <2>2, <2>3, <2>5, <2>6, SizeFacts DEF RingInv
    <2> QED
      BY <2>7
  <1>6. AsNow'
    BY <1>3 DEF AsNow
  <1>7. InOrder' /\ AsLogged'
    BY <1>2, HandledSame DEF LogInv
  <1>8. \A t \in Threads : Lines(t) = {} /\ Lines(t)' = {} /\ Held(t) = {} /\ Held(t)' = {}
    BY <1>3 DEF Lines, Held
  <1> QED
    BY <1>2, <1>4, <1>5, <1>6, <1>7, <1>8

LEMMA log_consumer_destroyStep ==
    ASSUME LogInv, NEW t \in Threads, log_consumer_destroy(t)
    PROVE  LogInv'
  <1>1. /\ loc[t] = "join" /\ logc.pc = "ended"
        /\ logc' = IF newconf.en THEN log_consumer_create ELSE NoConsumer
        /\ UNCHANGED <<envVars, th, broken, histVars, boundVars>>
    BY DEF log_consumer_destroy
  <1>2. PICK l \in {"fini", "swap"} : loc' = [loc EXCEPT ![t] = l] /\ (l = "fini" <=> newconf = NoConf)
    BY DEF log_consumer_destroy, Goto
  <1>3. \A u \in Threads : u # t => loc[u] \notin Reading \cup Writing
    BY <1>1 DEF LogInv, EnvLockInv, Writing, Exiting
  <1>4. taken = Len(sent) /\ Gone = Len(sent)
    <2>1. logc.stop /\ ~logc.seen
      BY <1>1 DEF LogInv, QueueInv
    <2> QED
      BY <1>1, <2>1, GoneFacts DEF LogInv, QueueInv
  <1>5. newconf # NoConf => broken \/ rules = newconf
    BY <1>1 DEF LogInv, ConfInv, Exiting
  <1> USE DEF envVars, histVars, boundVars
  <1>6. LogType'
    BY <1>1, <1>2, CreatedType DEF LogInv, LogType, Locs, Writing
  <1>7. EnvLockInv'
    BY <1>1, <1>2, LockStep DEF LogInv, Locs, Reading, Writing, Flushing, Exiting
  <1>8. logc'.pc # "none" <=> newconf.en
    BY <1>1, CreatedType DEF NoConsumer
  <1>9. ConfInv'
    BY <1>1, <1>2, <1>3, <1>5, <1>8 DEF LogInv, LogType, ConfInv, NoConf, Working, Flushing, Exiting, Writing, Reading
  <1>10. \A u \in Threads : loc'[u] \notin Working
    BY <1>2, <1>3 DEF Working, Reading, LogInv, LogType
  <1>11. /\ Gone' = Gone /\ OpenInv' /\ (logc.pc # "none" => \E P \in [Nat -> Nat] : RingInv(P))'
         /\ AsNow' /\ InOrder' /\ AsLogged'
         /\ \A u \in Threads : Lines(u) = {} /\ Lines(u)' = {} /\ Held(u) = {} /\ Held(u)' = {}
    BY <1>1, <1>4, <1>6, <1>10, Renewed
  <1>12. QueueInv'
    <2>1. \A u \in Threads : loc'[u] \notin {"flushsig", "flushwait", "exitsig", "join"}
      BY <1>2, <1>3 DEF Writing, Flushing, Exiting, LogInv, LogType
    <2>2. logc'.pc # "none" => ~logc'.seen /\ ~logc'.stop /\ logc'.pc # "ended"
      BY <1>1, CreatedType DEF NoConsumer
    <2>3. Gone \in Nat
      BY GoneFacts DEF LogInv
    <2> QED
      BY <1>1, <1>2, <1>4, <1>11, <2>1, <2>2, <2>3 DEF QueueInv
  <1>13. ASSUME NEW u \in Threads
         PROVE  ContextInv(u)'
    <2>1. /\ loc'[u] = "start" => loc[u] = "start"
          /\ loc'[u] = "ended" <=> loc[u] = "ended"
      BY <1>1, <1>2 DEF LogInv, LogType
    <2> QED
      BY <1>1, <1>11, <2>1, ContextSame DEF LogInv
  <1> QED
    BY <1>6, <1>7, <1>9, <1>11, <1>12, <1>13 DEF LogInv

LEMMA SwitchConsumerStep ==
    ASSUME LogInv, NEW t \in Threads, NEW fails \in BOOLEAN, SwitchConsumer(t, fails)
    PROVE  LogInv'
  <1>1. /\ loc[t] = "consumer" /\ rules' = rules
        /\ newconf' = IF fails THEN NoConf ELSE newconf
        /\ logc' = IF newconf.en /\ ~conf.en /\ ~fails THEN log_consumer_create ELSE logc
        /\ UNCHANGED <<is_init, conf, version, count, th, histVars, lines, reloads>>
    BY DEF SwitchConsumer, zlog_category_rollback_rules
  <1>2. broken' \in BOOLEAN /\ (fails => broken') /\ (~fails => broken' = broken)
    BY DEF SwitchConsumer, LogInv, LogType
  <1>3. PICK l \in {"idle", "exit", "swap"} :
            /\ loc' = [loc EXCEPT ![t] = l] /\ (fails <=> l = "idle")
            /\ ~fails => (l = "exit" <=> conf.en)
    BY DEF SwitchConsumer, Goto
  <1>4. \A u \in Threads : u # t => loc[u] \notin Reading \cup Writing
    BY <1>1 DEF LogInv, EnvLockInv, Writing
  <1>5. /\ logc.pc # "none" <=> conf.en
        /\ newconf # NoConf /\ (broken \/ rules = newconf)
        /\ ~conf.en => taken = Len(sent) /\ Gone = Len(sent)
    <2>1. logc.pc # "none" <=> conf.en
      BY <1>1, <1>4 DEF LogInv, ConfInv, Writing
    <2> QED
      BY <1>1, <2>1, GoneFacts DEF LogInv, ConfInv, QueueInv
  <1> USE DEF histVars
  <1>6. LogType'
    <2>1. logc' \in ConsumerType \cup {NoConsumer}
      BY <1>1, CreatedType DEF LogInv, LogType
    <2>2. newconf' \in ConfType
      BY <1>1 DEF LogInv, LogType, NoConf, ConfType
    <2>3. loc' \in [Threads -> Locs]
      BY <1>3 DEF LogInv, LogType, Locs, Writing, Exiting
    <2> QED
      BY <1>1, <1>2, <2>1, <2>2, <2>3 DEF LogInv, LogType
  <1>7. EnvLockInv'
    BY <1>1, <1>3, LockStep DEF LogInv, Locs, Reading, Writing, Flushing, Exiting
  <1>8. ~fails /\ ~conf.en => (logc'.pc # "none" <=> newconf.en)
    BY <1>1, <1>5, CreatedType
  <1>9. ConfInv'
    <2>1. fails => logc' = logc
      BY <1>1
    <2>2. conf.en => logc' = logc
      BY <1>1
    <2> QED
      BY <1>1, <1>2, <1>3, <1>4, <1>5, <1>8, <2>1, <2>2
         DEF LogInv, LogType, ConfInv, Working, Flushing, Exiting, Writing, Reading
  <1>10. CASE newconf.en /\ ~conf.en /\ ~fails
    <2>1. \A u \in Threads : loc'[u] \notin Working
      BY <1>3, <1>4 DEF Working, Reading, LogInv, LogType
    <2>2. /\ Gone' = Gone /\ OpenInv' /\ (logc.pc # "none" => \E P \in [Nat -> Nat] : RingInv(P))'
          /\ AsNow' /\ InOrder' /\ AsLogged'
          /\ \A u \in Threads : Lines(u) = {} /\ Lines(u)' = {} /\ Held(u) = {} /\ Held(u)' = {}
      BY <1>1, <1>5, <1>6, <1>10, <2>1, Renewed
    <2>3. QueueInv'
      <3>1. \A u \in Threads : loc'[u] \notin {"flushsig", "flushwait", "exitsig", "join"}
        BY <1>3, <1>4 DEF Writing, Flushing, Exiting, LogInv, LogType
      <3>2. logc'.pc # "none" => ~logc'.seen /\ ~logc'.stop /\ logc'.pc # "ended"
        BY <1>1, <1>10, CreatedType
      <3>3. Gone \in Nat
        BY GoneFacts DEF LogInv
      <3>4. logc'.pc # "none"
        BY <1>1, <1>10, CreatedType
      <3>5. sent' = sent /\ taken' = Len(sent) /\ Gone' = Len(sent)
        BY <1>1, <1>5, <1>10, <2>2
      <3> QED
        BY <3>1, <3>2, <3>3, <3>4, <3>5 DEF QueueInv
    <2>4. ASSUME NEW u \in Threads
          PROVE  ContextInv(u)'
      <3>1. /\ loc'[u] = "start" => loc[u] = "start"
            /\ loc'[u] = "ended" <=> loc[u] = "ended"
        BY <1>1, <1>3 DEF LogInv, LogType
      <3> QED
        BY <1>1, <2>2, <3>1, ContextSame DEF LogInv
    <2> QED
      BY <1>6, <1>7, <1>9, <2>2, <2>3, <2>4 DEF LogInv
  <1>11. CASE ~(newconf.en /\ ~conf.en /\ ~fails)
    <2>1. logc' = logc
      BY <1>1, <1>11
    <2>2. QueueInv'
      <3>1. \A u \in Threads : loc'[u] = loc[u] \/ (u = t /\ loc'[u] = l)
        BY <1>3 DEF LogInv, LogType
      <3>2. Gone' = Gone
        BY <1>1, <2>1 DEF Gone
      <3>3. l = "swap" => taken = Len(sent)
        BY <1>3, <1>5
      <3>4. /\ LogType /\ QueueInv
            /\ logc.pc # "none" => /\ logc.pc = "ended" => logc.stop
                                   /\ logc.seen => logc.pc = "drain"
        BY DEF LogInv, QueueInv
      <3> QED
        BY <1>1, <1>3, <2>1, <3>1, <3>2, <3>3, <3>4, QueueSame
    <2> QED
      BY <1>1, <1>3, <1>6, <1>7, <1>9, <2>1, <2>2, MoveStep DEF Locs, Working, Writing, Exiting
  <1> QED
    BY <1>10, <1>11

LEMMA dzlog_initStep ==
    ASSUME LogInv, NEW t \in Threads, NEW en \in BOOLEAN,
           NEW fails \in {"none", "conf", "consumer", "category"}, dzlog_init(t, en, fails)
    PROVE  LogInv'
  <1>1. loc[t] = "boot" /\ t = Main
    BY DEF dzlog_init, LogInv, EnvLockInv
  <1>2. /\ newconf = NoConf /\ sent = <<>> /\ version = 0
        /\ \A u \in Threads : th[u].mem = "none" /\ loc[u] \in {"boot", "start"}
    BY <1>1 DEF LogInv, EnvLockInv
  <1>3. UNCHANGED <<count, newconf, th, histVars, lines, reloads>>
    BY DEF dzlog_init
  <1>4. PICK l \in {"start", "ended"} : loc' = [loc EXCEPT ![t] = l] /\ (l = "start" <=> fails = "none")
    BY DEF dzlog_init, Goto
  <1>5. /\ version' \in {1, 2} /\ is_init' \in BOOLEAN /\ broken' \in BOOLEAN
        /\ conf' \in ConfType /\ rules' \in {conf', NoConf}
        /\ logc' \in {NoConsumer, log_consumer_create} /\ (conf'.en <=> logc' = log_consumer_create)
    <2>1. log_consumer_create # NoConsumer
      BY CreatedType DEF NoConsumer
    <2>2. PICK new \in ConfType : new = [id |-> 1, en |-> en]
      BY DEF ConfType
    <2>3. /\ conf' = (IF fails \in {"conf", "consumer"} THEN NoConf ELSE new)
          /\ logc' = (IF new.en /\ fails \notin {"conf", "consumer"} THEN log_consumer_create ELSE NoConsumer)
          /\ broken' = (new.en /\ fails = "consumer")
          /\ rules' = (IF fails = "none" THEN conf' ELSE NoConf)
      BY <2>2 DEF dzlog_init, zlog_init_inner
    <2>4. version' \in {1, 2} /\ is_init' \in BOOLEAN
      BY DEF dzlog_init
    <2>5. broken' \in BOOLEAN
      BY <2>3
    <2>6. conf' \in ConfType /\ rules' \in {conf', NoConf}
      BY <2>3 DEF NoConf, ConfType
    <2>7. conf'.en <=> logc' = log_consumer_create
      BY <2>1, <2>2, <2>3 DEF NoConf
    <2> QED
      BY <2>3, <2>4, <2>5, <2>6, <2>7
  <1> USE DEF histVars
  <1>6. taken = Len(sent) /\ Gone = Len(sent)
    BY <1>2, GoneFacts DEF LogInv, QueueInv
  <1>7. LogType'
    <2>1. NoConf \in ConfType
      BY DEF NoConf, ConfType
    <2>2. loc' \in [Threads -> Locs]
      BY <1>4 DEF LogInv, LogType, Locs
    <2> QED
      BY <1>3, <1>5, <2>1, <2>2, CreatedType DEF LogInv, LogType
  <1>8. \A u \in Threads : loc'[u] \in {"start", "ended"}
    BY <1>1, <1>2, <1>4 DEF LogInv, LogType, EnvLockInv
  <1>9. EnvLockInv'
    BY <1>8, SizeFacts DEF EnvLockInv, Writing, Flushing, Exiting
  <1>10. logc'.pc # "none" <=> conf'.en
    BY <1>5, CreatedType DEF NoConsumer
  <1>11. ConfInv'
    BY <1>2, <1>3, <1>5, <1>8, <1>10 DEF ConfInv, Working, Flushing, Exiting, Writing
  <1>12. /\ Gone' = Gone /\ OpenInv' /\ (logc.pc # "none" => \E P \in [Nat -> Nat] : RingInv(P))'
         /\ AsNow' /\ InOrder' /\ AsLogged'
         /\ \A u \in Threads : Lines(u) = {} /\ Lines(u)' = {} /\ Held(u) = {} /\ Held(u)' = {}
    <2>1. \A u \in Threads : loc'[u] \notin Working
      BY <1>8 DEF Working
    <2> QED
      BY <1>3, <1>5, <1>6, <1>7, <2>1, Renewed
  <1>13. QueueInv'
    <2>2. logc'.pc # "none" => ~logc'.seen /\ ~logc'.stop /\ logc'.pc # "ended"
      BY <1>5, CreatedType DEF NoConsumer
    <2>3. Gone \in Nat
      BY GoneFacts DEF LogInv
    <2> QED
      BY <1>3, <1>6, <1>8, <1>12, <2>2, <2>3 DEF QueueInv
  <1>14. ASSUME NEW u \in Threads
         PROVE  ContextInv(u)'
    <2>1. th'[u].mem = "none" /\ ~th'[u].mdc /\ th'[u].version <= version /\ th'[u].version \in Nat
      BY <1>2, <1>3 DEF LogInv, ContextInv, LogType, ThType
    <2>2. th'[u].version <= version'
      BY <2>1, <1>2, <1>5
    <2> QED
      BY <2>1, <2>2, <1>12 DEF ContextInv
  <1> QED
    BY <1>7, <1>9, <1>11, <1>12, <1>13, <1>14 DEF LogInv

-----------------------------------------------------------------------------
(* The contexts. *)

LEMMA IntervalFinite ==
    ASSUME NEW a \in Int, NEW b \in Int, NEW S \in SUBSET (a..b)
    PROVE  IsFiniteSet(S) /\ Cardinality(S) \in Nat
  BY FS_Interval, FS_Subset, FS_CardinalityType

LEMMA LinesFinite ==
    ASSUME LogType, NEW t \in Threads
    PROVE  /\ IsFiniteSet(Lines(t)) /\ IsFiniteSet(Held(t)) /\ Cardinality(Held(t)) \in Nat
           /\ Lines(t) \subseteq 1..Len(sent) /\ Held(t) \subseteq Lines(t)
           /\ Cardinality(Held(t)) = 0 => Held(t) = {}
           /\ Lines(t) = {} => Cardinality(Held(t)) = 0
  <1>1. Lines(t) \subseteq 1..Len(sent) /\ Held(t) \subseteq Lines(t) /\ 1 \in Int /\ Len(sent) \in Int
    BY GoneFacts DEF Lines, Held
  <1>2. IsFiniteSet(Lines(t)) /\ IsFiniteSet(Held(t)) /\ Cardinality(Held(t)) \in Nat
    BY <1>1, IntervalFinite
  <1> QED
    BY <1>1, <1>2, FS_EmptySet

\* The context that zlog_fetch_thread leaves, or a failed fetch.
LEMMA FetchFacts ==
    ASSUME LogInv, NEW t \in Threads, loc[t] # "ended",
           NEW x, x \in {zlog_fetch_thread(th[t]), NotFetched(th[t])}
    PROVE  /\ x \in ThType /\ x.version <= version /\ x.mem # "freed" /\ (x.mem = "none" => ~x.mdc)
           /\ is_init /\ x.mem = "live" /\ x.version = version => x.en = conf.en
           /\ Lines(t) # {} => x = th[t]
           /\ x.mem = "live" => x.ref >= Cardinality(Held(t)) + 1
           /\ x.mdc = th[t].mdc
           /\ x = zlog_fetch_thread(th[t]) => x.mem = "live" /\ x.version = version
  <1>1. /\ th[t] \in ThType /\ version \in Nat /\ conf.en \in BOOLEAN /\ ContextInv(t) /\ th[t].mem # "freed"
    BY DEF LogInv, LogType, ConfType, ContextInv
  <1>2. /\ Cardinality(Held(t)) \in Nat
        /\ Lines(t) = {} => Cardinality(Held(t)) = 0
    BY LinesFinite DEF LogInv
  <1>3. th[t].mem = "live" => th[t].ref >= Cardinality(Held(t)) + 1
    BY <1>1 DEF ContextInv
  <1>4. CASE x = th[t]
    <2>1. ASSUME th[t] = zlog_fetch_thread(th[t])
          PROVE  th[t].mem = "live" /\ th[t].version = version
      <3>1. CASE th[t].mem = "none"
        <4>1. th[t] = Fresh
          BY <2>1, <3>1 DEF zlog_fetch_thread
        <4> QED
          BY <3>1, <4>1 DEF Fresh
      <3>2. CASE th[t].mem # "none" /\ th[t].version # version
        <4>1. th[t] = [Rebuilt(th[t]) EXCEPT !.version = version]
          BY <2>1, <3>2 DEF zlog_fetch_thread
        <4>2. th[t].version = version
          BY <4>1, <1>1 DEF Rebuilt, ThType
        <4> QED
          BY <3>2, <4>2
      <3> QED
        BY <1>1, <3>1, <3>2 DEF ThType
    <2> QED
      BY <1>1, <1>3, <1>4, <2>1 DEF ContextInv
  <1>5. CASE th[t].mem = "none" /\ x = Fresh
    <2>1. x \in ThType /\ x.mem = "live" /\ x.version = version /\ x.en = conf.en /\ x.ref = 1 /\ x.mdc = FALSE
      BY <1>1, <1>5 DEF Fresh, ThType
    <2>2. Lines(t) = {} /\ ~th[t].mdc
      BY <1>1, <1>5 DEF ContextInv
    <2>3. th[t].mdc = FALSE
      BY <1>1, <2>2 DEF ThType
    <2>4. x.version <= version /\ x.ref >= Cardinality(Held(t)) + 1
      BY <1>1, <1>2, <2>1, <2>2
    <2>5. x.mem # "freed" /\ x.mem # "none" /\ x.mdc = th[t].mdc
      BY <2>1, <2>3
    <2> QED
      BY <2>1, <2>2, <2>4, <2>5, Zenon
  <1>6. CASE th[t].mem = "live" /\ th[t].version # version
             /\ x \in {Rebuilt(th[t]), [Rebuilt(th[t]) EXCEPT !.version = version]}
    <2>1. Lines(t) = {}
      BY <1>1, <1>6 DEF ContextInv
    <2>2. PICK v \in {version, th[t].version} :
              x = [mem |-> "live", version |-> v, en |-> conf.en, ref |-> 1, mdc |-> th[t].mdc]
      BY <1>1, <1>6 DEF ThType, Rebuilt
    <2>3. v \in Nat /\ v <= version
      BY <1>1, <2>2 DEF ThType, ContextInv
    <2>4. x = zlog_fetch_thread(th[t]) => v = version
      BY <1>6, <2>2 DEF zlog_fetch_thread
    <2> QED
      BY <1>1, <1>2, <2>1, <2>2, <2>3, <2>4 DEF ThType
  <1> QED
    BY <1>1, <1>4, <1>5, <1>6 DEF zlog_fetch_thread, NotFetched, ThType

\* A step of one thread that changes its own context and leaves the queue alone.
LEMMA OwnStep ==
    ASSUME LogInv, NEW t \in Threads, NEW l \in Locs, loc' = [loc EXCEPT ![t] = l],
           th' \in [Threads -> ThType], \A u \in Threads : u # t => th'[u] = th[u],
           UNCHANGED <<is_init, conf, version, newconf, rules, broken, logc, sent, taken, handled, reloads>>,
           {loc[t], l} \cap Writing = {}, loc[t] \in Working <=> l \in Working, l # "signal",
           loc[t] # "boot", l # "boot", loc[t] = "start" => loc[Main] # "boot",
           l \in Reading => loc[t] \in Reading \/ CanRead,
           Lines(t)' = Lines(t) => ContextInv(t)',
           th'[t].mdc = th[t].mdc \/ Lines(t) = {}
    PROVE  LogInv'
  <1>1. LogType /\ EnvLockInv /\ ConfInv /\ QueueInv /\ OpenInv
    BY DEF LogInv
  <1>2. LogType'
    BY <1>1 DEF LogType
  <1>3. EnvLockInv'
    BY <1>1, LockStep
  <1>4. \A u \in Threads : u # t => loc'[u] = loc[u]
    BY <1>1 DEF LogType
  <1>5. loc'[t] = l
    BY <1>1 DEF LogType
  <1>6. ConfInv'
    <2>1. \A u \in Threads : /\ loc'[u] \in Writing <=> loc[u] \in Writing
                             /\ loc'[u] \in Writing => loc'[u] = loc[u]
                             /\ loc'[u] \in Working \cup {"signal"} =>
                                 loc[u] \in Working \cup {"signal"}
      BY <1>4, <1>5
    <2> QED
      BY <1>1, <2>1 DEF ConfInv, Writing, Flushing, Exiting, Working
  <1>7. Gone' = Gone
    BY DEF Gone
  <1>8. QueueInv'
    <2>1. /\ logc.pc # "none" => /\ logc.pc = "ended" => logc.stop
                                 /\ logc.seen => logc.pc = "drain"
      BY <1>1 DEF QueueInv
    <2>2. \A u \in Threads : loc'[u] = loc[u] \/ (loc[u] \notin Writing /\ loc'[u] \notin Writing)
      BY <1>4, <1>5
    <2>3. \A u \in Threads : /\ loc'[u] \in {"flushsig", "flushwait"} <=> loc[u] \in {"flushsig", "flushwait"}
                             /\ loc'[u] = "update" => loc[u] = "update"
                             /\ loc'[u] \in {"swap", "fini"} => loc[u] \in {"swap", "fini"}
                             /\ loc[u] \in {"exitsig", "join"} => loc'[u] \in {"exitsig", "join"}
      BY <2>2 DEF Writing, Flushing, Exiting
    <2> QED
      BY <1>1, <1>7, <2>1, <2>3, QueueSame
  <1>9. OpenInv' /\ \A i \in 1..Len(sent) : Open(i)' <=> Open(i)
    BY <1>1, <1>4, <1>5, <1>7, OpenSame
  <1>10. logc'.pc # "none" => \E P \in [Nat -> Nat] : RingInv(P)'
    BY <1>1, <1>9, RingSame DEF LogInv
  <1>11. \A u \in Threads : ContextInv(u)'
    <2>1. Lines(t)' = Lines(t)
      BY <1>7 DEF Lines
    <2>2. ASSUME NEW u \in Threads, u # t
          PROVE  ContextInv(u)'
      <3>1. Lines(u)' = Lines(u) /\ Held(u)' = Held(u)
        BY <1>1, <1>4, <1>7, <1>9, <2>2, LinesSame
      <3> QED
        BY <1>1, <1>4, <2>2, <3>1, ContextSame DEF LogInv
    <2> QED
      BY <2>1, <2>2
  <1>12. AsNow'
    BY <1>1, <1>7, AsNowSame DEF LogInv
  <1>13. InOrder' /\ AsLogged'
    BY <1>7, HandledSame DEF LogInv
  <1> QED
    BY <1>2, <1>3, <1>6, <1>8, <1>9, <1>10, <1>11, <1>12, <1>13 DEF LogInv

\* The context of t after a step that does not make it hold a line.
LEMMA HeldSame ==
    ASSUME LogInv, NEW t \in Threads, NEW l, loc' = [loc EXCEPT ![t] = l], sent' = sent, taken' = taken, logc' = logc,
           loc[t] \notin Working, l \notin Working
    PROVE  Held(t)' = Lines(t) /\ Held(t) = Lines(t) /\ Lines(t)' = Lines(t)
  <1>1. Gone' = Gone
    BY DEF Gone
  <1>2. Lines(t)' = Lines(t)
    BY <1>1 DEF Lines
  <1>3. loc'[t] # "reserved" /\ loc[t] # "reserved"
    BY DEF Working, LogInv, LogType
  <1> QED
    BY <1>2, <1>3 DEF Held

LEMMA zlog_put_mdcStep ==
    ASSUME LogInv, NEW t \in Threads, NEW fails \in BOOLEAN, zlog_put_mdc(t, fails)
    PROVE  LogInv'
  <1>1. /\ loc[t] = "start" /\ loc' = [loc EXCEPT ![t] = "idle"]
        /\ t # Main => loc[Main] # "boot"
        /\ UNCHANGED <<envVars, logc, broken, histVars, lines, reloads>>
    BY DEF zlog_put_mdc, Goto
  <1>2. loc[Main] # "boot"
    BY <1>1
  <1>3. Lines(t) = {} /\ ContextInv(t) /\ th[t] \in ThType /\ th \in [Threads -> ThType]
    BY <1>1 DEF LogInv, ContextInv, LogType
  <1>4. /\ Cardinality(Held(t)) = 0
        /\ loc'[t] = "idle"
    BY <1>1, <1>3, LinesFinite DEF LogInv, LogType
  <1>5. PICK x \in ThType :
            /\ th' = [th EXCEPT ![t] = x]
            /\ x.version <= version /\ x.mem # "freed" /\ (x.mem = "none" => ~x.mdc)
            /\ is_init /\ x.mem = "live" /\ x.version = version => x.en = conf.en
            /\ x.mem = "live" => x.ref >= 1
    <2>1. CASE ~is_init
      <3>1. th' = [th EXCEPT ![t] = th[t]]
        BY <2>1, <1>3 DEF zlog_put_mdc
      <3>2. th[t].mem = "live" => th[t].ref >= 1
        BY <1>1, <1>3, <1>4 DEF ContextInv
      <3>3. th[t].version <= version /\ th[t].mem # "freed" /\ (th[t].mem = "none" => ~th[t].mdc)
        BY <1>1, <1>3 DEF ContextInv
      <3> QED
        BY <2>1, <3>1, <3>2, <3>3, <1>3
    <2>2. CASE is_init /\ fails
      <3>1. PICK y : y = NotFetched(th[t])
        OBVIOUS
      <3>2. th' = [th EXCEPT ![t] = y]
        BY <2>2, <3>1, <1>3 DEF zlog_put_mdc
      <3>3. /\ y \in ThType /\ y.version <= version /\ y.mem # "freed" /\ (y.mem = "none" => ~y.mdc)
            /\ is_init /\ y.mem = "live" /\ y.version = version => y.en = conf.en
            /\ y.mem = "live" => y.ref >= Cardinality(Held(t)) + 1
        BY <1>1, <3>1, FetchFacts
      <3>4. y.mem = "live" => y.ref >= 1
        BY <1>4, <3>3
      <3> QED
        BY <3>2, <3>3, <3>4
    <2>3. CASE is_init /\ ~fails
      <3>1. PICK y : y = zlog_fetch_thread(th[t])
        OBVIOUS
      <3>2. th' = [th EXCEPT ![t] = [y EXCEPT !.mdc = TRUE]]
        BY <2>3, <3>1, <1>3 DEF zlog_put_mdc
      <3>3. /\ y \in ThType /\ y.version <= version /\ y.mem = "live"
            /\ y.version = version => y.en = conf.en
            /\ y.ref >= 1
        BY <1>1, <1>4, <2>3, <3>1, FetchFacts
      <3>4. PICK x : x = [y EXCEPT !.mdc = TRUE]
        OBVIOUS
      <3>5. x \in ThType /\ x.version = y.version /\ x.mem = y.mem /\ x.en = y.en /\ x.ref = y.ref
        BY <3>3, <3>4 DEF ThType
      <3> QED
        BY <3>2, <3>3, <3>4, <3>5
    <2> QED
      BY <2>1, <2>2, <2>3
  <1>6. th' \in [Threads -> ThType] /\ th'[t] = x /\ \A u \in Threads : u # t => th'[u] = th[u]
    BY <1>3, <1>5
  <1> USE DEF envVars, histVars
  <1>7. Held(t)' = {} /\ Lines(t)' = {}
    BY <1>1, <1>3, HeldSame DEF Working
  <1>8. ContextInv(t)'
    <2>1. Cardinality(Held(t)') = 0
      BY <1>7, FS_EmptySet
    <2> QED
      BY <1>1, <1>4, <1>5, <1>6, <1>7, <2>1 DEF ContextInv
  <1> QED
    BY <1>1, <1>2, <1>3, <1>6, <1>8, OwnStep DEF Locs, Writing, Reading, Flushing, Exiting, Working

LEMMA thread_exitStep ==
    ASSUME LogInv, NEW t \in Threads, thread_exit(t)
    PROVE  LogInv'
  <1>1. /\ loc[t] = "idle" /\ loc' = [loc EXCEPT ![t] = "ended"]
        /\ UNCHANGED <<envVars, logc, broken, histVars, boundVars>>
    BY DEF thread_exit, Goto
  <1>2. ContextInv(t) /\ th[t] \in ThType /\ th \in [Threads -> ThType] /\ loc'[t] = "ended"
    BY <1>1 DEF LogInv, ContextInv, LogType
  <1>3. PICK x : x = IF th[t].mem = "none" THEN th[t] ELSE Deleted(th[t])
    OBVIOUS
  <1>4. th' = [th EXCEPT ![t] = x]
    BY <1>2, <1>3 DEF thread_exit
  <1> USE DEF envVars, histVars, boundVars
  <1>5. Held(t)' = Lines(t) /\ Held(t) = Lines(t) /\ Lines(t)' = Lines(t)
    BY <1>1, HeldSame DEF Working
  <1>6. PICK n \in Nat : n = Cardinality(Lines(t)) /\ (n = 0 => Lines(t) = {})
    BY <1>5, LinesFinite DEF LogInv
  <1>7. /\ th[t].mem # "freed" /\ (th[t].mem = "none" => Lines(t) = {})
        /\ th[t].mem = "live" => th[t].ref >= n + 1
        /\ Lines(t) # {} => th[t].en
    BY <1>1, <1>2, <1>5, <1>6 DEF ContextInv
  <1>8. /\ x \in ThType /\ x.version = th[t].version /\ x.mdc = th[t].mdc /\ x.en = th[t].en
        /\ x.mem = "none" => th[t].mem = "none"
        /\ x.mem = "live" => th[t].mem = "live" /\ x.ref >= n
        /\ Lines(t) # {} => x.mem = "live"
    <2>1. CASE th[t].mem = "none"
      BY <1>2, <1>3, <1>7, <2>1
    <2>2. CASE th[t].mem = "live" /\ th[t].en /\ th[t].ref > 1
      <3>1. x = [th[t] EXCEPT !.ref = @ - 1]
        BY <1>3, <2>2 DEF Deleted
      <3>2. th[t].ref \in Nat
        BY <1>2 DEF ThType
      <3>3. PICK r \in Nat : r = th[t].ref - 1 /\ r >= n
        BY <1>7, <2>2, <3>2
      <3>4. x = [th[t] EXCEPT !.ref = r]
        BY <3>1, <3>3
      <3>5. /\ x \in ThType /\ x.version = th[t].version /\ x.mdc = th[t].mdc /\ x.en = th[t].en
            /\ x.mem = th[t].mem /\ x.ref = r
        BY <1>2, <3>4 DEF ThType
      <3> QED
        BY <2>2, <3>3, <3>5
    <2>3. CASE th[t].mem = "live" /\ ~(th[t].en /\ th[t].ref > 1)
      <3>1. x = [th[t] EXCEPT !.mem = "freed", !.ref = 0]
        BY <1>3, <2>3 DEF Deleted
      <3>2. th[t].ref \in Nat
        BY <1>2 DEF ThType
      <3>3. Lines(t) = {}
        BY <1>6, <1>7, <2>3, <3>2
      <3>4. /\ x \in ThType /\ x.version = th[t].version /\ x.mdc = th[t].mdc /\ x.en = th[t].en
            /\ x.mem = "freed"
        BY <1>2, <3>1 DEF ThType
      <3> QED
        BY <3>3, <3>4
    <2> QED
      BY <1>2, <1>7, <2>1, <2>2, <2>3 DEF ThType
  <1>9. th' \in [Threads -> ThType] /\ th'[t] = x /\ \A u \in Threads : u # t => th'[u] = th[u]
    BY <1>2, <1>4, <1>8
  <1>10. ContextInv(t)'
    BY <1>1, <1>2, <1>5, <1>6, <1>8, <1>9 DEF ContextInv
  <1> QED
    BY <1>1, <1>8, <1>9, <1>10, OwnStep DEF Locs, Writing, Reading, Flushing, Exiting, Working

\* The message a thread is writing is its last one.
LEMMA OwnFacts ==
    ASSUME LogInv, NEW t \in Threads, loc[t] \in Working
    PROVE  /\ Own(t) \in Gone + 1..Len(sent) /\ Own(t) \in 1..Len(sent)
           /\ sent[Own(t)].thread = t /\ Open(Own(t)) /\ ~sent[Own(t)].discarded
           /\ \A i \in 1..Len(sent) : sent[i].thread = t /\ Open(i) => i = Own(t)
           /\ \A j \in Own(t) + 1..Len(sent) : sent[j].thread # t
  <1>1. PICK i \in Gone + 1..Len(sent) : sent[i].thread = t /\ Open(i)
    BY DEF LogInv, OpenInv
  <1>2. i \in 1..Len(sent)
    BY <1>1, GoneFacts DEF LogInv
  <1>3. \A k \in 1..Len(sent) :
            sent[k].thread = t /\ (\A j \in k + 1..Len(sent) : sent[j].thread # t) => k = i
    BY <1>1, <1>2 DEF Open
  <1>4. Own(t) = i
    BY <1>1, <1>2, <1>3 DEF Own, Open
  <1> QED
    BY <1>1, <1>2, <1>3, <1>4 DEF Open, LogInv, OpenInv

LEMMA HoldStep ==
    ASSUME LogInv, NEW t \in Threads, NEW fails \in BOOLEAN, Hold(t, fails)
    PROVE  LogInv'
  <1>1. /\ loc[t] = "reserved" /\ th' = [th EXCEPT ![t].ref = @ + 1]
        /\ UNCHANGED <<envVars, logc, broken, histVars, lines, reloads>>
    BY DEF Hold
  <1>2. PICK l \in {"held", "dropped"} : loc' = [loc EXCEPT ![t] = l]
    BY DEF Hold, Goto
  <1>3. ContextInv(t) /\ th[t] \in ThType /\ th \in [Threads -> ThType] /\ loc'[t] = l
    BY <1>2 DEF LogInv, LogType
  <1>4. loc[t] \in Working
    BY <1>1 DEF Working
  <1>5. PICK o \in Gone + 1..Len(sent) :
            /\ o = Own(t) /\ o \in 1..Len(sent) /\ sent[o].thread = t /\ Open(o)
            /\ \A i \in 1..Len(sent) : sent[i].thread = t /\ Open(i) => i = o
    BY <1>4, OwnFacts
  <1>6. o \in Lines(t) /\ Held(t) = Lines(t) \ {o}
    BY <1>1, <1>5, LinesFinite DEF Held, Lines, Open, LogInv
  <1> USE DEF envVars, histVars
  <1>7. Lines(t)' = Lines(t) /\ Held(t)' = Lines(t)
    <2>1. Gone' = Gone
      BY <1>1 DEF Gone
    <2>2. Lines(t)' = Lines(t)
      BY <1>1, <2>1 DEF Lines
    <2> QED
      BY <1>2, <1>3, <2>2 DEF Held
  <1>8. Cardinality(Lines(t)) = Cardinality(Held(t)) + 1 /\ Cardinality(Held(t)) \in Nat
    <2>1. Lines(t) = Held(t) \cup {o} /\ o \notin Held(t) /\ IsFiniteSet(Held(t))
      BY <1>6, LinesFinite DEF LogInv
    <2> QED
      BY <2>1, FS_AddElement, FS_CardinalityType
  <1>9. th[t].mem = "live" /\ th[t].version = version /\ th[t].en /\ th[t].ref >= Cardinality(Held(t)) + 1
    BY <1>1, <1>3, <1>6 DEF ContextInv
  <1>10. PICK r \in Nat : r = th[t].ref + 1
    BY <1>3 DEF ThType
  <1>11. th' = [th EXCEPT ![t] = [th[t] EXCEPT !.ref = r]]
    BY <1>1, <1>3, <1>10
  <1>12. PICK x : x = [th[t] EXCEPT !.ref = r]
    OBVIOUS
  <1>13. x \in ThType /\ x.version = th[t].version /\ x.mdc = th[t].mdc /\ x.en = th[t].en /\ x.mem = th[t].mem /\ x.ref = r
    BY <1>3, <1>12 DEF ThType
  <1>14. th' \in [Threads -> ThType] /\ th'[t] = x /\ \A u \in Threads : u # t => th'[u] = th[u]
    BY <1>3, <1>11, <1>12, <1>13
  <1>15. r >= Cardinality(Lines(t)) + 1
    BY <1>8, <1>9, <1>10, <1>3 DEF ThType
  <1>16. ContextInv(t)'
    BY <1>1, <1>2, <1>3, <1>7, <1>9, <1>13, <1>14, <1>15 DEF ContextInv
  <1> QED
    BY <1>1, <1>2, <1>13, <1>14, <1>16, OwnStep DEF Locs, Writing, Reading, Flushing, Exiting, Working

\* The context of a thread that has called the log.
LEMMA LogContext ==
    ASSUME LogInv, NEW t \in Threads, NEW words, NEW fails \in BOOLEAN, zlog(t, words, fails)
    PROVE  \E x \in ThType :
               /\ th' = [th EXCEPT ![t] = x]
               /\ x.version <= version /\ x.mem # "freed" /\ (x.mem = "none" => ~x.mdc)
               /\ is_init /\ x.mem = "live" /\ x.version = version => x.en = conf.en
               /\ Lines(t) # {} => x = th[t]
               /\ x.mem = "live" => x.ref >= Cardinality(Held(t)) + 1
               /\ x.mdc = th[t].mdc
               /\ ~fails => x.mem = "live" /\ x.version = version
  <1>1. loc[t] # "ended"
    BY DEF zlog
  <1>2. PICK x : x = IF fails THEN NotFetched(th[t]) ELSE zlog_fetch_thread(th[t])
    OBVIOUS
  <1>3. th' = [th EXCEPT ![t] = x]
    BY <1>2 DEF zlog, LogInv, LogType
  <1>4. x \in {zlog_fetch_thread(th[t]), NotFetched(th[t])} /\ (~fails => x = zlog_fetch_thread(th[t]))
    BY <1>2
  <1>5. /\ x \in ThType /\ x.version <= version /\ x.mem # "freed" /\ (x.mem = "none" => ~x.mdc)
        /\ is_init /\ x.mem = "live" /\ x.version = version => x.en = conf.en
        /\ Lines(t) # {} => x = th[t]
        /\ x.mem = "live" => x.ref >= Cardinality(Held(t)) + 1
        /\ x.mdc = th[t].mdc
        /\ x = zlog_fetch_thread(th[t]) => x.mem = "live" /\ x.version = version
    BY <1>1, <1>4, FetchFacts
  <1> QED
    BY <1>3, <1>4, <1>5

\* A line that is not queued.
LEMMA zlogOther ==
    ASSUME LogInv, NEW t \in Threads, NEW words, NEW fails \in BOOLEAN, zlog(t, words, fails),
           UNCHANGED <<logc, sent>>, NEW l \in {"idle", "leave"}, loc' = [loc EXCEPT ![t] = l]
    PROVE  LogInv'
  <1>1. loc[t] = "idle" /\ CanRead /\ UNCHANGED <<envVars, broken, taken, handled, reloads>>
    BY DEF zlog
  <1>2. PICK x \in ThType :
               /\ th' = [th EXCEPT ![t] = x]
               /\ x.version <= version /\ x.mem # "freed" /\ (x.mem = "none" => ~x.mdc)
               /\ is_init /\ x.mem = "live" /\ x.version = version => x.en = conf.en
               /\ Lines(t) # {} => x = th[t]
               /\ x.mem = "live" => x.ref >= Cardinality(Held(t)) + 1
               /\ x.mdc = th[t].mdc
               /\ ~fails => x.mem = "live" /\ x.version = version
    BY LogContext
  <1>3. ContextInv(t) /\ th \in [Threads -> ThType] /\ loc'[t] = l
    BY DEF LogInv, LogType
  <1>4. th' \in [Threads -> ThType] /\ th'[t] = x /\ \A u \in Threads : u # t => th'[u] = th[u]
    BY <1>2, <1>3
  <1> USE DEF envVars
  <1>5. Held(t)' = Held(t) /\ Lines(t)' = Lines(t)
    BY <1>1, HeldSame DEF Working
  <1>6. ContextInv(t)'
    BY <1>1, <1>2, <1>3, <1>4, <1>5 DEF ContextInv
  <1> QED
    BY <1>1, <1>2, <1>3, <1>4, <1>6, OwnStep DEF Locs, Writing, Reading, Flushing, Exiting, Working

-----------------------------------------------------------------------------
(* The ring. *)

\* An index that wraps at Word leads to the cell of the position it stands for.
LEMMA CellOf ==
    ASSUME NEW x \in Nat, NEW k \in Nat
    PROVE  /\ (x % Word) \in Nat /\ (x % Word) % FifoSize = x % FifoSize
           /\ ((x % Word) + k) % FifoSize = (x + k) % FifoSize
           /\ x % FifoSize \in 0..FifoSize - 1
  <1>1. x \in Int /\ k \in Int
    OBVIOUS
  <1>2. PICK w \in Nat : w = x % Word
    BY <1>1, SizeFacts, DivMod
  <1>3. w % FifoSize = x % FifoSize /\ w \in Int
    <2>1. PICK s \in Nat \ {0}, m \in Nat \ {0} : s = FifoSize /\ m = Word /\ m % s = 0
      BY SizeFacts
    <2>2. (x % m) % s = x % s
      BY <1>1, <2>1, ModMod, ZenonT(40)
    <2> QED
      BY <1>2, <2>1, <2>2
  <1>4. ((w % FifoSize) + k) % FifoSize = (w + k) % FifoSize
    BY <1>1, <1>3, SizeFacts, AddMod
  <1>5. ((x % FifoSize) + k) % FifoSize = (x + k) % FifoSize
    BY <1>1, SizeFacts, AddMod
  <1>6. (w + k) % FifoSize = (x + k) % FifoSize
    BY <1>3, <1>4, <1>5
  <1>7. x % FifoSize \in 0..FifoSize - 1
    BY <1>1, SizeFacts, DivMod
  <1> QED
    BY <1>2, <1>3, <1>6, <1>7

LEMMA CommitFacts ==
    ASSUME NEW f \in FifoType, NEW at \in Nat
    PROVE  /\ fifo_commit(f, at) \in FifoType
           /\ fifo_commit(f, at).in = f.in /\ fifo_commit(f, at).out = f.out
           /\ fifo_commit(f, at).data[at % FifoSize] = [f.data[at % FifoSize] EXCEPT !.flags = "COMMITED"]
           /\ \A c \in 0..FifoSize - 1 :
               (\A k \in 0..f.data[at % FifoSize].size - 1 : (at + k) % FifoSize # c) /\ c # at % FifoSize =>
                   fifo_commit(f, at).data[c] = f.data[c]
  <1>1. f.size = FifoSize /\ f.data \in [0..FifoSize - 1 -> HeadType] /\ DOMAIN f.data = 0..FifoSize - 1
    BY DEF FifoType
  <1>2. at % FifoSize \in 0..FifoSize - 1
    BY SizeFacts, DivMod
  <1>3. PICK h \in HeadType : h = f.data[at % FifoSize]
    BY <1>1, <1>2
  <1>4. [h EXCEPT !.flags = "COMMITED"] \in HeadType /\ Payload(h.id) \in HeadType
    BY <1>3 DEF HeadType, Payload
  <1>5. PICK d : d = [c \in 0..FifoSize - 1 |->
                        IF c = at % FifoSize THEN [h EXCEPT !.flags = "COMMITED"]
                        ELSE IF c \in Cells(f, at, h.size) THEN Payload(h.id) ELSE f.data[c]]
    OBVIOUS
  <1>6. fifo_commit(f, at) = [f EXCEPT !.data = d]
    BY <1>1, <1>3, <1>5 DEF fifo_commit
  <1>7. d \in [0..FifoSize - 1 -> HeadType]
    BY <1>1, <1>4, <1>5
  <1>8. /\ fifo_commit(f, at) \in FifoType /\ fifo_commit(f, at).data = d
        /\ fifo_commit(f, at).in = f.in /\ fifo_commit(f, at).out = f.out
    BY <1>6, <1>7 DEF FifoType
  <1>9. ASSUME NEW c \in 0..FifoSize - 1, c # at % FifoSize,
               \A k \in 0..h.size - 1 : (at + k) % FifoSize # c
        PROVE  d[c] = f.data[c]
    BY <1>1, <1>5, <1>9 DEF Cells
  <1> QED
    BY <1>2, <1>3, <1>5, <1>8, <1>9

LEMMA DiscardFacts ==
    ASSUME NEW f \in FifoType, NEW at \in Nat
    PROVE  /\ fifo_discard(f, at) \in FifoType
           /\ fifo_discard(f, at).in = f.in /\ fifo_discard(f, at).out = f.out
           /\ fifo_discard(f, at).data[at % FifoSize] = [f.data[at % FifoSize] EXCEPT !.flags = "DISCARDED"]
           /\ \A c \in 0..FifoSize - 1 : c # at % FifoSize => fifo_discard(f, at).data[c] = f.data[c]
  <1>1. f.size = FifoSize /\ f.data \in [0..FifoSize - 1 -> HeadType] /\ DOMAIN f.data = 0..FifoSize - 1
    BY DEF FifoType
  <1>2. at % FifoSize \in 0..FifoSize - 1
    BY SizeFacts, DivMod
  <1>3. PICK h \in HeadType : h = f.data[at % FifoSize]
    BY <1>1, <1>2
  <1>4. [h EXCEPT !.flags = "DISCARDED"] \in HeadType
    BY <1>3 DEF HeadType
  <1>5. fifo_discard(f, at) = [f EXCEPT !.data = [f.data EXCEPT ![at % FifoSize] = [h EXCEPT !.flags = "DISCARDED"]]]
    BY <1>1, <1>2, <1>3 DEF fifo_discard
  <1>6. PICK d : d = [f.data EXCEPT ![at % FifoSize] = [h EXCEPT !.flags = "DISCARDED"]]
    OBVIOUS
  <1>7. /\ d \in [0..FifoSize - 1 -> HeadType] /\ d[at % FifoSize] = [h EXCEPT !.flags = "DISCARDED"]
        /\ \A c \in 0..FifoSize - 1 : c # at % FifoSize => d[c] = f.data[c]
    BY <1>1, <1>2, <1>4, <1>6
  <1>8. /\ fifo_discard(f, at) = [f EXCEPT !.data = d] 
        /\ [f EXCEPT !.data = d] \in FifoType /\ [f EXCEPT !.data = d].data = d
        /\ [f EXCEPT !.data = d].in = f.in /\ [f EXCEPT !.data = d].out = f.out
    BY <1>5, <1>6, <1>7 DEF FifoType
  <1> QED
    BY <1>3, <1>7, <1>8

\* Of two messages between the positions lo and hi, one of n words at a and
\* one of m words at p, neither is where the other has its head.
LEMMA CellsApart ==
    ASSUME NEW lo \in Nat, NEW hi \in Nat, NEW a \in Nat, NEW n \in Nat \ {0}, NEW p \in Nat, NEW m \in Nat \ {0},
           hi - lo <= FifoSize, lo <= a, a + n <= hi, lo <= p, p + m <= hi, a + n <= p \/ p + m <= a,
           NEW k \in 0..m - 1
    PROVE  (p + k) % FifoSize # a % FifoSize
  <1>1. PICK b \in Nat : b = p + k
    OBVIOUS
  <1>2. CASE a + n <= p
    <2>1. a < b /\ b < a + FifoSize
      BY <1>1, <1>2, SizeFacts
    <2> QED
      BY <1>1, <2>1, SizeFacts, Apart
  <1>3. CASE p + m <= a
    <2>1. b < a /\ a < b + FifoSize
      BY <1>1, <1>3, SizeFacts
    <2> QED
      BY <1>1, <2>1, SizeFacts, Apart
  <1> QED
    BY <1>2, <1>3

\* The queue with the message of t settled: the heads of the others stay.
LEMMA SettledRing ==
    ASSUME LogInv, NEW t \in Threads, log_consumer_queue_commit_signal(t), NEW P
    PROVE  P \in [Nat -> Nat] /\ RingInv(P) =>
           /\ logc'.queue \in FifoType
           /\ logc'.queue.in = logc.queue.in /\ logc'.queue.out = logc.queue.out
           /\ logc' = [logc EXCEPT !.queue = logc'.queue]
           /\ logc'.queue.data[P[Own(t)] % FifoSize] =
                [id |-> Own(t), size |-> sent[Own(t)].words,
                 flags |-> IF loc[t] = "dropped" THEN "DISCARDED" ELSE "COMMITED"]
           /\ \A i \in InQueue : i # Own(t) =>
                logc'.queue.data[P[i] % FifoSize] = logc.queue.data[P[i] % FifoSize]
  <1>0. SUFFICES ASSUME P \in [Nat -> Nat], RingInv(P)
                 PROVE  /\ logc'.queue \in FifoType
                        /\ logc'.queue.in = logc.queue.in /\ logc'.queue.out = logc.queue.out
                        /\ logc' = [logc EXCEPT !.queue = logc'.queue]
                        /\ logc'.queue.data[P[Own(t)] % FifoSize] =
                            [id |-> Own(t), size |-> sent[Own(t)].words,
                             flags |-> IF loc[t] = "dropped" THEN "DISCARDED" ELSE "COMMITED"]
                        /\ \A i \in InQueue : i # Own(t) =>
                            logc'.queue.data[P[i] % FifoSize] = logc.queue.data[P[i] % FifoSize]
    OBVIOUS
  <1>r. /\ P[Len(sent) + 1] - P[taken + 1] \in 0..FifoSize
        /\ \A i \in InQueue :
            /\ P[taken + 1] <= P[i] /\ P[i] + sent[i].words <= P[Len(sent) + 1]
            /\ \A j \in i + 1..Len(sent) : P[i] + sent[i].words <= P[j]
    BY <1>0, Zenon DEF RingInv
  <1>1. loc[t] \in Working /\ LogType
    BY DEF log_consumer_queue_commit_signal, Working, LogInv
  <1>2. logc \in ConsumerType /\ logc.queue \in FifoType
    BY <1>1, Inside_Finds DEF ConsumerType
  <1>3. PICK o \in Gone + 1..Len(sent) : o = Own(t) /\ o \in 1..Len(sent) /\ Open(o)
    BY <1>1, OwnFacts
  <1>4. o \in InQueue /\ o \in Nat
    BY <1>1, <1>3, GoneFacts DEF InQueue
  <1>5. PICK at \in Nat : at = sent[o].at /\ at = P[o] % Word
    <2>1. sent[o].at \in Nat
      BY <1>1, <1>3, MsgFacts DEF LogType
    <2>2. sent[o].at = P[o] % Word
      BY <1>0, <1>4 DEF RingInv
    <2> QED
      BY <2>1, <2>2
  <1>6. PICK m \in Nat \ {0} : m = sent[o].words
    BY <1>1, <1>3, MsgFacts DEF LogType
  <1>7. PICK p \in Nat : p = P[o]
    BY <1>0, <1>4
  <1>8. at % FifoSize = p % FifoSize /\ \A k \in Nat : (at + k) % FifoSize = (p + k) % FifoSize
    <2>1. at = p % Word
      BY <1>5, <1>7
    <2>2. (p % Word) % FifoSize = p % FifoSize /\ \A k \in Nat : ((p % Word) + k) % FifoSize = (p + k) % FifoSize
      BY CellOf
    <2> QED
      BY <2>1, <2>2
  <1>9. logc.queue.data[p % FifoSize] = [id |-> o, size |-> m, flags |-> "RESERVED"]
    BY <1>0, <1>3, <1>4, <1>6, <1>7 DEF RingInv
  <1>10. logc' = [logc EXCEPT !.queue = IF loc[t] = "dropped" THEN fifo_discard(logc.queue, at)
                                        ELSE fifo_commit(logc.queue, at)]
    BY <1>2, <1>3, <1>5 DEF log_consumer_queue_commit_signal, ConsumerType
  <1>11. ASSUME NEW i \in InQueue, i # o
         PROVE  /\ P[i] % FifoSize \in 0..FifoSize - 1
                /\ \A k \in 0..m - 1 : (at + k) % FifoSize # P[i] % FifoSize
    <2>1. i \in 1..Len(sent) /\ taken + 1 \in Nat /\ Len(sent) + 1 \in Nat /\ i \in Nat
      BY <1>1, GoneFacts DEF InQueue
    <2>2. PICK a \in Nat, n \in Nat \ {0}, lo \in Nat, hi \in Nat :
              a = P[i] /\ n = sent[i].words /\ lo = P[taken + 1] /\ hi = P[Len(sent) + 1]
      <3>1. sent[i].words \in Nat \ {0}
        BY <1>1, <2>1, MsgFacts DEF LogType
      <3>2. P[i] \in Nat /\ P[taken + 1] \in Nat /\ P[Len(sent) + 1] \in Nat
        BY <1>0, <2>1
      <3> QED
        BY <3>1, <3>2
    <2>3. hi - lo <= FifoSize /\ lo <= a /\ a + n <= hi /\ lo <= p /\ p + m <= hi
      BY <1>r, <1>4, <1>6, <1>7, <2>2, SizeFacts
    <2>4. i < o => a + n <= p
      BY <1>r, <1>3, <1>7, <2>1, <2>2, <1>11, SMTT(20)
    <2>5. o < i => p + m <= a
      BY <1>r, <1>4, <1>6, <1>7, <2>1, <2>2, <1>11 DEF InQueue
    <2>6. a + n <= p \/ p + m <= a
      BY <1>4, <1>11, <2>1, <2>4, <2>5
    <2>7. \A k \in 0..m - 1 : (p + k) % FifoSize # a % FifoSize
      BY <2>3, <2>6, CellsApart
    <2>8. a % FifoSize \in 0..FifoSize - 1
      BY CellOf
    <2>9. ASSUME NEW k \in 0..m - 1
          PROVE  (at + k) % FifoSize # P[i] % FifoSize
      <3>1. k \in Nat /\ a = P[i]
        BY <2>2
      <3> QED
        BY <1>8, <2>7, <3>1
    <2> QED
      BY <2>2, <2>8, <2>9
  <1>12. PICK f \in FifoType : f = logc.queue
    BY <1>2
  <1>13. \A i \in InQueue : i # o => P[i] % FifoSize # at % FifoSize
    <2>1. 0 \in 0..m - 1 /\ at + 0 = at
      BY <1>5, <1>6
    <2> QED
      BY <1>11, <2>1
  <1>14. PICK g \in FifoType :
            /\ logc' = [logc EXCEPT !.queue = g]
            /\ g.in = f.in /\ g.out = f.out
            /\ g.data[at % FifoSize] = [f.data[at % FifoSize] EXCEPT
                                        !.flags = IF loc[t] = "dropped" THEN "DISCARDED" ELSE "COMMITED"]
            /\ \A i \in InQueue : i # o => g.data[P[i] % FifoSize] = f.data[P[i] % FifoSize]
    <2>1. CASE loc[t] = "dropped"
      <3>1. PICK g : g = fifo_discard(f, at)
        OBVIOUS
      <3>2. logc' = [logc EXCEPT !.queue = g]
        BY <1>10, <1>12, <2>1, <3>1
      <3>3. /\ g \in FifoType /\ g.in = f.in /\ g.out = f.out
            /\ g.data[at % FifoSize] = [f.data[at % FifoSize] EXCEPT !.flags = "DISCARDED"]
            /\ \A c \in 0..FifoSize - 1 : c # at % FifoSize => g.data[c] = f.data[c]
        BY <3>1, DiscardFacts
      <3> QED
        BY <1>11, <1>13, <2>1, <3>2, <3>3
    <2>2. CASE loc[t] # "dropped"
      <3>1. PICK g : g = fifo_commit(f, at)
        OBVIOUS
      <3>2. logc' = [logc EXCEPT !.queue = g]
        BY <1>10, <1>12, <2>2, <3>1
      <3>3. /\ g \in FifoType /\ g.in = f.in /\ g.out = f.out
            /\ g.data[at % FifoSize] = [f.data[at % FifoSize] EXCEPT !.flags = "COMMITED"]
            /\ \A c \in 0..FifoSize - 1 :
                (\A k \in 0..f.data[at % FifoSize].size - 1 : (at + k) % FifoSize # c) /\ c # at % FifoSize =>
                   g.data[c] = f.data[c]
        BY <3>1, CommitFacts
      <3>4. f.data[at % FifoSize].size = m
        BY <1>8, <1>9, <1>12
      <3>5. ASSUME NEW i \in InQueue, i # o
            PROVE  g.data[P[i] % FifoSize] = f.data[P[i] % FifoSize]
        <4>1. PICK c \in 0..FifoSize - 1 : c = P[i] % FifoSize
          BY <1>11, <3>5
        <4>2. c # at % FifoSize /\ \A k \in 0..m - 1 : (at + k) % FifoSize # c
          BY <1>11, <1>13, <3>5, <4>1
        <4> QED
          BY <3>3, <3>4, <4>1, <4>2
      <3> QED
        BY <2>2, <3>2, <3>3, <3>5
    <2> QED
      BY <2>1, <2>2
  <1>15. logc'.queue = g
    BY <1>2, <1>14 DEF ConsumerType
  <1>16. g.data[p % FifoSize] = [id |-> o, size |-> m, flags |-> IF loc[t] = "dropped" THEN "DISCARDED" ELSE "COMMITED"]
    <2>1. f.data[at % FifoSize] = [id |-> o, size |-> m, flags |-> "RESERVED"]
      BY <1>8, <1>9, <1>12
    <2>2. g.data[at % FifoSize] = [id |-> o, size |-> m, flags |-> IF loc[t] = "dropped" THEN "DISCARDED" ELSE "COMMITED"]
      BY <1>14, <2>1
    <2> QED
      BY <1>8, <2>2
  <1> QED
    BY <1>3, <1>6, <1>7, <1>12, <1>14, <1>15, <1>16

LEMMA log_consumer_queue_commit_signalStep ==
    ASSUME LogInv, NEW t \in Threads, log_consumer_queue_commit_signal(t)
    PROVE  LogInv'
  <1>1. /\ loc[t] \in {"held", "dropped"} /\ loc' = [loc EXCEPT ![t] = "signal"]
        /\ sent' = [sent EXCEPT ![Own(t)].discarded = (loc[t] = "dropped")]
        /\ UNCHANGED <<envVars, th, broken, taken, handled, boundVars>>
    BY DEF log_consumer_queue_commit_signal, Goto
  <1>2. loc[t] \in Working
    BY <1>1 DEF Working
  <1>3. logc.pc # "none" /\ logc \in ConsumerType /\ conf.en
    BY <1>2, Inside_Finds
  <1>4. PICK o \in Gone + 1..Len(sent) :
            /\ o = Own(t) /\ o \in 1..Len(sent) /\ sent[o].thread = t /\ Open(o)
            /\ \A i \in 1..Len(sent) : sent[i].thread = t /\ Open(i) => i = o
    BY <1>2, OwnFacts
  <1>5. /\ Gone \in Nat /\ taken \in Nat /\ Len(sent) \in Nat /\ o \in Nat /\ taken <= Gone /\ o \notin 1..Gone
    <2>1. LogType
      BY DEF LogInv
    <2>2. Gone \in Nat /\ taken \in Nat /\ Len(sent) \in Nat /\ Gone \in {taken, taken + 1}
      BY <2>1, GoneFacts
    <2> QED
      BY <1>4, <2>2
  <1>6. PICK P : P \in [Nat -> Nat] /\ RingInv(P)
    BY <1>3 DEF LogInv
  <1>7. /\ logc'.queue \in FifoType
        /\ logc'.queue.in = logc.queue.in /\ logc'.queue.out = logc.queue.out
        /\ logc' = [logc EXCEPT !.queue = logc'.queue]
        /\ logc'.queue.data[P[o] % FifoSize] =
            [id |-> o, size |-> sent[o].words, flags |-> IF loc[t] = "dropped" THEN "DISCARDED" ELSE "COMMITED"]
        /\ \A i \in InQueue : i # o =>
            logc'.queue.data[P[i] % FifoSize] = logc.queue.data[P[i] % FifoSize]
    <2>1. /\ logc'.queue \in FifoType
          /\ logc'.queue.in = logc.queue.in /\ logc'.queue.out = logc.queue.out
          /\ logc' = [logc EXCEPT !.queue = logc'.queue]
          /\ logc'.queue.data[P[Own(t)] % FifoSize] =
                [id |-> Own(t), size |-> sent[Own(t)].words,
                 flags |-> IF loc[t] = "dropped" THEN "DISCARDED" ELSE "COMMITED"]
          /\ \A i \in InQueue : i # Own(t) =>
                logc'.queue.data[P[i] % FifoSize] = logc.queue.data[P[i] % FifoSize]
      BY <1>6, SettledRing, ZenonT(30)
    <2> QED
      BY <1>4, <2>1, Zenon
  <1>8. /\ logc' \in ConsumerType /\ logc'.pc = logc.pc /\ logc'.seen = logc.seen
        /\ logc'.stop = logc.stop /\ logc'.flushed = logc.flushed
    BY <1>3, <1>7 DEF ConsumerType
  <1>9. /\ sent \in Seq(MsgType) /\ sent' \in Seq(MsgType) /\ Len(sent') = Len(sent)
        /\ \A i \in 1..Len(sent) : i # o => sent'[i] = sent[i]
        /\ sent'[o] = [sent[o] EXCEPT !.discarded = (loc[t] = "dropped")]
    <2>1. sent \in Seq(MsgType)
      BY DEF LogInv, LogType
    <2>2. sent[o] \in MsgType
      BY <1>4, <2>1
    <2>3. PICK m \in MsgType : m = [sent[o] EXCEPT !.discarded = (loc[t] = "dropped")]
      BY <2>2 DEF MsgType
    <2>4. sent' = [sent EXCEPT ![o] = m]
      BY <1>1, <1>4, <2>1, <2>3
    <2> QED
      BY <1>4, <2>1, <2>3, <2>4
  <1>10. \A i \in 1..Len(sent) :
            /\ sent'[i].kind = sent[i].kind /\ sent'[i].thread = sent[i].thread
            /\ sent'[i].at = sent[i].at /\ sent'[i].words = sent[i].words
            /\ sent'[i].conf = sent[i].conf /\ sent'[i].mdc = sent[i].mdc
            /\ sent'[i].discarded = IF i = o THEN loc[t] = "dropped" ELSE sent[i].discarded
    <2> SUFFICES ASSUME NEW i \in 1..Len(sent)
                 PROVE  /\ sent'[i].kind = sent[i].kind /\ sent'[i].thread = sent[i].thread
                        /\ sent'[i].at = sent[i].at /\ sent'[i].words = sent[i].words
                        /\ sent'[i].conf = sent[i].conf /\ sent'[i].mdc = sent[i].mdc
                        /\ sent'[i].discarded = IF i = o THEN loc[t] = "dropped" ELSE sent[i].discarded
      OBVIOUS
    <2>1. CASE i = o
      <3>1. sent[o] \in MsgType
        BY <1>4, <1>9
      <3>2. /\ sent'[o].kind = sent[o].kind /\ sent'[o].thread = sent[o].thread
            /\ sent'[o].at = sent[o].at /\ sent'[o].words = sent[o].words
            /\ sent'[o].conf = sent[o].conf /\ sent'[o].mdc = sent[o].mdc
            /\ sent'[o].discarded = (loc[t] = "dropped")
        BY <1>9, <3>1 DEF MsgType
      <3> QED
        BY <2>1, <3>2, Zenon
    <2>2. CASE i # o
      BY <1>9, <2>2
    <2> QED
      BY <2>1, <2>2
  <1>11. Gone' = Gone
    BY <1>1, <1>8 DEF Gone
  <1> USE DEF envVars, boundVars
  <1>12. LogType'
    BY <1>1, <1>8, <1>9 DEF LogInv, LogType, Locs, Reading
  <1>13. EnvLockInv'
    <2>1. t # Main \/ loc[Main] # "boot"
      BY <1>1
    <2> QED
      BY <1>1, <1>2, LockStep DEF LogInv, Locs, Reading, Writing, Flushing, Exiting
  <1>14. ConfInv'
    BY <1>1, <1>3, <1>8 DEF LogInv, LogType, ConfInv, Working, Flushing, Exiting, Writing
  <1>15. \A u \in Threads : loc'[u] = loc[u] \/ (u = t /\ loc'[u] = "signal")
    BY <1>1 DEF LogInv, LogType
  <1>16. QueueInv'
    <2>1. LogType /\ QueueInv
      BY DEF LogInv
    <2>2. logc.pc # "none" => /\ logc.pc = "ended" => logc.stop
                              /\ logc.seen => logc.pc = "drain"
      BY <2>1 DEF QueueInv
    <2>3. \A i \in 1..Len(sent) : sent'[i].kind = sent[i].kind
      BY <1>10
    <2> QED
      BY <1>1, <1>8, <1>9, <1>11, <1>15, <2>1, <2>2, <2>3, QueueSame
  <1>17. loc'[t] = "signal" /\ \A u \in Threads : u # t => loc'[u] = loc[u]
    BY <1>1 DEF LogInv, LogType
  <1>18. \A i \in 1..Len(sent) : Open(i)' <=> Open(i) /\ i # o
    <2> SUFFICES ASSUME NEW i \in 1..Len(sent)
                 PROVE  Open(i)' <=> Open(i) /\ i # o
      OBVIOUS
    <2>1. sent[i].thread \in Threads
      BY MsgFacts DEF LogInv, LogType
    <2>2. (\A j \in i + 1..Len(sent') : sent'[j].thread # sent'[i].thread)
            <=> (\A j \in i + 1..Len(sent) : sent[j].thread # sent[i].thread)
      BY <1>9, <1>10
    <2>3. CASE sent[i].thread = t
      <3>1. ~Open(i)'
        BY <1>10, <1>17, <2>3 DEF Open, Working
      <3> QED
        BY <1>4, <2>3, <3>1
    <2>4. CASE sent[i].thread # t
      <3>1. i # o /\ loc'[sent[i].thread] = loc[sent[i].thread]
        BY <1>4, <1>17, <2>1, <2>4
      <3> QED
        BY <1>10, <2>2, <3>1 DEF Open
    <2> QED
      BY <2>3, <2>4
  <1>19. OpenInv'
    <2>1. ASSUME NEW u \in Threads, loc'[u] \in Working
          PROVE  \E i \in (Gone + 1..Len(sent))' : (sent[i].thread = u)' /\ Open(i)'
      <3>1. u # t /\ loc[u] \in Working
        BY <1>17, <2>1 DEF Working
      <3>2. PICK i \in Gone + 1..Len(sent) : sent[i].thread = u /\ Open(i)
        BY <3>1 DEF LogInv, OpenInv
      <3>3. i \in 1..Len(sent) /\ i # o
        BY <1>4, <1>5, <3>1, <3>2
      <3> QED
        BY <1>9, <1>10, <1>11, <1>18, <3>2, <3>3
    <2>2. ASSUME NEW i \in 1..Len(sent), Open(i)'
          PROVE  ~sent'[i].discarded
      BY <1>9, <1>18, <2>2 DEF LogInv, OpenInv
    <2> QED
      BY <1>9, <2>1, <2>2 DEF OpenInv
  <1>20. P \in [Nat -> Nat] /\ RingInv(P)'
    <2>1. /\ (logc.queue.out = P[taken + 1] % Word)'
          /\ (logc.queue.in = P[Len(sent) + 1] % Word)'
          /\ (P[Len(sent) + 1] - P[taken + 1] \in 0..FifoSize)'
      BY <1>1, <1>6, <1>7, <1>9 DEF RingInv
    <2>2. InQueue' = InQueue /\ \A i \in InQueue : i \in 1..Len(sent)
      BY <1>1, <1>5, <1>9 DEF InQueue
    <2>3. ASSUME NEW i \in InQueue
          PROVE  /\ P[i + 1] = P[i] + sent'[i].words
                 /\ P[taken + 1] <= P[i] /\ P[i] + sent'[i].words <= P[Len(sent) + 1]
                 /\ \A j \in i + 1..Len(sent) : P[i] + sent'[i].words <= P[j]
                 /\ sent'[i].at = P[i] % Word
      BY <1>6, <1>10, <2>2, <2>3, Zenon DEF RingInv
    <2>4. ASSUME NEW i \in InQueue
          PROVE  logc'.queue.data[P[i] % FifoSize] =
                    [id |-> i, size |-> sent'[i].words,
                     flags |-> IF Open(i)' THEN "RESERVED" ELSE IF sent'[i].discarded THEN "DISCARDED" ELSE "COMMITED"]
      <3>1. i \in 1..Len(sent)
        BY <2>2
      <3>2. CASE i = o
        <4>1. ~Open(i)' /\ sent'[i].words = sent[o].words /\ sent'[i].discarded = (loc[t] = "dropped")
          BY <1>10, <1>18, <3>1, <3>2
        <4> QED
          BY <1>7, <3>2, <4>1
      <3>3. CASE i # o
        <4>1. (Open(i)' <=> Open(i)) /\ sent'[i].words = sent[i].words /\ sent'[i].discarded = sent[i].discarded
          BY <1>10, <1>18, <3>1, <3>3
        <4>2. logc.queue.data[P[i] % FifoSize] =
                    [id |-> i, size |-> sent[i].words,
                     flags |-> IF Open(i) THEN "RESERVED" ELSE IF sent[i].discarded THEN "DISCARDED" ELSE "COMMITED"]
          BY <1>6, Zenon DEF RingInv
        <4> QED
          BY <1>7, <3>3, <4>1, <4>2
      <3> QED
        BY <3>2, <3>3
    <2> QED
      BY <1>1, <1>6, <1>9, <2>1, <2>2, <2>3, <2>4, Zenon DEF RingInv
  <1>21. \A u \in Threads : Lines(u)' = Lines(u) /\ Held(u)' = Held(u)
    <2> SUFFICES ASSUME NEW u \in Threads
                 PROVE  Lines(u)' = Lines(u) /\ Held(u)' = Held(u)
      OBVIOUS
    <2>1. \A i \in Gone + 1..Len(sent) : i \in 1..Len(sent)
      BY <1>5
    <2>2. Lines(u)' = Lines(u)
      BY <1>9, <1>10, <1>11, <2>1 DEF Lines
    <2>3. \A i \in Lines(u) : i \in 1..Len(sent) /\ sent[i].thread = u
      BY <2>1 DEF Lines
    <2>4. CASE u = t
      BY <1>1, <1>17, <2>2, <2>4 DEF Held
    <2>5. CASE u # t
      <3>1. \A i \in Lines(u) : Open(i)' <=> Open(i)
        BY <1>4, <1>18, <2>3, <2>5
      <3> QED
        BY <1>17, <2>2, <2>5, <3>1 DEF Held
    <2> QED
      BY <2>2, <2>4, <2>5
  <1>22. \A u \in Threads : ContextInv(u)'
    BY <1>1, <1>15, <1>21, ContextSame DEF LogInv
  <1>23. AsNow'
    <2>1. \A i \in Gone + 1..Len(sent) : i \in 1..Len(sent)
      BY <1>5
    <2> QED
      BY <1>1, <1>9, <1>10, <1>11, <2>1 DEF LogInv, AsNow
  <1>24. InOrder' /\ AsLogged'
    <2>0. Gone <= Len(sent)
      BY DEF LogInv, QueueInv
    <2>1. \A i \in 1..Gone : i \in 1..Len(sent) /\ i # o
      BY <1>5, <2>0
    <2>2. {i \in 1..Gone : ~sent'[i].discarded} = {i \in 1..Gone : ~sent[i].discarded}
      BY <1>10, <2>1
    <2>3. InOrder'
      BY <1>1, <1>11, <2>2 DEF LogInv, InOrder
    <2>4. \A k \in 1..Len(handled) : handled[k].id \in 1..Gone
      BY DEF LogInv, InOrder
    <2> QED
      BY <1>1, <1>10, <2>1, <2>3, <2>4 DEF LogInv, AsLogged
  <1> QED
    BY <1>12, <1>13, <1>14, <1>16, <1>19, <1>20, <1>22, <1>23, <1>24 DEF LogInv

\* The ring g is f after a reservation, or after a message has been put into it.
Reserved(f, g, words, id) ==
    /\ g \in FifoType
    /\ g.in = (f.in + (words + 1)) % Word /\ g.out = f.out
    /\ g.data[f.in % FifoSize] = [id |-> id, size |-> words + 1, flags |-> "RESERVED"]
    /\ \A c \in 0..FifoSize - 1 : c # f.in % FifoSize => g.data[c] = f.data[c]

HasPut(f, g, words, id, mark) ==
    /\ g \in FifoType
    /\ g.in = (f.in + (words + 1)) % Word /\ g.out = f.out
    /\ g.data[f.in % FifoSize] = [id |-> id, size |-> words + 1, flags |-> mark]
    /\ \A c \in 0..FifoSize - 1 :
        (\A k \in 0..words : (f.in + k) % FifoSize # c) => g.data[c] = f.data[c]

LEMMA ReserveFacts ==
    ASSUME NEW f \in FifoType, NEW words \in Nat, NEW id \in Nat, NEW g, g = fifo_reserve(f, words, id)
    PROVE  Reserved(f, g, words, id)
  <1>1. /\ f.size = FifoSize /\ f.data \in [0..FifoSize - 1 -> HeadType] /\ DOMAIN f.data = 0..FifoSize - 1
        /\ f.in \in 0..Word - 1
    BY DEF FifoType
  <1>2. PICK at \in Nat : at = f.in
    BY <1>1
  <1>3. PICK c \in 0..FifoSize - 1 : c = at % FifoSize
    <2>1. at \in Int
      OBVIOUS
    <2> QED
      BY <2>1, SizeFacts, DivMod
  <1>4. PICK h \in HeadType : h = [id |-> id, size |-> words + 1, flags |-> "RESERVED"]
    <2>1. PICK n \in Nat : n = words + 1
      OBVIOUS
    <2>2. [id |-> id, size |-> n, flags |-> "RESERVED"] \in HeadType
      BY DEF HeadType
    <2> QED
      BY <2>1, <2>2
  <1>5. PICK x \in Int : x = at + (words + 1) /\ x = at + words + HeadSize
    BY DEF HeadSize
  <1>6. PICK n \in 0..Word - 1 : n = x % Word
    BY SizeFacts, DivMod
  <1>7. PICK d \in [0..FifoSize - 1 -> HeadType] : d = [f.data EXCEPT ![c] = h]
    BY <1>1
  <1>8. g = [f EXCEPT !.in = n, !.data = d]
    BY <1>1, <1>2, <1>3, <1>4, <1>5, <1>6, <1>7 DEF fifo_reserve, HeadSize
  <1>9. g \in FifoType /\ g.in = n /\ g.out = f.out /\ g.data = d
    BY <1>8 DEF FifoType
  <1>10. d[c] = h /\ \A k \in 0..FifoSize - 1 : k # c => d[k] = f.data[k]
    BY <1>1, <1>7
  <1> QED
    BY <1>2, <1>3, <1>4, <1>5, <1>6, <1>9, <1>10 DEF Reserved

\* A message put into the ring, for its thread to write, or a command at once.
Put(f, words, id, mark) ==
    IF mark = "RESERVED" THEN fifo_reserve(f, words, id) ELSE fifo_commit(fifo_reserve(f, words, id), f.in)

LEMMA PutFacts ==
    ASSUME NEW f \in FifoType, NEW words \in Nat, NEW id \in Nat, 
           NEW mark \in {"RESERVED", "COMMITED"}, NEW g, g = Put(f, words, id, mark)
    PROVE  HasPut(f, g, words, id, mark)
  <1>1. PICK at \in Nat : at = f.in
    BY DEF FifoType
  <1>2. PICK r : r = fifo_reserve(f, words, id)
    OBVIOUS
  <1>3. /\ r \in FifoType
        /\ r.in = (at + (words + 1)) % Word /\ r.out = f.out
        /\ r.data[at % FifoSize] = [id |-> id, size |-> words + 1, flags |-> "RESERVED"]
        /\ \A c \in 0..FifoSize - 1 : c # at % FifoSize => r.data[c] = f.data[c]
    <2>1. Reserved(f, r, words, id)
      BY <1>2, ReserveFacts
    <2> QED
      BY <1>1, <2>1, Zenon DEF Reserved
  <1>4. \A c : (\A k \in 0..words : (at + k) % FifoSize # c) => c # at % FifoSize
    <2>1. 0 \in 0..words /\ at + 0 = at
      OBVIOUS
    <2> QED
      BY <2>1
  <1>5. CASE mark = "RESERVED"
    <2>1. g = r
      BY <1>2, <1>5 DEF Put
    <2>2. g \in FifoType /\ g.in = (at + (words + 1)) % Word /\ g.out = f.out
      BY <1>3, <2>1
    <2>3. g.data[at % FifoSize] = [id |-> id, size |-> words + 1, flags |-> mark]
      BY <1>3, <1>5, <2>1
    <2>4. \A c \in 0..FifoSize - 1 :
            (\A k \in 0..words : (at + k) % FifoSize # c) => g.data[c] = f.data[c]
      BY <1>3, <1>4, <2>1
    <2> QED
      BY <1>1, <2>2, <2>3, <2>4, Zenon DEF HasPut
  <1>6. CASE mark = "COMMITED"
    <2>1. g = fifo_commit(r, at)
      BY <1>1, <1>2, <1>6 DEF Put
    <2>2. PICK n \in Nat : n = words + 1 /\ 0..n - 1 = 0..words
      OBVIOUS
    <2>3. r.data[at % FifoSize].size = n
      BY <1>3, <2>2
    <2>4. /\ g \in FifoType /\ g.in = r.in /\ g.out = r.out
          /\ g.data[at % FifoSize] = [r.data[at % FifoSize] EXCEPT !.flags = "COMMITED"]
          /\ \A c \in 0..FifoSize - 1 :
               (\A k \in 0..r.data[at % FifoSize].size - 1 : (at + k) % FifoSize # c) /\ c # at % FifoSize =>
                   g.data[c] = r.data[c]
      BY <1>3, <2>1, CommitFacts
    <2>5. g.data[at % FifoSize] = [id |-> id, size |-> words + 1, flags |-> mark]
      BY <1>3, <1>6, <2>4
    <2>6. ASSUME NEW c \in 0..FifoSize - 1, \A k \in 0..words : (at + k) % FifoSize # c
          PROVE  g.data[c] = f.data[c]
      <3>1. c # at % FifoSize
        BY <1>4, <2>6
      <3>2. \A k \in 0..r.data[at % FifoSize].size - 1 : (at + k) % FifoSize # c
        BY <2>2, <2>3, <2>6
      <3> QED
        BY <1>3, <2>4, <3>1, <3>2
    <2>7. g.in = (at + (words + 1)) % Word /\ g.out = f.out
      BY <1>3, <2>4
    <2> QED
      BY <1>1, <2>4, <2>5, <2>6, <2>7, Zenon DEF HasPut
  <1> QED
    BY <1>5, <1>6

\* The ring with one more message in it.
LEMMA PutRing ==
    ASSUME LogInv, NEW words \in Nat, NEW mark \in {"RESERVED", "COMMITED"}, NEW m \in MsgType, NEW l \in Nat
    PROVE  /\ logc \in ConsumerType /\ HasRoom(logc.queue, words)
           /\ m.at = logc.queue.in /\ m.words = words + HeadSize /\ m.discarded = FALSE
           /\ l = Len(sent) /\ sent' = Append(sent, m) /\ taken' = taken
           /\ logc'.queue = Put(logc.queue, words, l + 1, mark)
           /\ Open(l + 1)' <=> mark = "RESERVED"
           /\ \A i \in 1..l : Open(i)' <=> Open(i)
           => \E P \in [Nat -> Nat] : RingInv(P)'
  <1>0. SUFFICES ASSUME
                    /\ logc \in ConsumerType /\ HasRoom(logc.queue, words)
                    /\ m.at = logc.queue.in /\ m.words = words + HeadSize /\ m.discarded = FALSE
                    /\ l = Len(sent) /\ sent' = Append(sent, m) /\ taken' = taken
                    /\ logc'.queue = Put(logc.queue, words, l + 1, mark)
                    /\ Open(l + 1)' <=> mark = "RESERVED"
                    /\ \A i \in 1..l : Open(i)' <=> Open(i)
                 PROVE  \E P \in [Nat -> Nat] : RingInv(P)'
    OBVIOUS
  <1>a. logc \in ConsumerType /\ HasRoom(logc.queue, words)
    BY <1>0, Zenon
  <1>b. m.at = logc.queue.in /\ m.words = words + HeadSize /\ m.discarded = FALSE
    BY <1>0, Zenon
  <1>c. l = Len(sent) /\ sent' = Append(sent, m) /\ taken' = taken
    BY <1>0, Zenon
  <1>d. logc'.queue = Put(logc.queue, words, l + 1, mark)
    BY <1>0, Zenon
  <1>e. (Open(l + 1)' <=> mark = "RESERVED") /\ \A i \in 1..l : Open(i)' <=> Open(i)
    BY <1>0, Zenon
  <1>1. LogType /\ logc.pc # "none"
    BY <1>a DEF LogInv, ConsumerType
  <1>2. l = Len(sent) /\ taken \in Nat /\ taken <= l
    <2>1. Gone \in Nat /\ taken \in Nat /\ Len(sent) \in Nat /\ Gone \in {taken, taken + 1}
      BY <1>1, GoneFacts
    <2>2. Gone <= Len(sent)
      BY DEF LogInv, QueueInv
    <2> QED
      BY <1>c, <2>1, <2>2
  <1>3. PICK P : P \in [Nat -> Nat] /\ RingInv(P)
    BY <1>1 DEF LogInv
  <1>4. /\ logc.queue.out = P[taken + 1] % Word
        /\ logc.queue.in = P[Len(sent) + 1] % Word
        /\ P[Len(sent) + 1] - P[taken + 1] \in 0..FifoSize
        /\ \A i \in InQueue :
            /\ P[i + 1] = P[i] + sent[i].words
            /\ P[taken + 1] <= P[i] /\ P[i] + sent[i].words <= P[Len(sent) + 1]
            /\ \A j \in i + 1..Len(sent) : P[i] + sent[i].words <= P[j]
            /\ sent[i].at = P[i] % Word
            /\ logc.queue.data[P[i] % FifoSize] =
              [id |-> i, size |-> sent[i].words,
               flags |-> IF Open(i) THEN "RESERVED" ELSE IF sent[i].discarded THEN "DISCARDED" ELSE "COMMITED"]
    BY <1>3, Zenon DEF RingInv
  <1>5. PICK lo \in Nat, hi \in Nat : lo = P[taken + 1] /\ hi = P[l + 1]
    <2>1. P \in [Nat -> Nat]
      BY <1>3, Zenon
    <2> QED
      BY <1>2, <2>1, SMTT(20)
  <1>6. PICK n \in Nat \ {0} : n = words + 1 /\ m.words = n
    BY <1>b DEF HeadSize
  <1>7. hi - lo \in 0..FifoSize /\ logc.queue.in = hi % Word /\ logc.queue.out = lo % Word
    BY <1>2, <1>4, <1>5
  <1>8. hi + n - lo <= FifoSize
    <2>1. hi - lo \in 0..Word - 1
      BY <1>7, SizeFacts
    <2>2. ((hi % Word) - (lo % Word)) % Word = hi - lo
      <3>1. PICK s \in Nat \ {0} : s = Word
        BY SizeFacts
      <3>2. hi - lo \in 0..s - 1
        BY <2>1, <3>1
      <3>3. ((hi % s) - (lo % s)) % s = hi - lo
        BY <3>2, SubMod
      <3> QED
        BY <3>1, <3>3
    <2>3. words + 1 <= FifoSize - ((logc.queue.in - logc.queue.out) % Word)
      BY <1>a DEF HasRoom, fifo_unused, HeadSize, ConsumerType, FifoType
    <2>4. words + 1 <= FifoSize - (hi - lo)
      BY <1>7, <2>2, <2>3
    <2> QED
      BY <1>6, <2>4, SizeFacts
  <1>9. PICK x \in Nat : x = hi + n
    BY <1>6
  <1>10. PICK Q : /\ Q \in [Nat -> Nat] /\ Q[l + 2] = x /\ Q[l + 1] = hi /\ Q[taken + 1] = lo
                  /\ \A i \in 0..l + 1 : Q[i] = P[i]
    <2>1. PICK Q : Q = [i \in Nat |-> IF i = l + 2 THEN x ELSE P[i]]
      OBVIOUS
    <2>2. Q \in [Nat -> Nat]
      BY <1>3, <2>1
    <2>3. Q[l + 2] = x
      BY <2>1
    <2>4. \A i \in 0..l + 1 : Q[i] = P[i]
      BY <2>1
    <2>5. Q[l + 1] = hi /\ Q[taken + 1] = lo
      BY <1>2, <1>5, <2>4
    <2> QED
      BY <2>2, <2>3, <2>4, <2>5
  <1>11. /\ Len(sent') = l + 1 /\ sent'[l + 1] = m
         /\ \A i \in 1..l : sent'[i] = sent[i]
    BY <1>1, <1>2, <1>c DEF LogType
  <1>12. /\ logc'.queue.in = ((hi % Word) + n) % Word /\ logc'.queue.out = lo % Word
         /\ logc'.queue.data[(hi % Word) % FifoSize] = [id |-> l + 1, size |-> n, flags |-> mark]
         /\ \A c \in 0..FifoSize - 1 :
                (\A k \in 0..n - 1 : ((hi % Word) + k) % FifoSize # c) => logc'.queue.data[c] = logc.queue.data[c]
    <2>1. PICK f \in FifoType : f = logc.queue
      BY <1>a DEF ConsumerType
    <2>2. PICK g : g = logc'.queue
      OBVIOUS
    <2>3. PICK id \in Nat : id = l + 1
      OBVIOUS
    <2>4. g = Put(f, words, id, mark)
      BY <1>d, <2>1, <2>2, <2>3
    <2>5. /\ g.in = (f.in + (words + 1)) % Word /\ g.out = f.out
          /\ g.data[f.in % FifoSize] = [id |-> id, size |-> words + 1, flags |-> mark]
          /\ \A c \in 0..FifoSize - 1 :
                (\A k \in 0..words : (f.in + k) % FifoSize # c) => g.data[c] = f.data[c]
      <3>1. HasPut(f, g, words, id, mark)
        BY <2>4, PutFacts
      <3> QED
        BY <3>1, Zenon DEF HasPut
    <2>6. 0..n - 1 = 0..words
      BY <1>6
    <2>7. f.in = hi % Word /\ f.out = lo % Word
      BY <1>7, <2>1
    <2> QED
      BY <1>6, <2>1, <2>2, <2>3, <2>5, <2>6, <2>7
  <1>13. logc'.queue.in = x % Word
    <2>1. ((hi % Word) + n) % Word = (hi + n) % Word
      <3>1. PICK s \in Nat \ {0} : s = Word
        BY SizeFacts
      <3>2. hi \in Int /\ n \in Int
        OBVIOUS
      <3>3. ((hi % s) + n) % s = (hi + n) % s
        BY <3>2, AddMod
      <3> QED
        BY <3>1, <3>3
    <2> QED
      BY <1>9, <1>12, <2>1
  <1>14. /\ (hi % Word) % FifoSize = hi % FifoSize
         /\ \A k \in Nat : ((hi % Word) + k) % FifoSize = (hi + k) % FifoSize
    BY CellOf
  <1>15. \A i \in InQueue : i \in taken + 1..l /\ i \in 1..l /\ i \in Nat /\ i \in 0..l + 1 /\ i + 1 \in 0..l + 1
    BY <1>2 DEF InQueue
  <1>16. \A i \in InQueue' : i \in InQueue \/ i = l + 1
    BY <1>2, <1>11, <1>c DEF InQueue
  <1>17. ASSUME NEW i \in InQueue
         PROVE  /\ Q[i + 1] = Q[i] + sent'[i].words
                /\ Q[taken + 1] <= Q[i] /\ Q[i] + sent'[i].words <= Q[l + 2]
                /\ \A j \in i + 1..l + 1 : Q[i] + sent'[i].words <= Q[j]
                /\ sent'[i].at = Q[i] % Word
                /\ logc'.queue.data[Q[i] % FifoSize] = logc.queue.data[P[i] % FifoSize]
    <2>1. i \in taken + 1..l /\ i \in 1..l /\ i \in Nat /\ i \in 0..l + 1 /\ i + 1 \in 0..l + 1
      BY <1>15
    <2>2. PICK a \in Nat, w \in Nat \ {0} : a = P[i] /\ a = Q[i] /\ w = sent[i].words /\ w = sent'[i].words
      <3>1. sent[i].words \in Nat \ {0}
        BY <1>1, <1>2, <2>1, MsgFacts DEF LogType
      <3>2. P[i] \in Nat
        BY <1>3, <2>1
      <3> QED
        BY <1>10, <1>11, <2>1, <3>1, <3>2
    <2>3. P[i + 1] = a + w /\ lo <= a /\ a + w <= hi /\ (\A j \in i + 1..l : a + w <= P[j]) /\ sent[i].at = a % Word
      BY <1>2, <1>4, <1>5, <2>2
    <2>4. Q[i + 1] = a + w
      BY <1>10, <2>1, <2>3
    <2>5. a + w <= x
      BY <1>9, <2>3
    <2>6. ASSUME NEW j \in i + 1..l + 1
          PROVE  a + w <= Q[j]
      <3>1. CASE j = l + 1
        BY <1>10, <2>3, <3>1
      <3>2. CASE j # l + 1
        <4>1. j \in i + 1..l /\ j \in 0..l + 1
          BY <2>1, <2>6, <3>2
        <4> QED
          BY <1>10, <2>3, <4>1
      <3> QED
        BY <3>1, <3>2
    <2>7. sent'[i].at = a % Word
      BY <1>11, <2>1, <2>3
    <2>8. logc'.queue.data[a % FifoSize] = logc.queue.data[a % FifoSize]
      <3>1. \A k \in 0..n - 1 : (hi + k) % FifoSize # a % FifoSize
        <4>1. x - lo <= FifoSize /\ lo <= a /\ a + w <= x /\ lo <= hi /\ hi + n <= x
          BY <1>7, <1>8, <1>9, <2>3, <2>5, SizeFacts
        <4>2. a + w <= hi \/ hi + n <= a
          BY <2>3
        <4> QED
          BY <4>1, <4>2, CellsApart
      <3>2. a % FifoSize \in 0..FifoSize - 1
        BY CellOf
      <3>3. ASSUME NEW k \in 0..n - 1
            PROVE  ((hi % Word) + k) % FifoSize # a % FifoSize
        <4>1. k \in Nat
          OBVIOUS
        <4> QED
          BY <1>14, <3>1, <4>1
      <3> QED
        BY <1>12, <3>2, <3>3
    <2> QED
      BY <1>10, <2>2, <2>3, <2>4, <2>5, <2>6, <2>7, <2>8
  <1>18. (logc.queue.out = Q[taken + 1] % Word)' /\ (logc.queue.in = Q[Len(sent) + 1] % Word)'
    <2>1. Len(sent') + 1 = l + 2
      BY <1>11
    <2> QED
      BY <1>10, <1>12, <1>13, <1>c, <2>1
  <1>19. x - lo \in 0..FifoSize
    BY <1>7, <1>8, <1>9, SizeFacts
  <1>20. \A i \in InQueue :
            logc'.queue.data[Q[i] % FifoSize] =
                [id |-> i, size |-> sent'[i].words,
                 flags |-> IF Open(i)' THEN "RESERVED" ELSE IF sent'[i].discarded THEN "DISCARDED" ELSE "COMMITED"]
    <2> SUFFICES ASSUME NEW i \in InQueue
                 PROVE  logc'.queue.data[Q[i] % FifoSize] =
                            [id |-> i, size |-> sent'[i].words,
                             flags |-> IF Open(i)' THEN "RESERVED" ELSE IF sent'[i].discarded THEN "DISCARDED" ELSE "COMMITED"]
      OBVIOUS
    <2>1. sent'[i] = sent[i] /\ (Open(i)' <=> Open(i))
      BY <1>11, <1>15, <1>e
    <2> QED
      BY <1>4, <1>17, <2>1
  <1>21. /\ logc'.queue.data[hi % FifoSize] =
            [id |-> l + 1, size |-> sent'[l + 1].words,
             flags |-> IF Open(l + 1)' THEN "RESERVED" ELSE IF sent'[l + 1].discarded THEN "DISCARDED" ELSE "COMMITED"]
         /\ sent'[l + 1].at = hi % Word /\ sent'[l + 1].words = n
    <2>1. sent'[l + 1].words = n /\ sent'[l + 1].discarded = FALSE /\ sent'[l + 1].at = logc.queue.in
      BY <1>6, <1>11, <1>b
    <2>2. Open(l + 1)' <=> mark = "RESERVED"
      BY <1>e
    <2> QED
      BY <1>7, <1>12, <1>14, <2>1, <2>2
  <1>22. \A i \in InQueue' :
            /\ Q[i + 1] = Q[i] + sent'[i].words
            /\ Q[taken + 1] <= Q[i] /\ Q[i] + sent'[i].words <= Q[l + 2]
            /\ \A j \in i + 1..l + 1 : Q[i] + sent'[i].words <= Q[j]
            /\ sent'[i].at = Q[i] % Word
            /\ logc'.queue.data[Q[i] % FifoSize] =
                [id |-> i, size |-> sent'[i].words,
                 flags |-> IF Open(i)' THEN "RESERVED" ELSE IF sent'[i].discarded THEN "DISCARDED" ELSE "COMMITED"]
    <2> SUFFICES ASSUME NEW i \in InQueue'
                 PROVE  /\ Q[i + 1] = Q[i] + sent'[i].words
                        /\ Q[taken + 1] <= Q[i] /\ Q[i] + sent'[i].words <= Q[l + 2]
                        /\ \A j \in i + 1..l + 1 : Q[i] + sent'[i].words <= Q[j]
                        /\ sent'[i].at = Q[i] % Word
                        /\ logc'.queue.data[Q[i] % FifoSize] =
                            [id |-> i, size |-> sent'[i].words,
                             flags |-> IF Open(i)' THEN "RESERVED" ELSE IF sent'[i].discarded THEN "DISCARDED" ELSE "COMMITED"]
      OBVIOUS
    <2>1. CASE i \in InQueue
      BY <1>17, <1>20, <2>1, Zenon
    <2>2. CASE i = l + 1
      <3>1. l + 1 + 1 = l + 2 /\ (l + 1 + 1..l + 1) = {}
        OBVIOUS
      <3>2. lo <= hi /\ hi + n <= x
        BY <1>7, <1>9, <1>6, SizeFacts
      <3>3. hi + n = x
        BY <1>9
      <3> QED
        BY <1>10, <1>21, <2>2, <3>1, <3>2, <3>3
    <2> QED
      BY <1>16, <2>1, <2>2
  <1>23. RingInv(Q)'
    <2>1. Len(sent)' + 1 = l + 2 /\ Len(sent)' = l + 1 /\ taken' = taken
      BY <1>11, <1>c
    <2>2. (Q[Len(sent) + 1] - Q[taken + 1] \in 0..FifoSize)'
      BY <1>10, <1>19, <2>1
    <2> QED
      BY <1>18, <1>22, <2>1, <2>2, Zenon DEF RingInv
  <1> QED
    BY <1>10, <1>23, Zenon

-----------------------------------------------------------------------------
(* A message is put into the queue. *)

LEMMA AppendFacts ==
    ASSUME LogInv, NEW t \in Threads, NEW k \in Locs, loc' = [loc EXCEPT ![t] = k], loc[t] \notin Working,
           NEW m \in MsgType, m.thread = t, m.discarded = FALSE, k \in Working <=> m.kind = "line", k \in Working => k = "reserved",
           NEW l \in Nat, l = Len(sent), sent' = Append(sent, m), handled' = handled, Gone' = Gone
    PROVE  /\ Len(sent') = l + 1 /\ sent'[l + 1] = m /\ sent' \in Seq(MsgType)
           /\ \A i \in 1..l : sent'[i] = sent[i] /\ (Open(i)' <=> Open(i))
           /\ Open(l + 1)' <=> k \in Working
           /\ Gone \in Nat /\ Gone <= l
           /\ OpenInv' /\ InOrder' /\ AsLogged'
           /\ \A u \in Threads : u # t => Lines(u)' = Lines(u) /\ Held(u)' = Held(u)
           /\ k \notin Working => Lines(t)' = Lines(t)
           /\ Held(t)' = Held(t)
  <1>1. sent \in Seq(MsgType) /\ Gone \in Nat /\ Gone <= l /\ loc \in [Threads -> Locs]
    BY GoneFacts DEF LogInv, LogType, QueueInv
  <1>2. /\ Len(sent') = l + 1 /\ sent'[l + 1] = m /\ sent' \in Seq(MsgType)
        /\ \A i \in 1..l : sent'[i] = sent[i]
    BY <1>1
  <1>3. loc'[t] = k /\ \A u \in Threads : u # t => loc'[u] = loc[u]
    BY <1>1
  <1>4. \A i \in 1..l : sent[i].thread \in Threads
    BY <1>1, MsgFacts
  <1>5. \A i \in 1..l : Open(i)' <=> Open(i)
    <2> SUFFICES ASSUME NEW i \in 1..l
                 PROVE  Open(i)' <=> Open(i)
      OBVIOUS
    <2>1. sent'[i] = sent[i] /\ sent[i].thread \in Threads /\ l + 1 \in i + 1..l + 1
      BY <1>2, <1>4
    <2>2. CASE sent[i].thread = t
      <3>1. ~Open(i)
        BY <2>2 DEF Open
      <3>2. sent'[l + 1].thread = sent'[i].thread /\ l + 1 \in i + 1..Len(sent')
        BY <1>2, <2>1, <2>2
      <3>3. ~Open(i)'
        BY <3>2, Zenon DEF Open
      <3> QED
        BY <3>1, <3>3
    <2>3. CASE sent[i].thread # t
      <3>1. loc'[sent[i].thread] = loc[sent[i].thread]
        BY <1>3, <2>1, <2>3
      <3>2. (\A j \in i + 1..l + 1 : sent'[j].thread # sent[i].thread)
                <=> \A j \in i + 1..l : sent[j].thread # sent[i].thread
        <4>1. \A j \in i + 1..l : j \in i + 1..l + 1 /\ sent'[j] = sent[j]
          BY <1>2
        <4>2. \A j \in i + 1..l + 1 : j \in i + 1..l \/ j = l + 1
          OBVIOUS
        <4>3. sent'[l + 1].thread # sent[i].thread
          BY <1>2, <2>3
        <4> QED
          BY <4>1, <4>2, <4>3
      <3> QED
        BY <1>2, <2>1, <3>1, <3>2 DEF Open
    <2> QED
      BY <2>2, <2>3
  <1>6. Open(l + 1)' <=> m.kind = "line"
    <2>1. (l + 1 + 1..Len(sent')) = {}
      BY <1>2
    <2>2. \A j \in l + 1 + 1..Len(sent') : sent'[j].thread # sent'[l + 1].thread
      BY <2>1
    <2>3. sent'[l + 1].kind = m.kind /\ sent'[l + 1].thread = t
      BY <1>2
    <2> QED
      BY <1>3, <2>2, <2>3 DEF Open
  <1>7. \A i \in Gone + 1..l : i \in 1..l /\ i \in Gone + 1..l + 1
    BY <1>1
  <1>8. OpenInv'
    <2>1. ASSUME NEW u \in Threads, loc'[u] \in Working
          PROVE  \E i \in Gone + 1..l + 1 : sent'[i].thread = u /\ Open(i)'
      <3>1. CASE u = t
        <4>1. Open(l + 1)' /\ sent'[l + 1].thread = t /\ l + 1 \in Gone + 1..l + 1
          BY <1>1, <1>2, <1>3, <1>6, <2>1, <3>1
        <4> QED
          BY <3>1, <4>1
      <3>2. CASE u # t
        <4>1. PICK i \in Gone + 1..l : sent[i].thread = u /\ Open(i)
          BY <1>3, <2>1, <3>2 DEF LogInv, OpenInv
        <4> QED
          BY <1>2, <1>5, <1>7, <4>1
      <3> QED
        BY <3>1, <3>2
    <2>2. ASSUME NEW i \in 1..l + 1, Open(i)'
          PROVE  ~sent'[i].discarded
      <3>1. CASE i = l + 1
        BY <1>2, <3>1
      <3>2. CASE i # l + 1
        <4>1. i \in 1..l
          BY <3>2
        <4> QED
          BY <1>2, <1>5, <2>2, <4>1 DEF LogInv, OpenInv
      <3> QED
        BY <3>1, <3>2
    <2> QED
      BY <1>2, <2>1, <2>2 DEF OpenInv
  <1>9. InOrder' /\ AsLogged'
    <2>1. \A i \in 1..Gone : i \in 1..l
      BY <1>1
    <2>2. {i \in 1..Gone : ~sent'[i].discarded} = {i \in 1..Gone : ~sent[i].discarded}
      BY <1>2, <2>1
    <2>3. InOrder'
      BY <2>2, OrderSame DEF LogInv
    <2>4. \A j \in 1..Len(handled) : handled[j].id \in 1..Gone
      BY DEF LogInv, InOrder
    <2> QED
      BY <1>2, <2>1, <2>3, <2>4 DEF LogInv, AsLogged
  <1>10. ASSUME NEW u \in Threads
         PROVE  /\ u # t \/ m.kind # "line" => Lines(u)' = Lines(u)
                /\ u # t => Held(u)' = Held(u)
                /\ u = t => Held(u)' = Lines(u) /\ Held(u) = Lines(u)
    <2>1. Lines(u)' = {i \in Gone + 1..l + 1 : sent'[i].kind = "line" /\ sent'[i].thread = u}
      BY <1>2 DEF Lines
    <2>2. \A i \in Gone + 1..l + 1 : i \in Gone + 1..l \/ i = l + 1
      BY <1>1
    <2>3. \A i \in Gone + 1..l : sent'[i] = sent[i] /\ (Open(i)' <=> Open(i))
      BY <1>2, <1>5, <1>7
    <2>4. Lines(u) = {i \in Gone + 1..l : sent[i].kind = "line" /\ sent[i].thread = u}
      BY DEF Lines
    <2>5. u # t \/ m.kind # "line" => Lines(u)' = Lines(u)
      BY <1>2, <1>7, <2>1, <2>2, <2>3, <2>4
    <2>6. ASSUME u # t
          PROVE  Held(u)' = Held(u)
      <3>1. \A i \in Lines(u) : Open(i)' <=> Open(i)
        BY <2>3, <2>4
      <3> QED
        BY <1>3, <2>5, <2>6, <3>1 DEF Held
    <2>7. ASSUME u = t
          PROVE  Held(u)' = Lines(u) /\ Held(u) = Lines(u)
      <3>1. \A i \in Lines(u) : ~Open(i) /\ i \in Gone + 1..l
        BY <2>4, <2>7 DEF Open
      <3>2. Held(u) = Lines(u)
        BY <2>7 DEF Held, Working
      <3>3. CASE m.kind # "line"
        <4>1. loc'[u] # "reserved" /\ Lines(u)' = Lines(u)
          BY <1>3, <2>5, <2>7, <3>3 DEF Working
        <4> QED
          BY <3>2, <4>1 DEF Held
      <3>4. CASE m.kind = "line"
        <4>1. Lines(u)' = Lines(u) \cup {l + 1}
          BY <1>1, <1>2, <1>7, <2>1, <2>2, <2>3, <2>4, <2>7, <3>4
        <4>2. l + 1 \notin Lines(u)
          BY <1>1, <2>4
        <4>3. \A i \in Lines(u) : ~Open(i)'
          BY <2>3, <3>1
        <4>4. Open(l + 1)' /\ loc'[u] = "reserved"
          BY <1>3, <1>6, <2>7, <3>4
        <4>5. Held(u)' = {i \in Lines(u)' : ~Open(i)'}
          BY <4>4 DEF Held
        <4> QED
          BY <3>2, <4>1, <4>2, <4>3, <4>4, <4>5
      <3> QED
        BY <3>2, <3>3, <3>4
    <2> QED
      BY <2>5, <2>6, <2>7
  <1> QED
    BY <1>1, <1>2, <1>5, <1>6, <1>8, <1>9, <1>10

\* A line for which there is room.
LEMMA zlogQueued ==
    ASSUME LogInv, NEW t \in Threads, NEW words \in MsgSizes, NEW fails \in BOOLEAN, zlog(t, words, fails)
    PROVE  conf.en /\ ~fails /\ ~logc.exit /\ HasRoom(logc.queue, words) => LogInv'
  <1>0. SUFFICES ASSUME conf.en /\ ~fails /\ ~logc.exit /\ HasRoom(logc.queue, words)
                 PROVE  LogInv'
    OBVIOUS
  <1>m. PICK m : m = [kind |-> "line", thread |-> t, at |-> logc.queue.in, words |-> words + HeadSize,
                       conf |-> rules, mdc |-> th[t].mdc, discarded |-> FALSE]
    OBVIOUS
  <1>a. PICK l \in Nat : l = Len(sent)
    BY GoneFacts DEF LogInv
  <1>1. /\ loc[t] = "idle" /\ CanRead /\ is_init /\ rules # NoConf
        /\ UNCHANGED <<envVars, broken, taken, handled, reloads>>
        /\ logc' = [logc EXCEPT !.queue = fifo_reserve(@, words, l + 1)]
        /\ sent' = Append(sent, m)
        /\ loc' = [loc EXCEPT ![t] = "reserved"]
    BY <1>0, <1>a, <1>m DEF zlog, Enqueue, Goto
  <1>2. /\ LogType /\ EnvLockInv /\ ConfInv /\ QueueInv /\ OpenInv /\ AsNow
        /\ \A u \in Threads : ContextInv(u)
    BY DEF LogInv
  <1>3. PICK x \in ThType :
               /\ th' = [th EXCEPT ![t] = x]
               /\ x.version <= version /\ x.mem # "freed" /\ (x.mem = "none" => ~x.mdc)
               /\ is_init /\ x.mem = "live" /\ x.version = version => x.en = conf.en
               /\ Lines(t) # {} => x = th[t]
               /\ x.mem = "live" => x.ref >= Cardinality(Held(t)) + 1
               /\ x.mdc = th[t].mdc
               /\ ~fails => x.mem = "live" /\ x.version = version
    BY LogContext
  <1>4. \A u \in Threads : loc[u] \notin Writing
    BY <1>1 DEF CanRead
  <1>5. logc.pc # "none" /\ logc \in ConsumerType
    <2>1. logc.pc # "none"
      BY <1>0, <1>2, <1>4 DEF ConfInv, Writing
    <2> QED
      BY <1>2, <2>1, ConsumerThere
  <1>6. m \in MsgType /\ m.thread = t /\ m.discarded = FALSE /\ m.kind = "line"
        /\ m.at = logc.queue.in /\ m.words = words + HeadSize /\ m.conf = rules /\ m.mdc = th[t].mdc
    <2>1. words \in Nat
      BY LogEnvAssumption
    <2>2. words + HeadSize \in Nat \ {0}
      BY <2>1 DEF HeadSize
    <2>3. logc.queue.in \in Nat
      BY <1>5 DEF ConsumerType, FifoType
    <2>4. th[t].mdc \in BOOLEAN /\ rules \in ConfType
      BY <1>2 DEF LogType, ThType
    <2> QED
      BY <1>m, <2>2, <2>3, <2>4 DEF MsgType
  <1>7. PICK q : q = fifo_reserve(logc.queue, words, l + 1)
    OBVIOUS
  <1>8. q \in FifoType
    <2>1. words \in Nat /\ l + 1 \in Nat /\ logc.queue \in FifoType
      BY <1>5, LogEnvAssumption DEF ConsumerType
    <2>2. Reserved(logc.queue, q, words, l + 1)
      BY <1>7, <2>1, ReserveFacts
    <2> QED
      BY <2>2, Zenon DEF Reserved
  <1>9. /\ logc' \in ConsumerType /\ logc'.queue = q /\ logc'.pc = logc.pc /\ logc'.seen = logc.seen
        /\ logc'.stop = logc.stop /\ logc'.flushed = logc.flushed
    BY <1>1, <1>5, <1>7, <1>8 DEF ConsumerType
  <1>10. Gone' = Gone
    BY <1>1, <1>9 DEF Gone
  <1>11. /\ Len(sent') = l + 1 /\ sent'[l + 1] = m /\ sent' \in Seq(MsgType)
         /\ \A i \in 1..l : sent'[i] = sent[i] /\ (Open(i)' <=> Open(i))
         /\ Open(l + 1)'
         /\ Gone \in Nat /\ Gone <= l
         /\ OpenInv' /\ InOrder' /\ AsLogged'
         /\ \A u \in Threads : u # t => Lines(u)' = Lines(u) /\ Held(u)' = Held(u)
         /\ Held(t)' = Held(t)
    <2>1. PICK k \in Locs : loc' = [loc EXCEPT ![t] = k] /\ k = "reserved"
      BY <1>1 DEF Locs, Reading
    <2>2. loc[t] \notin Working /\ (k \in Working <=> m.kind = "line") /\ (k \in Working => k = "reserved")
      BY <1>1, <1>6, <2>1 DEF Working
    <2>3. m \in MsgType /\ m.thread = t /\ m.discarded = FALSE
      BY <1>6
    <2>4. sent' = Append(sent, m) /\ handled' = handled
      BY <1>1
    <2> QED
      <3>1. Len(sent') = l + 1
        BY <1>10, <1>a, <2>1, <2>2, <2>3, <2>4, AppendFacts
      <3>2. OpenInv'
        BY <1>10, <1>a, <2>1, <2>2, <2>3, <2>4, AppendFacts
      <3>3. \A i \in 1..l : sent'[i] = sent[i] /\ (Open(i)' <=> Open(i))
        BY <1>10, <1>a, <2>1, <2>2, <2>3, <2>4, AppendFacts
      <3>4. Open(l + 1)'
        BY <1>6, <1>10, <1>a, <2>1, <2>2, <2>3, <2>4, AppendFacts
      <3>5. Held(t)' = Held(t)
        BY <1>10, <1>a, <2>1, <2>2, <2>3, <2>4, AppendFacts
      <3>6. \A u \in Threads : u # t => Lines(u)' = Lines(u) /\ Held(u)' = Held(u)
        BY <1>10, <1>a, <2>1, <2>2, <2>3, <2>4, AppendFacts
      <3>7. InOrder' /\ AsLogged'
        BY <1>10, <1>a, <2>1, <2>2, <2>3, <2>4, AppendFacts
      <3>8. sent'[l + 1] = m /\ sent' \in Seq(MsgType)
        BY <1>2, <1>a, <2>3, <2>4 DEF LogType
      <3>9. Gone \in Nat /\ Gone <= l
        BY <1>2, <1>a, GoneFacts DEF QueueInv
      <3> QED
        BY <3>1, <3>2, <3>3, <3>4, <3>5, <3>6, <3>7, <3>8, <3>9
  <1>12. th \in [Threads -> ThType] /\ th' \in [Threads -> ThType] /\ th'[t] = x
         /\ \A u \in Threads : u # t => th'[u] = th[u]
    BY <1>2, <1>3 DEF LogType
  <1>13. loc'[t] = "reserved" /\ (\A u \in Threads : u # t => loc'[u] = loc[u])
    BY <1>1, <1>2 DEF LogType
  <1> USE DEF envVars
  <1>14. LogType'
    BY <1>1, <1>2, <1>9, <1>11, <1>12 DEF LogType, Locs, Reading
  <1>15. EnvLockInv'
    <2>1. loc[t] # "boot" /\ loc[t] # "start" /\ "reserved" \in Locs /\ "reserved" \notin Writing /\ "reserved" # "boot"
      BY <1>1 DEF Locs, Reading, Writing, Flushing, Exiting
    <2>2. loc[Main] # "boot"
      BY <1>1, <1>2, <2>1 DEF EnvLockInv
    <2>3. \A u \in Threads : loc'[u] \notin Writing /\ (loc'[u] = "boot" => loc[u] = "boot")
      BY <1>4, <1>13, <2>1
    <2> QED
      BY <1>2, <2>2, <2>3, SizeFacts DEF EnvLockInv
  <1>16. \A u \in Threads : loc'[u] \notin Writing
    BY <1>4, <1>13 DEF Writing, Flushing, Exiting
  <1>17. ConfInv'
    <2>1. newconf' = NoConf /\ conf'.en /\ (broken' \/ rules' \in {conf', newconf', NoConf}) /\ logc'.pc # "none"
      BY <1>0, <1>1, <1>2, <1>4, <1>5, <1>9 DEF ConfInv
    <2>2. \A u \in Threads : loc'[u] \notin Flushing \cup Exiting \cup {"update", "consumer", "swap", "fini"}
      BY <1>16 DEF Writing
    <2> QED
      BY <2>1, <2>2 DEF ConfInv, Writing
  <1>18. QueueInv'
    <2>1. \A u \in Threads : loc[u] \notin {"flushsig", "flushwait", "exitsig", "join"}
      BY <1>4 DEF Writing, Flushing, Exiting
    <2>2. \A u \in Threads : loc'[u] \notin {"flushsig", "flushwait", "exitsig", "join", "update", "swap", "fini"}
      BY <1>16 DEF Writing, Flushing, Exiting
    <2>3. /\ logc.seen => logc.pc = "drain"
          /\ ~logc.stop
          /\ logc.pc # "ended"
      BY <1>2, <1>5, <2>1 DEF QueueInv
    <2>4. \A i \in Gone + 1..l : sent[i].kind \notin {"flush", "exit"}
      BY <1>2, <1>a, <2>1 DEF QueueInv
    <2>5. \A i \in Gone + 1..l + 1 : sent'[i].kind \notin {"flush", "exit"}
      <3>1. \A i \in Gone + 1..l + 1 : i = l + 1 \/ (i \in Gone + 1..l /\ i \in 1..l)
        BY <1>11
      <3> QED
        BY <1>6, <1>11, <2>4, <3>1
    <2>6. Gone <= l + 1
      BY <1>11
    <2> QED
      BY <1>5, <1>9, <1>10, <1>11, <2>2, <2>3, <2>5, <2>6 DEF QueueInv
  <1>19. \E P \in [Nat -> Nat] : RingInv(P)'
    <2>1. words \in Nat
      BY LogEnvAssumption
    <2>2. logc'.queue = Put(logc.queue, words, l + 1, "RESERVED")
      BY <1>7, <1>9 DEF Put
    <2>3. Open(l + 1)' <=> "RESERVED" = "RESERVED"
      BY <1>6, <1>11
    <2>4. \A i \in 1..l : Open(i)' <=> Open(i)
      BY <1>11
    <2> QED
      BY <1>0, <1>1, <1>5, <1>6, <1>a, <2>1, <2>2, <2>3, <2>4, PutRing
  <1>20. \A u \in Threads : ContextInv(u)'
    <2>1. ContextInv(t)'
      <3>1. x.mem = "live" /\ x.version = version /\ x.en /\ x.ref >= Cardinality(Held(t)) + 1
        BY <1>0, <1>1, <1>3
      <3>2. Cardinality(Held(t)') = Cardinality(Held(t)) /\ version' = version
        BY <1>1, <1>11
      <3>3. x.version <= version
        BY <1>3
      <3> QED
        BY <1>0, <1>1, <1>12, <1>13, <3>1, <3>2, <3>3 DEF ContextInv
    <2>2. ASSUME NEW u \in Threads, u # t
          PROVE  ContextInv(u)'
      <3>1. Lines(u)' = Lines(u) /\ Held(u)' = Held(u)
        BY <1>11, <2>2
      <3> QED
        BY <1>1, <1>2, <1>12, <1>13, <2>2, <3>1, ContextSame
    <2> QED
      BY <2>1, <2>2
  <1>21. AsNow'
    <2>1. \A i \in Gone + 1..l + 1 : i = l + 1 \/ (i \in Gone + 1..l /\ i \in 1..l)
      BY <1>11
    <2>2. \A u \in Threads : th'[u].mdc = th[u].mdc
      BY <1>3, <1>12
    <2>3. \A i \in 1..l : sent[i].thread \in Threads
      BY <1>2, <1>a, MsgFacts DEF LogType
    <2>4. ASSUME NEW i \in Gone + 1..l + 1, sent'[i].kind = "line"
          PROVE  sent'[i].conf = rules /\ sent'[i].mdc = th'[sent'[i].thread].mdc
      <3>1. CASE i = l + 1
        BY <1>6, <1>11, <2>2, <3>1
      <3>2. CASE i # l + 1
        <4>1. i \in Gone + 1..l /\ sent'[i] = sent[i] /\ sent[i].thread \in Threads
          BY <1>11, <2>1, <2>3, <3>2
        <4>2. sent[i].conf = rules /\ sent[i].mdc = th[sent[i].thread].mdc
          BY <1>2, <1>a, <2>4, <4>1 DEF AsNow
        <4> QED
          BY <2>2, <4>1, <4>2
      <3> QED
        BY <3>1, <3>2
    <2> QED
      BY <1>1, <1>10, <1>11, <2>4 DEF AsNow
  <1> QED
    BY <1>5, <1>9, <1>11, <1>14, <1>15, <1>17, <1>18, <1>19, <1>20, <1>21 DEF LogInv

LEMMA zlogStep ==
    ASSUME LogInv, NEW t \in Threads, NEW words \in MsgSizes, NEW fails \in BOOLEAN, zlog(t, words, fails)
    PROVE  LogInv'
  <1>1. CASE conf.en /\ ~fails /\ ~logc.exit /\ HasRoom(logc.queue, words)
    BY <1>1, zlogQueued
  <1>2. CASE ~(conf.en /\ ~fails /\ ~logc.exit /\ HasRoom(logc.queue, words))
    <2>1. UNCHANGED <<logc, sent>> /\ loc' = [loc EXCEPT ![t] = IF fails THEN "idle" ELSE "leave"]
      BY <1>2 DEF zlog, Goto
    <2>2. PICK l \in {"idle", "leave"} : loc' = [loc EXCEPT ![t] = l]
      BY <2>1
    <2> QED
      BY <2>1, <2>2, zlogOther, ZenonT(40)
  <1> QED
    BY <1>1, <1>2

\* A flush or an exit is put into the queue, with the lock held for writing.
LEMMA EnqueueCmdStep ==
    ASSUME LogInv, NEW t \in Threads, NEW kind \in {"flush", "exit"}, NEW k \in Locs,
           EnqueueCmd(t, kind), loc[t] = kind, k = (IF kind = "flush" THEN "flushsig" ELSE "exitsig"),
           loc' = [loc EXCEPT ![t] = k], UNCHANGED <<envVars, th, broken, taken, handled, boundVars>>
    PROVE  LogInv'
  <1>m. PICK m : m = [kind |-> kind, thread |-> t, at |-> logc.queue.in, words |-> CmdSize + HeadSize,
                      conf |-> rules, mdc |-> FALSE, discarded |-> FALSE]
    OBVIOUS
  <1>a. PICK l \in Nat : l = Len(sent)
    BY GoneFacts DEF LogInv
  <1>2. /\ LogType /\ EnvLockInv /\ ConfInv /\ QueueInv /\ OpenInv /\ AsNow
        /\ \A u \in Threads : ContextInv(u)
    BY DEF LogInv
  <1>4. loc[t] \in Writing /\ loc[t] \notin Working /\ k \in Writing /\ k \notin Working
    BY DEF Writing, Flushing, Exiting, Working
  <1>5. logc.pc # "none" /\ logc \in ConsumerType
    BY Inside_Finds DEF Flushing, Exiting
  <1>6. m \in MsgType /\ m.thread = t /\ m.discarded = FALSE /\ m.kind = kind
        /\ m.at = logc.queue.in /\ m.words = CmdSize + HeadSize /\ m.kind # "line"
    <2>1. CmdSize + HeadSize \in Nat \ {0}
      BY DEF HeadSize, CmdSize
    <2>2. logc.queue.in \in Nat
      BY <1>5 DEF ConsumerType, FifoType
    <2>3. rules \in ConfType
      BY <1>2 DEF LogType
    <2> QED
      BY <1>m, <2>1, <2>2, <2>3 DEF MsgType
  <1>1. /\ HasRoom(logc.queue, CmdSize) /\ sent' = Append(sent, m)
        /\ logc' = [logc EXCEPT !.queue = Put(@, CmdSize, l + 1, "COMMITED"), !.exit = @ \/ kind = "exit",
                                !.flushed = IF kind = "flush" THEN FALSE ELSE @]
    BY <1>a, <1>m DEF EnqueueCmd, Put
  <1>7. PICK q : q = Put(logc.queue, CmdSize, l + 1, "COMMITED")
    OBVIOUS
  <1>8. q \in FifoType
    <2>1. CmdSize \in Nat /\ l + 1 \in Nat /\ logc.queue \in FifoType
      BY <1>5 DEF ConsumerType, CmdSize
    <2>2. PICK mark \in {"RESERVED", "COMMITED"} : mark = "COMMITED"
      OBVIOUS
    <2>3. q = Put(logc.queue, CmdSize, l + 1, mark)
      BY <1>7, <2>2
    <2>4. HasPut(logc.queue, q, CmdSize, l + 1, mark)
      BY <2>1, <2>3, PutFacts
    <2> QED
      BY <2>4, Zenon DEF HasPut
  <1>9. /\ logc' \in ConsumerType /\ logc'.queue = q /\ logc'.pc = logc.pc /\ logc'.seen = logc.seen
        /\ logc'.stop = logc.stop
        /\ kind = "flush" => ~logc'.flushed
    <2>1. PICK e \in BOOLEAN, d \in BOOLEAN : /\ e <=> logc.exit \/ kind = "exit"
                                              /\ d <=> kind # "flush" /\ logc.flushed
      OBVIOUS
    <2>2. logc' = [logc EXCEPT !.queue = q, !.exit = e, !.flushed = d]
      BY <1>1, <1>5, <1>7, <2>1 DEF ConsumerType
    <2> QED
      BY <1>5, <1>8, <2>1, <2>2 DEF ConsumerType
  <1>10. Gone' = Gone
    BY <1>9 DEF Gone
  <1>11. /\ Len(sent') = l + 1 /\ sent'[l + 1] = m /\ sent' \in Seq(MsgType)
         /\ \A i \in 1..l : sent'[i] = sent[i] /\ (Open(i)' <=> Open(i))
         /\ ~Open(l + 1)'
         /\ Gone \in Nat /\ Gone <= l
         /\ OpenInv' /\ InOrder' /\ AsLogged'
         /\ \A u \in Threads : Lines(u)' = Lines(u) /\ Held(u)' = Held(u)
    <2>2. (k \in Working <=> m.kind = "line") /\ (k \in Working => k = "reserved")
      BY <1>4, <1>6
    <2>3. m \in MsgType /\ m.thread = t /\ m.discarded = FALSE
      BY <1>6
    <2>4. sent' = Append(sent, m) /\ handled' = handled
      BY <1>1
    <2>5. Len(sent') = l + 1
      BY <1>4, <1>10, <1>a, <2>2, <2>3, <2>4, AppendFacts
    <2>6. OpenInv'
      BY <1>4, <1>10, <1>a, <2>2, <2>3, <2>4, AppendFacts
    <2>7. \A i \in 1..l : sent'[i] = sent[i] /\ (Open(i)' <=> Open(i))
      BY <1>4, <1>10, <1>a, <2>2, <2>3, <2>4, AppendFacts
    <2>8. ~Open(l + 1)'
      BY <1>4, <1>10, <1>a, <2>2, <2>3, <2>4, AppendFacts
    <2>9. \A u \in Threads : Lines(u)' = Lines(u) /\ Held(u)' = Held(u)
      <3>1. \A u \in Threads : u # t => Lines(u)' = Lines(u) /\ Held(u)' = Held(u)
        BY <1>4, <1>10, <1>a, <2>2, <2>3, <2>4, AppendFacts
      <3>2. Held(t)' = Held(t)
        BY <1>4, <1>10, <1>a, <2>2, <2>3, <2>4, AppendFacts
      <3>3. Lines(t)' = Lines(t)
        BY <1>4, <1>10, <1>a, <2>2, <2>3, <2>4, AppendFacts
      <3> QED
        BY <3>1, <3>2, <3>3
    <2>10. InOrder' /\ AsLogged'
      BY <1>4, <1>10, <1>a, <2>2, <2>3, <2>4, AppendFacts
    <2>11. sent'[l + 1] = m /\ sent' \in Seq(MsgType)
      BY <1>2, <1>a, <2>3, <2>4 DEF LogType
    <2>12. Gone \in Nat /\ Gone <= l
      BY <1>2, <1>a, GoneFacts DEF QueueInv
    <2> QED
      BY <2>5, <2>6, <2>7, <2>8, <2>9, <2>10, <2>11, <2>12
  <1>13. loc'[t] = k /\ (\A u \in Threads : u # t => loc'[u] = loc[u])
    BY <1>2 DEF LogType
  <1> USE DEF envVars, boundVars
  <1>14. LogType'
    BY <1>2, <1>9, <1>11 DEF LogType
  <1>15. EnvLockInv'
    <2>1. loc[t] # "boot" /\ loc[t] # "start" /\ k # "boot" /\ k \notin Reading
      BY <1>4 DEF Writing, Reading, Flushing, Exiting
    <2> QED
      BY <1>2, <1>4, <2>1, LockStep
  <1>16. \A u \in Threads : u # t => loc[u] \notin Writing /\ loc[u] \notin Reading
    BY <1>2, <1>4 DEF EnvLockInv
  <1>17. ConfInv'
    <2>1. logc'.pc # "none" /\ logc.pc # "none"
      BY <1>5, <1>9
    <2>2. \A u \in Threads : u # t => loc'[u] \notin Writing /\ loc'[u] \notin Reading
      BY <1>13, <1>16
    <2>3. conf.en /\ conf'.en /\ (\A u \in Threads : loc[u] \in Flushing => newconf # NoConf)
      BY <1>2, Inside_Finds DEF ConfInv, Flushing, Exiting
    <2>4. k \notin {"update", "consumer", "swap", "fini"} /\ (k \in Flushing => loc[t] \in Flushing)
          /\ (k \in Exiting => loc[t] \in Exiting)
      BY DEF Flushing, Exiting
    <2>5. broken \/ rules \in {conf, newconf, NoConf}
      BY <1>2 DEF ConfInv
    <2>6. loc[t] \in Exiting /\ newconf # NoConf => broken \/ rules = newconf
      BY <1>2 DEF ConfInv
    <2>7. \A u \in Threads : loc'[u] \in Working \cup {"signal"} \cup Flushing \cup Exiting
                                        \cup {"update", "consumer", "swap", "fini"} => u = t
      BY <2>2 DEF Working, Writing, Reading
    <2>8. loc'[t] \in Writing
      BY <1>4, <1>13
    <2>9. \A u \in Threads : loc'[u] \notin {"update", "consumer", "swap", "fini"}
      BY <1>13, <2>4, <2>7
    <2> QED
      BY <1>13, <2>1, <2>3, <2>4, <2>5, <2>6, <2>7, <2>8, <2>9 DEF ConfInv
  <1>18. QueueInv'
    <2>1. \A u \in Threads : loc[u] \notin {"flushsig", "flushwait", "exitsig", "join"}
      BY <1>16 DEF Writing, Flushing, Exiting
    <2>2. \A u \in Threads : u # t => loc'[u] \notin {"flushsig", "flushwait", "exitsig", "join", "update", "swap", "fini"}
      BY <1>13, <1>16 DEF Writing, Flushing, Exiting
    <2>3. /\ logc.seen => logc.pc = "drain"
          /\ ~logc.stop
          /\ logc.pc # "ended"
      BY <1>2, <1>5, <2>1 DEF QueueInv
    <2>4. \A i \in Gone + 1..l : sent[i].kind \notin {"flush", "exit"}
      BY <1>2, <1>a, <2>1 DEF QueueInv
    <2>5. \A i \in Gone + 1..l + 1 : sent'[i].kind \in {"flush", "exit"} => i = l + 1 /\ sent'[i].kind = kind
      <3>1. \A i \in Gone + 1..l + 1 : i = l + 1 \/ (i \in Gone + 1..l /\ i \in 1..l)
        BY <1>11
      <3> QED
        BY <1>6, <1>11, <2>4, <3>1
    <2>6. Gone <= l + 1
      BY <1>11
    <2>7. /\ kind = "flush" => loc'[t] = "flushsig" /\ ~logc'.flushed
          /\ kind = "exit" => loc'[t] = "exitsig"
      BY <1>9, <1>13
    <2>8. \A u \in Threads : /\ loc'[u] \in {"flushsig", "flushwait"} => ~logc'.flushed
                             /\ loc'[u] \notin {"update", "swap", "fini"}
      BY <1>13, <2>2, <2>7
    <2> QED
      BY <1>5, <1>9, <1>10, <1>11, <2>3, <2>5, <2>6, <2>7, <2>8 DEF QueueInv
  <1>19. \E P \in [Nat -> Nat] : RingInv(P)'
    <2>1. PICK words \in Nat, mark \in {"RESERVED", "COMMITED"} : words = CmdSize /\ mark = "COMMITED"
      BY DEF CmdSize
    <2>2. logc'.queue = Put(logc.queue, words, l + 1, mark)
      BY <1>7, <1>9, <2>1
    <2>3. Open(l + 1)' <=> mark = "RESERVED"
      BY <1>11, <2>1
    <2>4. \A i \in 1..l : Open(i)' <=> Open(i)
      BY <1>11
    <2>5. m.at = logc.queue.in /\ m.words = words + HeadSize /\ m.discarded = FALSE /\ m \in MsgType
      BY <1>6, <2>1
    <2>6. HasRoom(logc.queue, words) /\ sent' = Append(sent, m)
      BY <1>1, <2>1
    <2> QED
      BY <1>5, <1>a, <2>2, <2>3, <2>4, <2>5, <2>6, PutRing
  <1>20. \A u \in Threads : ContextInv(u)'
    <2>1. \A u \in Threads : /\ loc'[u] = "start" => loc[u] = "start"
                             /\ loc'[u] = "ended" <=> loc[u] = "ended"
      BY <1>13
    <2> QED
      BY <1>2, <1>11, <2>1, ContextSame
  <1>21. AsNow'
    <2>1. \A i \in Gone + 1..l + 1 : i = l + 1 \/ (i \in Gone + 1..l /\ i \in 1..l)
      BY <1>11
    <2>4. ASSUME NEW i \in Gone + 1..l + 1, sent'[i].kind = "line"
          PROVE  sent'[i].conf = rules /\ sent'[i].mdc = th[sent'[i].thread].mdc
      <3>1. i \in Gone + 1..l /\ sent'[i] = sent[i]
        BY <1>6, <1>11, <2>1, <2>4
      <3> QED
        BY <1>2, <1>a, <2>4, <3>1 DEF AsNow
    <2> QED
      BY <1>10, <1>11, <2>4 DEF AsNow
  <1> QED
    BY <1>5, <1>9, <1>11, <1>14, <1>15, <1>17, <1>18, <1>19, <1>20, <1>21 DEF LogInv

LEMMA log_consumer_queue_flushStep ==
    ASSUME LogInv, NEW t \in Threads, log_consumer_queue_flush(t)
    PROVE  LogInv'
  <1>1. PICK k \in Locs, kind \in {"flush", "exit"} : k = "flushsig" /\ kind = "flush"
    BY DEF Locs, Writing, Flushing
  <1>2. k = (IF kind = "flush" THEN "flushsig" ELSE "exitsig") /\ EnqueueCmd(t, kind) /\ loc[t] = kind
    BY <1>1 DEF log_consumer_queue_flush
  <1>3. loc' = [loc EXCEPT ![t] = k] /\ UNCHANGED <<envVars, th, broken, taken, handled, boundVars>>
    BY <1>1 DEF log_consumer_queue_flush, Goto
  <1> QED
    BY <1>2, <1>3, EnqueueCmdStep

LEMMA enque_event_exitStep ==
    ASSUME LogInv, NEW t \in Threads, enque_event_exit(t)
    PROVE  LogInv'
  <1>1. PICK k \in Locs, kind \in {"flush", "exit"} : k = "exitsig" /\ kind = "exit"
    BY DEF Locs, Writing, Exiting
  <1>2. k = (IF kind = "flush" THEN "flushsig" ELSE "exitsig") /\ EnqueueCmd(t, kind) /\ loc[t] = kind
    BY <1>1 DEF enque_event_exit
  <1>3. loc' = [loc EXCEPT ![t] = k] /\ UNCHANGED <<envVars, th, broken, taken, handled, boundVars>>
    BY <1>1 DEF enque_event_exit, Goto
  <1> QED
    BY <1>2, <1>3, EnqueueCmdStep

-----------------------------------------------------------------------------
(* The consumer takes a message. *)

\* The index out leads to the message after the last that was taken.
LEMMA FirstCell ==
    ASSUME LogInv, logc.pc # "none", NEW n \in Nat, n = taken + 1
    PROVE  /\ taken = Len(sent) => Empty(logc.queue)
           /\ taken < Len(sent) =>
                logc.queue.data[logc.queue.out % logc.queue.size] =
                    [id |-> n, size |-> sent[n].words,
                     flags |-> IF Open(n) THEN "RESERVED" ELSE IF sent[n].discarded THEN "DISCARDED" ELSE "COMMITED"]
  <1>1. taken \in Nat /\ Len(sent) \in Nat /\ logc.queue.size = FifoSize
    BY GoneFacts, ConsumerThere DEF LogInv, ConsumerType, FifoType
  <1>2. PICK P : P \in [Nat -> Nat] /\ RingInv(P)
    BY DEF LogInv
  <1>3. /\ logc.queue.out = P[taken + 1] % Word
        /\ logc.queue.in = P[Len(sent) + 1] % Word
        /\ n \in InQueue => logc.queue.data[P[n] % FifoSize] =
                    [id |-> n, size |-> sent[n].words,
                     flags |-> IF Open(n) THEN "RESERVED" ELSE IF sent[n].discarded THEN "DISCARDED" ELSE "COMMITED"]
    BY <1>2, Zenon DEF RingInv
  <1>4. taken = Len(sent) => Empty(logc.queue)
    BY <1>3 DEF Empty
  <1>5. taken < Len(sent) => n \in InQueue
    BY <1>1 DEF InQueue
  <1>6. (P[n] % Word) % FifoSize = P[n] % FifoSize
    <2>1. PICK a \in Nat : a = P[n]
      BY <1>2
    <2> QED
      BY <2>1, CellOf
  <1>7. logc.queue.out % logc.queue.size = P[n] % FifoSize
    BY <1>1, <1>3, <1>6
  <1> QED
    BY <1>3, <1>4, <1>5, <1>7

\* What the consumer finds at the head of the queue, and what it does with it.
LEMMA HeadFacts ==
    ASSUME LogInv, handle_log
    PROVE  \E n \in Nat, d \in BOOLEAN :
             /\ n = taken + 1 /\ n \in 1..Len(sent) /\ Gone = taken /\ Gone' = n /\ ~Open(n)
             /\ d = sent[n].discarded
             /\ logc \in ConsumerType /\ logc' \in ConsumerType /\ logc.pc = "drain" /\ logc'.pc = "drain"
             /\ logc'.queue = logc.queue
             /\ logc'.stop => sent[n].kind = "exit"
             /\ logc'.flushed => logc.flushed \/ sent[n].kind = "flush"
             /\ d => UNCHANGED <<handled, th>>
             /\ ~d => /\ handled' = Append(handled, [id |-> n, conf |-> rules, mdc |-> th[sent[n].thread].mdc])
                      /\ th' = IF sent[n].kind = "line" THEN [th EXCEPT ![sent[n].thread] = Deleted(@)] ELSE th
  <1>1. LogType /\ logc.pc = "drain" /\ ~logc.seen /\ logc.pending > 0 /\ logc \in ConsumerType
    BY ConsumerThere DEF handle_log, LogInv
  <1>2. Gone = taken /\ Gone \in Nat /\ Len(sent) \in Nat /\ Gone <= Len(sent)
    BY <1>1, GoneFacts DEF LogInv, QueueInv
  <1>3. PICK n \in Nat : n = taken + 1
    BY <1>2
  <1>4. PICK head : head = fifo_peek(logc.queue)
    OBVIOUS
  <1>5. head # NoHead /\ head.flags # "RESERVED"
    BY <1>4 DEF handle_log, Ready
  <1>6. ~Empty(logc.queue)
    BY <1>4, <1>5 DEF fifo_peek
  <1>7. taken < Len(sent) /\ n \in 1..Len(sent)
    <2>1. logc.pc # "none"
      BY <1>1
    <2>2. taken = Len(sent) => Empty(logc.queue)
      BY <1>3, <2>1, FirstCell
    <2> QED
      BY <1>2, <1>3, <1>6, <2>2
  <1>8. head = [id |-> n, size |-> sent[n].words,
                flags |-> IF Open(n) THEN "RESERVED" ELSE IF sent[n].discarded THEN "DISCARDED" ELSE "COMMITED"]
    BY <1>1, <1>3, <1>4, <1>6, <1>7, FirstCell DEF fifo_peek
  <1>9. ~Open(n) /\ head.id = n
    BY <1>5, <1>8
  <1>10. PICK d \in BOOLEAN : d = sent[n].discarded
    BY <1>1, <1>7, MsgFacts DEF LogType
  <1>11. head.flags = "DISCARDED" <=> d
    BY <1>8, <1>9, <1>10
  <1>12. PICK s \in BOOLEAN, f \in BOOLEAN :
            /\ s <=> ~d /\ sent[n].kind = "exit"
            /\ f <=> logc.flushed \/ (~d /\ sent[n].kind = "flush")
    OBVIOUS
  <1>13. PICK p \in Nat, r \in Nat : p = logc.pending - 1 /\ r = (logc.recv + 1) % Word
    <2>1. logc.pending \in Nat /\ logc.recv \in Nat
      BY <1>1 DEF ConsumerType
    <2>2. PICK x \in Int : x = logc.recv + 1
      BY <2>1
    <2>3. x % Word \in Nat
      BY SizeFacts, DivMod
    <2> QED
      BY <1>1, <2>1, <2>2, <2>3
  <1>14. logc' = [logc EXCEPT !.pending = p, !.recv = r, !.seen = TRUE, !.stop = s, !.flushed = f]
    <2>1. logc' = [logc EXCEPT !.pending = @ - 1, !.recv = (@ + 1) % Word, !.seen = TRUE,
                                !.stop = head.flags # "DISCARDED" /\ sent[head.id].kind = "exit",
                                !.flushed = @ \/ (head.flags # "DISCARDED" /\ sent[head.id].kind = "flush")]
      BY <1>4 DEF handle_log
    <2>2. s = (head.flags # "DISCARDED" /\ sent[head.id].kind = "exit")
      BY <1>9, <1>11, <1>12
    <2>3. f = (logc.flushed \/ (head.flags # "DISCARDED" /\ sent[head.id].kind = "flush"))
      BY <1>9, <1>11, <1>12
    <2> QED
      BY <1>1, <1>13, <2>1, <2>2, <2>3 DEF ConsumerType
  <1>15. /\ logc' \in ConsumerType /\ logc'.pc = "drain" /\ logc'.queue = logc.queue /\ logc'.seen
         /\ logc'.stop = s /\ logc'.flushed = f
    BY <1>1, <1>13, <1>14 DEF ConsumerType
  <1>16. Gone' = n
    BY <1>2, <1>3, <1>15 DEF handle_log, Gone
  <1>17. /\ d => UNCHANGED <<handled, th>>
         /\ ~d => /\ handled' = Append(handled, [id |-> n, conf |-> rules, mdc |-> th[sent[n].thread].mdc])
                  /\ th' = IF sent[n].kind = "line" THEN [th EXCEPT ![sent[n].thread] = Deleted(@)] ELSE th
    BY <1>4, <1>9, <1>11 DEF handle_log
  <1> QED
    BY <1>1, <1>2, <1>3, <1>7, <1>9, <1>10, <1>12, <1>15, <1>16, <1>17

\* A context after one of its references is dropped.
LEMMA DeletedFacts ==
    ASSUME NEW a \in ThType, a.mem = "live", a.en, NEW c \in Nat, a.ref >= c + 1, NEW x, x = Deleted(a)
    PROVE  /\ x \in ThType /\ x.version = a.version /\ x.mdc = a.mdc /\ x.en = a.en
           /\ x.mem = "live" => x.ref >= c
           /\ x.mem \in {"live", "freed"}
           /\ x.mem = "freed" => c = 0
  <1>1. a.ref \in Nat
    BY DEF ThType
  <1>2. CASE a.ref > 1
    <2>1. PICK r \in Nat : r = a.ref - 1 /\ r >= c
      BY <1>1, <1>2
    <2>2. x = [a EXCEPT !.ref = r]
      BY <1>2, <2>1 DEF Deleted
    <2> QED
      BY <2>1, <2>2 DEF ThType
  <1>3. CASE ~(a.ref > 1)
    <2>1. x = [a EXCEPT !.mem = "freed", !.ref = 0]
      BY <1>3 DEF Deleted
    <2>2. c = 0
      BY <1>1, <1>3
    <2>a. PICK y \in ThType : y = [a EXCEPT !.mem = "freed", !.ref = 0]
      BY DEF ThType
    <2>3. x \in ThType /\ x.version = a.version /\ x.mdc = a.mdc /\ x.en = a.en /\ x.mem = "freed"
      BY <2>1, <2>a DEF ThType
    <2> QED
      BY <2>2, <2>3
  <1> QED
    BY <1>2, <1>3

LEMMA handle_logStep ==
    ASSUME LogInv, handle_log
    PROVE  LogInv'
  <1>1. PICK n \in Nat, d \in BOOLEAN :
             /\ n = taken + 1 /\ n \in 1..Len(sent) /\ Gone = taken /\ Gone' = n /\ ~Open(n)
             /\ d = sent[n].discarded
             /\ logc \in ConsumerType /\ logc' \in ConsumerType /\ logc.pc = "drain" /\ logc'.pc = "drain"
             /\ logc'.queue = logc.queue
             /\ logc'.stop => sent[n].kind = "exit"
             /\ logc'.flushed => logc.flushed \/ sent[n].kind = "flush"
             /\ d => UNCHANGED <<handled, th>>
             /\ ~d => /\ handled' = Append(handled, [id |-> n, conf |-> rules, mdc |-> th[sent[n].thread].mdc])
                      /\ th' = IF sent[n].kind = "line" THEN [th EXCEPT ![sent[n].thread] = Deleted(@)] ELSE th
    BY HeadFacts, Zenon
  <1>2. /\ LogType /\ EnvLockInv /\ ConfInv /\ QueueInv /\ OpenInv /\ AsNow /\ InOrder /\ AsLogged
        /\ \A u \in Threads : ContextInv(u)
    BY DEF LogInv
  <1>3. UNCHANGED <<envVars, loc, broken, boundVars, sent, taken>>
    BY DEF handle_log, consumerOnly
  <1> USE DEF envVars, boundVars
  <1>4. PICK m \in MsgType : /\ m = sent[n] /\ m.thread \in Threads /\ m.conf \in ConfType /\ m.mdc \in BOOLEAN
                             /\ m.kind \in {"line", "flush", "exit"}
    BY <1>1, <1>2, MsgFacts DEF LogType
  <1>5. taken \in Nat /\ Len(sent) \in Nat /\ n <= Len(sent) /\ n \in Gone + 1..Len(sent)
        /\ \A i \in Gone + 1..Len(sent) : i \in n + 1..Len(sent) \/ i = n
    BY <1>1, <1>2, GoneFacts
  <1>6. \A i \in n + 1..Len(sent) : i \in Gone + 1..Len(sent) /\ i # n /\ i \in 1..Len(sent)
    BY <1>1, <1>5
  <1>7. \A i \in 1..Len(sent) : Open(i)' <=> Open(i)
    BY <1>3 DEF Open
  <1>8. \A u \in Threads : Lines(u)' = Lines(u) \ {n} /\ Held(u)' = Held(u) \ {n}
    <2> SUFFICES ASSUME NEW u \in Threads
                 PROVE  Lines(u)' = Lines(u) \ {n} /\ Held(u)' = Held(u) \ {n}
      OBVIOUS
    <2>1. Lines(u)' = {i \in n + 1..Len(sent) : sent[i].kind = "line" /\ sent[i].thread = u}
      BY <1>1, <1>3 DEF Lines
    <2>2. Lines(u)' = Lines(u) \ {n}
      BY <1>5, <1>6, <2>1 DEF Lines
    <2>3. \A i \in Lines(u)' : Open(i)' <=> Open(i)
      BY <1>6, <1>7, <2>1
    <2> QED
      BY <1>3, <2>2, <2>3 DEF Held
  <1>9. \/ th' = th /\ (d \/ m.kind # "line")
        \/ /\ ~d /\ m.kind = "line" /\ th' = [th EXCEPT ![m.thread] = Deleted(th[m.thread])]
    BY <1>1, <1>4
  <1>10. th \in [Threads -> ThType] /\ \A u \in Threads : th[u] \in ThType
    BY <1>2 DEF LogType
  <1>11. ASSUME ~d, m.kind = "line"
         PROVE  /\ Deleted(th[m.thread]) \in ThType /\ Deleted(th[m.thread]).mdc = th[m.thread].mdc
                /\ ContextInv(m.thread)'
    <2>1. PICK u \in Threads : u = m.thread
      BY <1>4
    <2>2. ContextInv(u) /\ th[u] \in ThType
      BY <1>2, <1>10
    <2>3. n \in Lines(u) /\ n \in Held(u)
      BY <1>1, <1>4, <1>5, <1>11, <2>1 DEF Lines, Held
    <2>4. IsFiniteSet(Held(u)) /\ Held(u) \subseteq Lines(u) /\ Cardinality(Held(u)) \in Nat
      BY <1>2, LinesFinite
    <2>5. PICK c \in Nat : c = Cardinality(Held(u)) - 1 /\ c = Cardinality(Held(u) \ {n}) /\ (c = 0 => Held(u) \ {n} = {})
      <3>1. IsFiniteSet(Held(u) \ {n}) /\ Cardinality(Held(u) \ {n}) = Cardinality(Held(u)) - 1
        BY <2>3, <2>4, FS_RemoveElement
      <3>2. Cardinality(Held(u) \ {n}) \in Nat /\ (Cardinality(Held(u) \ {n}) = 0 => Held(u) \ {n} = {})
        BY <3>1, FS_CardinalityType, FS_EmptySet
      <3> QED
        BY <3>1, <3>2
    <2>6. PICK e \in {0, 1} : e = IF loc[u] = "ended" THEN 0 ELSE 1
      OBVIOUS
    <2>7. th[u].mem = "live" /\ th[u].version = version /\ th[u].en /\ th[u].ref >= (c + 1) + e
      <3>1. Lines(u) # {}
        BY <2>3
      <3>2. th[u].mem = "live" /\ th[u].version = version /\ th[u].en
        BY <2>2, <3>1 DEF ContextInv
      <3>3. th[u].ref >= Cardinality(Held(u)) + e
        BY <2>2, <2>6, <3>2 DEF ContextInv
      <3> QED
        BY <2>4, <2>5, <3>2, <3>3
    <2>8. PICK b \in Nat : b = c + e
      OBVIOUS
    <2>9. th[u].ref >= b + 1
      BY <2>2, <2>7, <2>8 DEF ThType
    <2>10. PICK x : x = Deleted(th[u])
      OBVIOUS
    <2>a. PICK a \in ThType : a = th[u]
      BY <2>2
    <2>b. a.mem = "live" /\ a.en /\ a.ref >= b + 1 /\ x = Deleted(a)
      BY <2>7, <2>9, <2>10, <2>a
    <2>c. /\ x \in ThType /\ x.version = a.version /\ x.mdc = a.mdc /\ x.en = a.en
          /\ x.mem = "live" => x.ref >= b
          /\ x.mem \in {"live", "freed"}
          /\ x.mem = "freed" => b = 0
      BY <2>b, DeletedFacts, ZenonT(40)
    <2>11. /\ x \in ThType /\ x.version = th[u].version /\ x.mdc = th[u].mdc /\ x.en = th[u].en
           /\ x.mem = "live" => x.ref >= b
           /\ x.mem \in {"live", "freed"}
           /\ x.mem = "freed" => b = 0
      BY <2>a, <2>c, Zenon
    <2>12. th'[u] = x
      BY <1>9, <1>10, <1>11, <2>1, <2>10
    <2>13. Lines(u)' = Lines(u) \ {n} /\ Held(u)' = Held(u) \ {n}
      BY <1>8
    <2>14. x.mem = "freed" => loc[u] = "ended" /\ Lines(u)' = {}
      <3>1. ASSUME x.mem = "freed"
            PROVE  loc[u] = "ended" /\ Lines(u)' = {}
        <4>1. c = 0 /\ e = 0
          BY <2>8, <2>11, <3>1
        <4>a. loc[u] = "ended"
          BY <2>6, <4>1
        <4>2. loc[u] = "ended" /\ Held(u)' = {}
          BY <2>5, <2>13, <4>1, <4>a
        <4>3. Held(u) = Lines(u)
          BY <4>2 DEF Held
        <4> QED
          BY <2>13, <4>2, <4>3
      <3> QED
        BY <3>1
    <2>15. x.mem = "live" => x.ref >= Cardinality(Held(u)') + e
      BY <2>5, <2>8, <2>11, <2>13
    <2>16. loc[u] # "start"
      BY <2>2, <2>3 DEF ContextInv
    <2>17. ContextInv(u)'
      <3>1. th'[u].version <= version' /\ th'[u].mem # "none"
        BY <1>3, <2>2, <2>11, <2>12 DEF ContextInv
      <3>2. is_init' /\ th'[u].mem = "live" /\ th'[u].version = version' => th'[u].en = conf'.en
        BY <1>3, <2>2, <2>7, <2>11, <2>12 DEF ContextInv
      <3>3. Lines(u)' # {} => th'[u].mem = "live" /\ th'[u].version = version' /\ th'[u].en
        BY <1>3, <2>7, <2>11, <2>12, <2>14
      <3>4. th'[u].mem = "freed" => loc'[u] = "ended"
        BY <1>3, <2>12, <2>14
      <3>5. loc'[u] # "start"
        BY <1>3, <2>16
      <3>6. th'[u].mem = "live" => th'[u].ref >= Cardinality(Held(u)') + (IF loc'[u] = "ended" THEN 0 ELSE 1)
        BY <1>3, <2>6, <2>12, <2>15
      <3> QED
        BY <3>1, <3>2, <3>3, <3>4, <3>5, <3>6 DEF ContextInv
    <2> QED
      BY <2>1, <2>10, <2>11, <2>17
  <1>12. th' \in [Threads -> ThType] /\ \A u \in Threads : th'[u].mdc = th[u].mdc
    BY <1>4, <1>9, <1>10, <1>11
  <1>13. \A u \in Threads : ContextInv(u)'
    <2> SUFFICES ASSUME NEW u \in Threads
                 PROVE  ContextInv(u)'
      OBVIOUS
    <2>1. CASE ~d /\ m.kind = "line" /\ u = m.thread
      BY <1>11, <2>1
    <2>2. CASE ~(~d /\ m.kind = "line" /\ u = m.thread)
      <3>1. th'[u] = th[u] /\ ContextInv(u) /\ th[u] \in ThType
        BY <1>2, <1>9, <1>10, <2>2
      <3>2. Lines(u)' \subseteq Lines(u)
        BY <1>8
      <3>3. PICK a \in Nat, b \in Nat : a = Cardinality(Held(u)) /\ b = Cardinality(Held(u)') /\ b <= a
        <4>1. IsFiniteSet(Held(u)) /\ Cardinality(Held(u)) \in Nat
          BY <1>2, LinesFinite
        <4>2. Held(u)' \subseteq Held(u)
          BY <1>8
        <4>3. IsFiniteSet(Held(u)') /\ Cardinality(Held(u)') <= Cardinality(Held(u))
          BY <4>1, <4>2, FS_Subset
        <4>4. Cardinality(Held(u)') \in Nat
          BY <4>3, FS_CardinalityType
        <4> QED
          BY <4>1, <4>3, <4>4
      <3>4. th'[u].mem = "live" => th'[u].ref >= Cardinality(Held(u)') + (IF loc'[u] = "ended" THEN 0 ELSE 1)
        <4>1. PICK e \in {0, 1} : e = IF loc[u] = "ended" THEN 0 ELSE 1
          OBVIOUS
        <4>2. th[u].mem = "live" => th[u].ref >= a + e
          BY <3>1, <3>3, <4>1 DEF ContextInv
        <4>3. th[u].mem = "live" => th[u].ref >= b + e
          BY <3>1, <3>3, <4>2 DEF ThType
        <4> QED
          BY <1>3, <3>1, <3>3, <4>1, <4>3
      <3> QED
        BY <1>3, <3>1, <3>2, <3>4 DEF ContextInv
    <2> QED
      BY <2>1, <2>2
  <1>14. AsNow'
    <2>1. ASSUME NEW i \in n + 1..Len(sent), sent[i].kind = "line"
          PROVE  sent[i].conf = rules /\ sent[i].mdc = th'[sent[i].thread].mdc
      <3>1. i \in Gone + 1..Len(sent) /\ sent[i].thread \in Threads
        BY <1>2, <1>6, MsgFacts DEF LogType
      <3> QED
        BY <1>2, <1>12, <2>1, <3>1 DEF AsNow
    <2> QED
      BY <1>1, <1>3, <2>1 DEF AsNow
  <1>15. handled \in Seq([id : Nat, conf : ConfType, mdc : BOOLEAN])
    BY <1>2 DEF LogType
  <1>16. PICK h \in [id : Nat, conf : ConfType, mdc : BOOLEAN] :
            /\ h.id = n /\ h.conf = rules /\ h.mdc = th[m.thread].mdc
            /\ ~d => handled' = Append(handled, h)
    <2>1. rules \in ConfType /\ th[m.thread].mdc \in BOOLEAN
      BY <1>2, <1>4, <1>10 DEF LogType, ThType
    <2>2. PICK h \in [id : Nat, conf : ConfType, mdc : BOOLEAN] :
            h = [id |-> n, conf |-> rules, mdc |-> th[m.thread].mdc]
      BY <2>1
    <2> QED
      BY <1>1, <1>4, <2>2
  <1>17. /\ d => handled' = handled
         /\ ~d => /\ handled' = Append(handled, h) /\ Len(handled') = Len(handled) + 1
                  /\ handled'[Len(handled) + 1] = h
                  /\ \A k \in 1..Len(handled) : handled'[k] = handled[k]
         /\ Len(handled) \in Nat /\ handled' \in Seq([id : Nat, conf : ConfType, mdc : BOOLEAN])
    <2>1. d => handled' = handled
      BY <1>1
    <2>2. ASSUME ~d
          PROVE  /\ handled' = Append(handled, h) /\ Len(handled') = Len(handled) + 1
                 /\ handled'[Len(handled) + 1] = h
                 /\ \A k \in 1..Len(handled) : handled'[k] = handled[k]
                 /\ handled' \in Seq([id : Nat, conf : ConfType, mdc : BOOLEAN])
      <3>1. handled' = Append(handled, h)
        BY <1>16, <2>2
      <3>2. PICK S : S = [id : Nat, conf : ConfType, mdc : BOOLEAN]
        OBVIOUS
      <3>3. handled \in Seq(S) /\ h \in S
        BY <1>15, <3>2
      <3>4. /\ Len(handled') = Len(handled) + 1
            /\ handled'[Len(handled) + 1] = h
            /\ \A k \in 1..Len(handled) : handled'[k] = handled[k]
            /\ handled' \in Seq(S)
        BY <3>1, <3>3
      <3> QED
        BY <3>1, <3>2, <3>4
    <2> QED
      BY <1>15, <2>1, <2>2
  <1>18. \A k \in 1..Len(handled) : handled[k].id \in 1..taken
    BY <1>1, <1>2 DEF InOrder
  <1>19. InOrder'
    <2>1. Gone' = n /\ {handled[k].id : k \in 1..Len(handled)} = {i \in 1..taken : ~sent[i].discarded}
          /\ \A k \in 1..Len(handled) : \A j \in 1..k - 1 : handled[j].id < handled[k].id
      BY <1>1, <1>2 DEF InOrder
    <2>2. \A i \in 1..n : i \in 1..taken \/ i = n
      BY <1>1, <1>5
    <2>3. \A i \in 1..taken : i \in 1..n /\ i # n
      BY <1>1, <1>5
    <2>4. CASE d
      <3>1. {i \in 1..n : ~sent[i].discarded} = {i \in 1..taken : ~sent[i].discarded}
        BY <1>1, <2>2, <2>3, <2>4
      <3> QED
        BY <1>3, <1>17, <2>1, <2>4, <3>1, SMTT(20) DEF InOrder
    <2>5. CASE ~d
      <3>0. PICK w \in Nat : w = Len(handled)
        BY <1>17
      <3>1. Len(handled') = w + 1 /\ handled'[w + 1].id = n /\ \A k \in 1..w : handled'[k] = handled[k]
        BY <1>16, <1>17, <2>5, <3>0
      <3>2. \A k \in 1..w + 1 : k = w + 1 \/ k \in 1..w
        OBVIOUS
      <3>3. \A k \in 1..w : k \in 1..w + 1
        OBVIOUS
      <3>a. w + 1 \in 1..w + 1 /\ n \in 1..n
        BY <1>1
      <3>4. {handled'[k].id : k \in 1..w + 1} = {i \in 1..n : ~sent[i].discarded}
        <4>1. ASSUME NEW k \in 1..w + 1
              PROVE  handled'[k].id \in {i \in 1..n : ~sent[i].discarded}
          <5>1. CASE k = w + 1
            BY <1>1, <2>5, <3>1, <3>a, <5>1
          <5>2. CASE k \in 1..w
            <6>1. handled'[k].id \in {i \in 1..taken : ~sent[i].discarded}
              BY <2>1, <3>0, <3>1, <5>2
            <6> QED
              BY <2>3, <6>1
          <5> QED
            BY <3>2, <5>1, <5>2
        <4>2. ASSUME NEW i \in 1..n, ~sent[i].discarded
              PROVE  \E k \in 1..w + 1 : handled'[k].id = i
          <5>1. CASE i = n
            BY <3>1, <3>a, <5>1
          <5>2. CASE i \in 1..taken
            <6>1. PICK k \in 1..w : handled[k].id = i
              BY <2>1, <3>0, <4>2, <5>2
            <6> QED
              BY <3>1, <3>3, <6>1
          <5> QED
            BY <2>2, <5>1, <5>2
        <4> QED
          BY <4>1, <4>2
      <3>5. ASSUME NEW k \in 1..w + 1, NEW j \in 1..k - 1
            PROVE  handled'[j].id < handled'[k].id
        <4>1. j \in 1..w /\ handled'[j] = handled[j] /\ handled[j].id \in 1..taken
          <5>1. j \in 1..w
            OBVIOUS
          <5> QED
            BY <1>18, <3>0, <3>1, <5>1
        <4>2. CASE k = w + 1
          <5>1. handled'[k].id = n
            BY <3>1, <4>2
          <5> QED
            BY <1>1, <1>5, <4>1, <5>1
        <4>3. CASE k \in 1..w
          BY <2>1, <3>0, <3>1, <4>1, <4>3
        <4> QED
          BY <3>2, <4>2, <4>3
      <3> QED
        BY <1>3, <2>1, <3>1, <3>4, <3>5 DEF InOrder
    <2> QED
      BY <2>4, <2>5
  <1>20. AsLogged'
    <2>1. \A k \in 1..Len(handled) :
            sent[handled[k].id].kind = "line" =>
                handled[k].conf = sent[handled[k].id].conf /\ handled[k].mdc = sent[handled[k].id].mdc
      BY <1>2 DEF AsLogged
    <2>2. CASE d
      BY <1>3, <1>17, <2>1, <2>2 DEF AsLogged
    <2>3. CASE ~d
      <3>1. sent[n].kind = "line" => h.conf = sent[n].conf /\ h.mdc = sent[n].mdc
        BY <1>2, <1>4, <1>5, <1>16 DEF AsNow
      <3>2. \A k \in 1..Len(handled) + 1 : k = Len(handled) + 1 \/ k \in 1..Len(handled)
        BY <1>17
      <3>3. \A k \in 1..Len(handled) + 1 :
                sent[handled'[k].id].kind = "line" =>
                    handled'[k].conf = sent[handled'[k].id].conf /\ handled'[k].mdc = sent[handled'[k].id].mdc
        BY <1>16, <1>17, <2>1, <2>3, <3>1, <3>2
      <3> QED
        BY <1>3, <1>17, <2>3, <3>3 DEF AsLogged
    <2> QED
      BY <2>2, <2>3
  <1>21. OpenInv'
    <2>1. ASSUME NEW u \in Threads, loc[u] \in Working
          PROVE  \E i \in n + 1..Len(sent) : sent[i].thread = u /\ Open(i)'
      <3>1. PICK i \in Gone + 1..Len(sent) : sent[i].thread = u /\ Open(i)
        BY <1>2, <2>1 DEF OpenInv
      <3>2. i \in n + 1..Len(sent)
        BY <1>1, <1>5, <3>1
      <3> QED
        BY <1>6, <1>7, <3>1, <3>2
    <2> QED
      BY <1>1, <1>2, <1>3, <1>7, <2>1 DEF OpenInv
  <1>22. \E P \in [Nat -> Nat] : RingInv(P)'
    <2>1. \E P \in [Nat -> Nat] : RingInv(P)
      BY <1>1 DEF LogInv
    <2> QED
      BY <1>1, <1>2, <1>3, <1>7, <2>1, RingSame
  <1>23. LogType'
    BY <1>1, <1>2, <1>3, <1>12, <1>17 DEF LogType
  <1>24. EnvLockInv'
    <2>1. loc[Main] # "boot"
      <3>1. sent # <<>>
        BY <1>1
      <3> QED
        BY <1>2, <3>1 DEF EnvLockInv
    <2> QED
      BY <1>2, <1>3, <2>1 DEF EnvLockInv
  <1>25. ConfInv'
    <2>1. logc.pc # "none" /\ logc'.pc # "none"
      BY <1>1
    <2> QED
      BY <1>2, <1>3, <2>1 DEF ConfInv
  <1>26. QueueInv'
    <2>1. \A t \in Threads : loc[t] \in {"flushsig", "flushwait"} => ~logc.flushed
      BY <1>1, <1>2, <1>5 DEF QueueInv
    <2>2. \A t \in Threads : loc[t] \notin {"update", "swap", "fini"}
      BY <1>1, <1>2, <1>5 DEF QueueInv
    <2>3. /\ sent[n].kind = "flush" => n = Len(sent)
          /\ sent[n].kind = "exit" => n = Len(sent) /\ \E t \in Threads : loc[t] \in {"exitsig", "join"}
      BY <1>2, <1>5 DEF QueueInv
    <2>4. logc'.pc = "drain" /\ n <= Len(sent) /\ Gone' = n
      BY <1>1, <1>5
    <2>5. logc'.stop => n = Len(sent) /\ \E t \in Threads : loc[t] \in {"exitsig", "join"}
      BY <1>1, <2>3
    <2>6. \A t \in Threads : loc[t] \in {"flushsig", "flushwait"} /\ logc'.flushed => n = Len(sent)
      BY <1>1, <2>1, <2>3
    <2>7. \A i \in n + 1..Len(sent) :
            /\ sent[i].kind = "flush" => i = Len(sent) /\ \E t \in Threads : loc[t] \in {"flushsig", "flushwait"}
            /\ sent[i].kind = "exit" => i = Len(sent) /\ \E t \in Threads : loc[t] \in {"exitsig", "join"}
      BY <1>2, <1>6 DEF QueueInv
    <2> QED
      BY <1>3, <2>2, <2>4, <2>5, <2>6, <2>7 DEF QueueInv
  <1> QED
    BY <1>13, <1>14, <1>19, <1>20, <1>21, <1>22, <1>23, <1>24, <1>25, <1>26 DEF LogInv

\* The room of the message is given back.
LEMMA OutFacts ==
    ASSUME LogInv, Out
    PROVE  \E n \in Nat :
             /\ n = taken + 1 /\ taken' = n /\ n \in InQueue /\ n \in 1..Len(sent) /\ Gone = n /\ Gone' = n
             /\ logc \in ConsumerType /\ logc' \in ConsumerType /\ logc.pc = "drain" /\ logc'.pc = "drain"
             /\ ~logc'.seen /\ logc'.stop = logc.stop /\ logc'.flushed = logc.flushed
             /\ logc'.queue.in = logc.queue.in /\ logc'.queue.data = logc.queue.data
             /\ logc'.queue.out = (logc.queue.out + sent[n].words) % Word
  <1>1. LogType /\ logc.pc = "drain" /\ logc.seen /\ logc \in ConsumerType
    BY ConsumerThere DEF Out, LogInv
  <1>2. Gone = taken + 1 /\ taken \in Nat /\ Len(sent) \in Nat /\ Gone <= Len(sent)
    BY <1>1, GoneFacts DEF LogInv, QueueInv
  <1>3. PICK n \in Nat : n = taken + 1
    BY <1>2
  <1>4. n \in InQueue /\ n \in 1..Len(sent) /\ taken < Len(sent) /\ Gone = n
    BY <1>2, <1>3 DEF InQueue
  <1>5. PICK w \in Nat \ {0} : w = sent[n].words
    BY <1>1, <1>4, MsgFacts DEF LogType
  <1>6. logc.queue.data[logc.queue.out % logc.queue.size].size = w
    <2>1. logc.pc # "none"
      BY <1>1
    <2>2. logc.queue.data[logc.queue.out % logc.queue.size] =
                    [id |-> n, size |-> sent[n].words,
                     flags |-> IF Open(n) THEN "RESERVED" ELSE IF sent[n].discarded THEN "DISCARDED" ELSE "COMMITED"]
      BY <1>3, <1>4, <2>1, FirstCell
    <2> QED
      BY <1>5, <2>2
  <1>7. PICK o \in 0..Word - 1 : o = (logc.queue.out + w) % Word
    <2>1. PICK x \in Int : x = logc.queue.out + w
      BY <1>1 DEF ConsumerType, FifoType
    <2>2. x % Word \in 0..Word - 1
      BY SizeFacts, DivMod
    <2> QED
      BY <2>1, <2>2
  <1>8. PICK q : q = [logc.queue EXCEPT !.out = o]
    OBVIOUS
  <1>9. q = fifo_out(logc.queue)
    BY <1>1, <1>6, <1>7, <1>8 DEF fifo_out, ConsumerType, FifoType
  <1>10. q \in FifoType /\ q.in = logc.queue.in /\ q.data = logc.queue.data /\ q.out = o
    BY <1>1, <1>8 DEF ConsumerType, FifoType
  <1>11. logc' = [logc EXCEPT !.queue = q, !.seen = FALSE]
    BY <1>9 DEF Out
  <1>12. /\ logc' \in ConsumerType /\ logc'.pc = "drain" /\ ~logc'.seen /\ logc'.stop = logc.stop
         /\ logc'.flushed = logc.flushed /\ logc'.queue = q
    BY <1>1, <1>10, <1>11 DEF ConsumerType
  <1>13. taken' = n /\ Gone' = n
    BY <1>3, <1>12 DEF Out, Gone
  <1> QED
    BY <1>1, <1>3, <1>4, <1>5, <1>7, <1>10, <1>12, <1>13

LEMMA OutStep ==
    ASSUME LogInv, Out
    PROVE  LogInv'
  <1>1. PICK n \in Nat :
             /\ n = taken + 1 /\ taken' = n /\ n \in InQueue /\ n \in 1..Len(sent) /\ Gone = n /\ Gone' = n
             /\ logc \in ConsumerType /\ logc' \in ConsumerType /\ logc.pc = "drain" /\ logc'.pc = "drain"
             /\ ~logc'.seen /\ logc'.stop = logc.stop /\ logc'.flushed = logc.flushed
             /\ logc'.queue.in = logc.queue.in /\ logc'.queue.data = logc.queue.data
             /\ logc'.queue.out = (logc.queue.out + sent[n].words) % Word
    BY OutFacts, Zenon
  <1>2. /\ LogType /\ EnvLockInv /\ ConfInv /\ QueueInv /\ OpenInv /\ AsNow /\ InOrder /\ AsLogged
        /\ \A u \in Threads : ContextInv(u)
    BY DEF LogInv
  <1>3. UNCHANGED <<envVars, loc, broken, boundVars, th, sent, handled>>
    BY DEF Out, consumerOnly
  <1> USE DEF envVars, boundVars
  <1>4. Gone' = Gone /\ taken \in Nat /\ Len(sent) \in Nat /\ n <= Len(sent) /\ logc.pc # "none"
    BY <1>1, <1>2, GoneFacts
  <1>5. OpenInv' /\ \A i \in 1..Len(sent) : Open(i)' <=> Open(i)
    BY <1>2, <1>3, <1>4, OpenSame
  <1>6. PICK P : P \in [Nat -> Nat] /\ RingInv(P)
    BY <1>4 DEF LogInv
  <1>7. P \in [Nat -> Nat] /\ RingInv(P)'
    <2>1. /\ logc.queue.out = P[taken + 1] % Word
          /\ logc.queue.in = P[Len(sent) + 1] % Word
          /\ P[Len(sent) + 1] - P[taken + 1] \in 0..FifoSize
          /\ P[n + 1] = P[n] + sent[n].words
          /\ P[n] + sent[n].words <= P[Len(sent) + 1]
          /\ \A j \in n + 1..Len(sent) : P[n] + sent[n].words <= P[j]
      BY <1>1, <1>6, Zenon DEF RingInv
    <2>2. \A i \in InQueue :
            /\ P[i + 1] = P[i] + sent[i].words
            /\ P[i] + sent[i].words <= P[Len(sent) + 1]
            /\ \A j \in i + 1..Len(sent) : P[i] + sent[i].words <= P[j]
            /\ sent[i].at = P[i] % Word
            /\ logc.queue.data[P[i] % FifoSize] =
                [id |-> i, size |-> sent[i].words,
                 flags |-> IF Open(i) THEN "RESERVED" ELSE IF sent[i].discarded THEN "DISCARDED" ELSE "COMMITED"]
      BY <1>6, Zenon DEF RingInv
    <2>3. PICK lo \in Nat, w \in Nat \ {0}, nx \in Nat, hi \in Nat :
            lo = P[n] /\ w = sent[n].words /\ nx = lo + w /\ nx = P[n + 1] /\ hi = P[Len(sent) + 1]
      <3>1. sent[n].words \in Nat \ {0}
        BY <1>1, <1>2, MsgFacts DEF LogType
      <3>2. P[n] \in Nat /\ P[n + 1] \in Nat /\ P[Len(sent) + 1] \in Nat
        <4>1. n \in Nat /\ n + 1 \in Nat /\ Len(sent) + 1 \in Nat
          BY <1>4
        <4> QED
          BY <1>6, <4>1, Zenon
      <3> QED
        BY <2>1, <3>1, <3>2
    <2>4. logc'.queue.out = nx % Word
      <3>1. PICK s \in Nat \ {0} : s = Word
        BY SizeFacts
      <3>2. lo \in Int /\ w \in Int
        OBVIOUS
      <3>3. ((lo % s) + w) % s = (lo + w) % s
        BY <3>2, AddMod
      <3>4. logc.queue.out = lo % s
        BY <1>1, <2>1, <2>3, <3>1
      <3>5. logc'.queue.out = ((lo % s) + w) % s
        BY <1>1, <2>3, <3>1, <3>4
      <3>6. lo + w = nx
        BY <2>3
      <3> QED
        BY <3>1, <3>3, <3>5, <3>6, Zenon
    <2>5. hi - nx \in 0..FifoSize
      <3>1. hi - lo \in 0..FifoSize
        BY <1>1, <2>1, <2>3
      <3>2. nx <= hi
        BY <2>1, <2>3
      <3>3. lo + w = nx
        BY <2>3
      <3> QED
        BY <3>1, <3>2, <3>3, SizeFacts
    <2>6. InQueue' = n + 1..Len(sent) /\ \A i \in InQueue' : i \in InQueue /\ i \in 1..Len(sent)
      BY <1>1, <1>3, <1>4 DEF InQueue
    <2>7. \A i \in InQueue' : nx <= P[i]
      BY <2>1, <2>3, <2>6
    <2>8. (taken + 1)' = n + 1
      BY <1>1
    <2>9. /\ (logc.queue.out = P[taken + 1] % Word)'
          /\ (logc.queue.in = P[Len(sent) + 1] % Word)'
          /\ (P[Len(sent) + 1] - P[taken + 1] \in 0..FifoSize)'
      BY <1>1, <1>3, <2>1, <2>3, <2>4, <2>5, <2>8
    <2>10. \A i \in InQueue' :
            /\ P[i + 1] = P[i] + sent[i].words
            /\ P[taken' + 1] <= P[i] /\ P[i] + sent[i].words <= P[Len(sent) + 1]
            /\ \A j \in i + 1..Len(sent) : P[i] + sent[i].words <= P[j]
            /\ sent[i].at = P[i] % Word
            /\ logc'.queue.data[P[i] % FifoSize] =
                [id |-> i, size |-> sent[i].words,
                 flags |-> IF Open(i)' THEN "RESERVED" ELSE IF sent[i].discarded THEN "DISCARDED" ELSE "COMMITED"]
      <3> SUFFICES ASSUME NEW i \in InQueue'
                   PROVE  /\ P[i + 1] = P[i] + sent[i].words
                          /\ P[taken' + 1] <= P[i] /\ P[i] + sent[i].words <= P[Len(sent) + 1]
                          /\ \A j \in i + 1..Len(sent) : P[i] + sent[i].words <= P[j]
                          /\ sent[i].at = P[i] % Word
                          /\ logc'.queue.data[P[i] % FifoSize] =
                              [id |-> i, size |-> sent[i].words,
                               flags |-> IF Open(i)' THEN "RESERVED" ELSE IF sent[i].discarded THEN "DISCARDED" ELSE "COMMITED"]
        OBVIOUS
      <3>1. i \in InQueue /\ (Open(i)' <=> Open(i))
        BY <1>5, <2>6
      <3>2. P[taken' + 1] <= P[i]
        BY <1>1, <2>3, <2>7
      <3>3. logc'.queue.data = logc.queue.data
        BY <1>1
      <3> QED
        BY <2>2, <3>1, <3>2, <3>3, Zenon
    <2> QED
      BY <1>3, <1>6, <2>9, <2>10, Zenon DEF RingInv
  <1>8. \A u \in Threads : ContextInv(u)'
    <2> SUFFICES ASSUME NEW u \in Threads
                 PROVE  ContextInv(u)'
      OBVIOUS
    <2>1. Lines(u)' = Lines(u) /\ Held(u)' = Held(u)
      BY <1>2, <1>3, <1>4, <1>5, LinesSame
    <2> QED
      BY <1>2, <1>3, <2>1, ContextSame
  <1>9. AsNow'
    BY <1>2, <1>3, <1>4, AsNowSame
  <1>10. InOrder' /\ AsLogged'
    BY <1>2, <1>3, <1>4, HandledSame
  <1>11. LogType'
    BY <1>1, <1>2, <1>3 DEF LogType
  <1>12. EnvLockInv'
    BY <1>2, <1>3 DEF EnvLockInv
  <1>13. ConfInv'
    <2>1. logc.pc # "none" /\ logc'.pc # "none"
      BY <1>1
    <2> QED
      BY <1>2, <1>3, <2>1 DEF ConfInv
  <1>14. QueueInv'
    <2>1. \A t \in Threads : loc[t] \notin {"swap", "fini"}
      BY <1>1, <1>2, <1>4 DEF QueueInv
    <2>2. /\ logc.stop => n = Len(sent) /\ \E t \in Threads : loc[t] \in {"exitsig", "join"}
          /\ \A t \in Threads : loc[t] \in {"flushsig", "flushwait"} /\ logc.flushed => n = Len(sent)
          /\ \A t \in Threads : loc[t] = "update" => n = Len(sent)
      BY <1>1, <1>2, <1>4 DEF QueueInv
    <2>3. \A i \in n + 1..Len(sent) :
            /\ sent[i].kind = "flush" => i = Len(sent) /\ \E t \in Threads : loc[t] \in {"flushsig", "flushwait"}
            /\ sent[i].kind = "exit" => i = Len(sent) /\ \E t \in Threads : loc[t] \in {"exitsig", "join"}
      BY <1>1, <1>2 DEF QueueInv
    <2> QED
      BY <1>1, <1>3, <1>4, <2>1, <2>2, <2>3 DEF QueueInv
  <1> QED
    BY <1>5, <1>7, <1>8, <1>9, <1>10, <1>11, <1>12, <1>13, <1>14 DEF LogInv

-----------------------------------------------------------------------------
(* The theorems. *)

LEMMA LogInitHolds == LogInit => LogInv
  <1> SUFFICES ASSUME LogInit PROVE LogInv
    OBVIOUS
  <1>1. /\ is_init = FALSE /\ conf = NoConf /\ version = 0 /\ newconf = NoConf /\ rules = NoConf
        /\ logc = NoConsumer /\ th = [t \in Threads |-> Free]
        /\ loc = [t \in Threads |-> IF t = Main THEN "boot" ELSE "start"]
        /\ broken = FALSE /\ sent = <<>> /\ taken = 0 /\ handled = <<>> /\ reloads = 0
    BY DEF LogInit
  <1>2. logc.pc = "none" /\ Len(sent) = 0 /\ Len(handled) = 0 /\ Gone = 0
    BY <1>1 DEF NoConsumer, Gone
  <1>3. \A t \in Threads : /\ th[t] = Free /\ loc[t] \in {"boot", "start"} /\ (loc[t] = "boot" <=> t = Main)
    BY <1>1
  <1>4. LogType
    <2>1. Free \in ThType /\ NoConf \in ConfType
      BY DEF Free, ThType, NoConf, ConfType
    <2>2. th \in [Threads -> ThType] /\ loc \in [Threads -> Locs]
      BY <1>1, <2>1 DEF Locs
    <2>3. sent \in Seq(MsgType) /\ handled \in Seq([id : Nat, conf : ConfType, mdc : BOOLEAN])
      BY <1>1
    <2> QED
      BY <1>1, <2>1, <2>2, <2>3 DEF LogType
  <1>5. EnvLockInv
    BY <1>1, <1>3 DEF EnvLockInv, Free, Reading, Writing, Flushing, Exiting
  <1>6. \A t \in Threads : loc[t] \notin Working /\ loc[t] \notin Reading /\ loc[t] \notin Writing /\ loc[t] # "ended"
    BY <1>3 DEF Reading, Writing, Flushing, Exiting, Working
  <1>7. ConfInv
    BY <1>1, <1>2, <1>3, <1>6 DEF ConfInv, Working, Flushing, Exiting, Writing, NoConf
  <1>8. QueueInv
    BY <1>1, <1>2, <1>3 DEF QueueInv
  <1>9. OpenInv
    BY <1>2, <1>6 DEF OpenInv
  <1>10. \A t \in Threads : ContextInv(t)
    <2> SUFFICES ASSUME NEW t \in Threads
                 PROVE  ContextInv(t)
      OBVIOUS
    <2>1. Lines(t) = {}
      BY <1>2 DEF Lines
    <2> QED
      BY <1>1, <1>3, <2>1 DEF ContextInv, Free
  <1>11. AsNow
    BY <1>2 DEF AsNow
  <1>12. InOrder /\ AsLogged
    BY <1>2 DEF InOrder, AsLogged
  <1> QED
    BY <1>2, <1>4, <1>5, <1>7, <1>8, <1>9, <1>10, <1>11, <1>12 DEF LogInv

LEMMA LogNextHolds == LogInv /\ [LogNext]_logVars => LogInv'
  <1> SUFFICES ASSUME LogInv, [LogNext]_logVars
               PROVE  LogInv'
    OBVIOUS
  <1>1. ASSUME NEW t \in Threads, Inside(t)
        PROVE  LogInv'
    <2>1. ASSUME NEW fails \in BOOLEAN, Hold(t, fails) \/ UpdateRules(t, fails) \/ SwitchConsumer(t, fails)
          PROVE  LogInv'
      BY <2>1, HoldStep, UpdateRulesStep, SwitchConsumerStep
    <2>2. CASE log_consumer_queue_commit_signal(t)
      BY <2>2, log_consumer_queue_commit_signalStep
    <2>3. CASE Signal(t)
      BY <2>3, SignalStep
    <2>4. CASE Leave(t)
      BY <2>4, LeaveStep
    <2>5. CASE log_consumer_queue_flush(t)
      BY <2>5, log_consumer_queue_flushStep
    <2>6. CASE FlushSignal(t) \/ ExitSignal(t)
      BY <2>6, CmdSignalStep
    <2>7. CASE FlushWait(t)
      BY <2>7, FlushWaitStep
    <2>8. CASE enque_event_exit(t)
      BY <2>8, enque_event_exitStep
    <2>9. CASE log_consumer_destroy(t)
      BY <2>9, log_consumer_destroyStep
    <2>10. CASE Swap(t)
      BY <2>10, SwapStep
    <2>11. CASE Fini(t)
      BY <2>11, FiniStep
    <2> QED
      BY <1>1, <2>1, <2>2, <2>3, <2>4, <2>5, <2>6, <2>7, <2>8, <2>9, <2>10, <2>11, Zenon DEF Inside
  <1>2. ASSUME NEW t \in Threads, Call(t)
        PROVE  LogInv'
    <2>1. ASSUME NEW en \in BOOLEAN, NEW fails \in {"none", "conf", "consumer", "category"}, dzlog_init(t, en, fails)
          PROVE  LogInv'
      BY <2>1, dzlog_initStep
    <2>2. ASSUME NEW fails \in BOOLEAN, zlog_put_mdc(t, fails)
          PROVE  LogInv'
      BY <2>2, zlog_put_mdcStep
    <2>3. ASSUME NEW fails \in BOOLEAN, NEW words \in MsgSizes, zlog(t, words, fails)
          PROVE  LogInv'
      BY <2>3, zlogStep
    <2>4. ASSUME NEW fails \in BOOLEAN, NEW en \in BOOLEAN, zlog_reload(t, en, fails)
          PROVE  LogInv'
      BY <2>4, zlog_reloadStep
    <2>5. CASE zlog_fini(t)
      BY <2>5, zlog_finiStep
    <2>6. CASE thread_exit(t)
      BY <2>6, thread_exitStep
    <2> QED
      BY <1>2, <2>1, <2>2, <2>3, <2>4, <2>5, <2>6, Zenon DEF Call
  <1>3. CASE ConsumerStep \/ SpuriousWake
    BY <1>3, TopStep, handle_logStep, OutStep, DrainedStep DEF ConsumerStep
  <1>4. CASE UNCHANGED logVars
    <2> USE <1>4 DEF logVars, envVars, histVars, boundVars
    <2>1. LogType' /\ EnvLockInv'
      BY DEF LogInv, LogType, EnvLockInv
    <2>2. ConfInv'
      BY DEF LogInv, ConfInv
    <2>3. QueueInv'
      BY DEF LogInv, QueueInv, Gone
    <2>4. /\ OpenInv' /\ (logc.pc # "none" => \E P \in [Nat -> Nat] : RingInv(P))'
          /\ (\A t \in Threads : ContextInv(t))' /\ AsNow' /\ InOrder' /\ AsLogged'
      BY QuietStep
    <2> QED
      BY <2>1, <2>2, <2>3, <2>4 DEF LogInv
  <1> QED
    BY <1>1, <1>2, <1>3, <1>4 DEF LogNext

\* LogInv holds in every state of the log and of the threads that use it.
THEOREM LogInvariance == LogSpec => []LogInv
  BY LogInitHolds, LogNextHolds, PTL DEF LogSpec

\* The consumer takes every line that was not given up exactly once and in
\* the order of the reservations (logc_func).
THEOREM LinesInOrder == LogSpec => []InOrder
  <1>1. LogInv => InOrder
    BY DEF LogInv
  <1> QED
    BY <1>1, LogInvariance, PTL

\* A line reaches the rules and the name it was logged under (handle_log).
THEOREM LinesAsLogged == LogSpec => []AsLogged
  <1>1. LogInv => AsLogged
    BY DEF LogInv
  <1> QED
    BY <1>1, LogInvariance, PTL

\* No context, consumer or configuration is used after it was given back
\* (zlog_thread_del, log_consumer_destroy, zlog_conf_del), as long as every
\* consumer that was wanted could be created.
THEOREM NothingUsedAfterFree == LogSpec => []NoUseAfterFree
  <1>1. LogInv => NoUseAfterFree
    <2> SUFFICES ASSUME LogInv, ~broken
                 PROVE  /\ \A i \in InQueue : sent[i].kind = "line" =>
                            (i = taken + 1 /\ logc.seen) \/ th[sent[i].thread].mem = "live"
                        /\ \A t \in Threads :
                            /\ th[t].mem = "freed" => loc[t] = "ended"
                            /\ loc[t] \in Flushing \cup Exiting \cup {"reserved", "held", "dropped", "signal"} =>
                                logc.pc # "none"
                        /\ rules \in {conf, newconf, NoConf}
      BY DEF NoUseAfterFree
    <2>1. LogType /\ QueueInv /\ \A u \in Threads : ContextInv(u)
      BY DEF LogInv
    <2>2. ASSUME NEW i \in InQueue, sent[i].kind = "line"
          PROVE  (i = taken + 1 /\ logc.seen) \/ th[sent[i].thread].mem = "live"
      <3>1. /\ taken \in Nat /\ Len(sent) \in Nat /\ i \in 1..Len(sent)
            /\ i \in Gone + 1..Len(sent) \/ (i = taken + 1 /\ Gone = taken + 1)
        BY <2>1, GoneFacts DEF InQueue
      <3>2. CASE i \in Gone + 1..Len(sent)
        <4>1. sent[i].thread \in Threads
          BY <2>1, <3>1, MsgFacts DEF LogType
        <4>2. i \in Lines(sent[i].thread)
          BY <2>2, <3>2 DEF Lines
        <4> QED
          BY <2>1, <4>1, <4>2 DEF ContextInv
      <3>3. CASE i = taken + 1 /\ Gone = taken + 1
        <4>1. logc.seen
          BY <3>1, <3>3 DEF Gone
        <4> QED
          BY <3>3, <4>1
      <3> QED
        BY <3>1, <3>2, <3>3
    <2>3. \A t \in Threads : th[t].mem = "freed" => loc[t] = "ended"
      BY <2>1 DEF ContextInv
    <2>4. \A t \in Threads :
            loc[t] \in Flushing \cup Exiting \cup {"reserved", "held", "dropped", "signal"} => logc.pc # "none"
      BY Inside_Finds DEF Working
    <2>5. rules \in {conf, newconf, NoConf}
      BY DEF LogInv, ConfInv
    <2> QED
      BY <2>2, <2>3, <2>4, <2>5
  <1> QED
    BY <1>1, LogInvariance, PTL
=============================================================================
