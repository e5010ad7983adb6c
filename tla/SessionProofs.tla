---------------------------- MODULE SessionProofs ----------------------------
(***************************************************************************)
(* Proofs about Session, for every set of clients and names and every      *)
(* finite set of workers: the inductive invariant IInv, and from it the     *)
(* memory safety of the sessions.                                          *)
(***************************************************************************)
EXTENDS Session, FiniteSetTheorems, TLAPS

\* The part of IInv about the clients and the lists they are on.
ClientInv ==
    /\ StageInv
    /\ TableInv
    /\ ListInv
    /\ DeadlineCovered
    /\ EventInv
    /\ HoldInv
    /\ NoDoubleFree
    /\ RefCountExact

\* The part of IInv about the control state.
ControlInv ==
    /\ LocalInv
    /\ CurInv
    /\ PhaseInv
    /\ NoLeak

\* What every action of a worker is shown to re-establish.
StepInv == TypeOK /\ ClientInv /\ LocalInv /\ CurInv

\* A step that brings no event but of registered descriptors, and disturbs no
\* authentication between htable_add and the store of the state.
StepFrame ==
    \A v \in Worker :
        /\ sockEv'[v] \subseteq sockEv[v] \cup sockReg[v]
        /\ queueEv'[v] \subseteq queueEv[v] \cup queueReg[v]
        /\ pc[v] = "auth_ok" => pc'[v] = "auth_ok" /\ cur'[v] = cur[v]

-----------------------------------------------------------------------------
(* Lemmas about steps that several actions share.                           *)

\* What Append adds to the elements of a sequence, and Tail takes away.
LEMMA AppendRange ==
    ASSUME NEW S, NEW s \in Seq(S), NEW e \in S
    PROVE  {Append(s, e)[i] : i \in 1..Len(Append(s, e))} = {s[i] : i \in 1..Len(s)} \cup {e}
<1>1. Len(Append(s, e)) = Len(s) + 1 /\ Len(s) \in Nat
  OBVIOUS
<1>2. \A i \in 1..Len(s) : Append(s, e)[i] = s[i]
  OBVIOUS
<1>3. Append(s, e)[Len(s) + 1] = e
  OBVIOUS
<1> QED
  BY <1>1, <1>2, <1>3

LEMMA TailRange ==
    ASSUME NEW S, NEW s \in Seq(S), s # <<>>,
           \A i, j \in 1..Len(s) : s[i] = s[j] => i = j
    PROVE  /\ Tail(s) \in Seq(S)
           /\ Head(s) \in {s[i] : i \in 1..Len(s)}
           /\ {Tail(s)[i] : i \in 1..Len(Tail(s))} = {s[i] : i \in 1..Len(s)} \ {Head(s)}
           /\ \A i, j \in 1..Len(Tail(s)) : Tail(s)[i] = Tail(s)[j] => i = j
<1>1. Len(s) \in Nat \ {0} /\ Len(Tail(s)) = Len(s) - 1 /\ Head(s) = s[1] /\ Tail(s) \in Seq(S)
  OBVIOUS
<1>2. \A i \in 1..Len(Tail(s)) : Tail(s)[i] = s[i + 1]
  OBVIOUS
<1>3. \A i \in 2..Len(s) : i - 1 \in 1..Len(Tail(s)) /\ s[i] = Tail(s)[i - 1]
  BY <1>1, <1>2
<1>4. \A i, j \in 1..Len(Tail(s)) : Tail(s)[i] = Tail(s)[j] => i = j
  BY <1>1, <1>2
<1>5. \A x : x \in {Tail(s)[i] : i \in 1..Len(Tail(s))} => x \in {s[i] : i \in 1..Len(s)} \ {Head(s)}
  BY <1>1, <1>2
<1>6. \A x : x \in {s[i] : i \in 1..Len(s)} \ {Head(s)} => x \in {Tail(s)[i] : i \in 1..Len(Tail(s))}
  BY <1>1, <1>3
<1> QED
  BY <1>1, <1>4, <1>5, <1>6

\* A step that leaves the clients, the table, the lists and the references
\* alone preserves ClientInv.
LEMMA FrameClients ==
    ASSUME IInv, StepFrame,
           UNCHANGED <<mem, cl_state, owner, username, queues, ref_cnt, table, listVars, hold>>
    PROVE  ClientInv'
<1> USE DEF IInv, listVars, regVars
<1> \A v \in Worker : OnDconn(v)' = OnDconn(v)
  BY DEF OnDconn
<1>1. StageInv'
  BY DEF StageInv, StepFrame, TypeOK
<1>2. TableInv'
  BY DEF TableInv
<1>3. ListInv'
  BY DEF ListInv, Pending
<1>4. DeadlineCovered'
  BY DEF DeadlineCovered
<1>5. EventInv'
  BY DEF EventInv, StepFrame, Pending, StageInv, TypeOK, States
<1>6. HoldInv'
  BY DEF HoldInv, Pending
<1>7. NoDoubleFree'
  BY DEF NoDoubleFree
<1>8. RefCountExact'
  BY DEF RefCountExact, TableRef, Holders
<1> QED
  BY <1>1, <1>2, <1>3, <1>4, <1>5, <1>6, <1>7, <1>8 DEF ClientInv

\* cleanup_std_client of a client w handles: one that is pending and has no
\* other event, or one that is linked.
LEMMA CleanupClients ==
    ASSUME IInv, StepFrame, NEW w \in Worker, NEW c \in Client,
           cleanup_std_client(w, c),
           owner[c] = w, mem[c] = "live",
           \/ Pending(c) /\ c \notin sockEv'[w]
           \/ c \in table /\ cl_state[c] \in {"AUTHENTICATED", "DISCONNECTED"},
           UNCHANGED <<owner, username, queues, ref_cnt, table, hold>>
    PROVE  /\ ClientInv'
           /\ mem' \in [Client -> {"unused", "live", "freed", "corrupt"}]
           /\ cl_state' \in [Client -> States]
           /\ dconn' \in [Worker -> Seq(Client)]
           /\ preauth' \in [Worker -> SUBSET Client]
           /\ clth' \in [Worker -> SUBSET Client]
           /\ sockReg' \in [Worker -> SUBSET Client]
           /\ queueReg' \in [Worker -> SUBSET Client]
<1> USE DEF IInv
<1>1. CASE /\ cl_state[c] = "AUTHENTICATED"
           /\ cl_state' = [cl_state EXCEPT ![c] = "DISCONNECTED"]
           /\ sockReg' = [sockReg EXCEPT ![w] = @ \ {c}]
           /\ queueReg' = [queueReg EXCEPT ![w] = @ \ {c}]
           /\ dconn' = [dconn EXCEPT ![w] = Append(@, c)]
           /\ UNCHANGED <<mem, preauth, clth>>
  <2>0. c \in table
    BY <1>1 DEF Pending
  <2>1. /\ \A v \in Worker : v # w => OnDconn(v)' = OnDconn(v)
        /\ OnDconn(w)' = OnDconn(w) \cup {c}
        /\ \A v \in Worker : \A i, j \in 1..Len(dconn'[v]) : dconn'[v][i] = dconn'[v][j] => i = j
        /\ dconn' \in [Worker -> Seq(Client)]
    <3>1. dconn[w] \in Seq(Client) /\ dconn'[w] = Append(dconn[w], c)
      BY <1>1 DEF TypeOK
    <3>2. \A v \in Worker : v # w => dconn'[v] = dconn[v]
      BY <1>1 DEF TypeOK
    <3>3. c \notin OnDconn(w)
      BY <1>1 DEF ListInv
    <3>4. OnDconn(w)' = OnDconn(w) \cup {c}
      BY <3>1, AppendRange DEF OnDconn
    <3>5. \A i, j \in 1..Len(dconn'[w]) : dconn'[w][i] = dconn'[w][j] => i = j
      BY <3>1, <3>3 DEF OnDconn, ListInv
    <3>6. \A v \in Worker : v # w => OnDconn(v)' = OnDconn(v)
      BY <3>2 DEF OnDconn
    <3>7. \A v \in Worker : v # w =>
             \A i, j \in 1..Len(dconn'[v]) : dconn'[v][i] = dconn'[v][j] => i = j
      BY <3>2 DEF ListInv
    <3>8. dconn' \in [Worker -> Seq(Client)]
      BY <1>1 DEF TypeOK
    <3> QED
      BY <3>4, <3>5, <3>6, <3>7, <3>8
  <2>2. /\ \A d \in Client : d # c => cl_state'[d] = cl_state[d]
        /\ cl_state'[c] = "DISCONNECTED"
        /\ \A v \in Worker : v # w => sockReg'[v] = sockReg[v] /\ queueReg'[v] = queueReg[v]
        /\ sockReg'[w] = sockReg[w] \ {c}
        /\ queueReg'[w] = queueReg[w] \ {c}
        /\ cl_state' \in [Client -> States]
        /\ sockReg' \in [Worker -> SUBSET Client]
        /\ queueReg' \in [Worker -> SUBSET Client]
    BY <1>1 DEF TypeOK, States
  <2>3. StageInv'
    <3> SUFFICES ASSUME NEW d \in Client, mem'[d] = "live" PROVE StageInv!(d)'
      BY DEF StageInv
    <3>0. UNCHANGED <<mem, preauth>>
      BY <1>1
    <3>1. CASE d = c
      BY <3>0, <3>1, <2>0, <2>1, <2>2 DEF StageInv
    <3>2. CASE d # c
      <4>1. cl_state'[d] = cl_state[d]
        BY <3>2, <2>2
      <4>2. OnDconn(owner[d]) \subseteq OnDconn(owner[d])'
        BY <3>0, <2>1 DEF StageInv
      <4> QED
        BY <3>0, <4>1, <4>2 DEF StageInv, StepFrame
    <3> QED BY <3>1, <3>2
  <2>4. TableInv'
    BY <1>1 DEF TableInv
  <2>5. ListInv'
    <3>1. \A v \in Worker : \A d \in preauth[v] : mem[d] = "live" /\ owner[d] = v /\ Pending(d)'
      BY <1>1, <2>0, <2>2 DEF ListInv, Pending, TypeOK
    <3>2. \A v \in Worker : \A d \in OnDconn(v)' :
             d \in table /\ owner[d] = v /\ cl_state'[d] = "DISCONNECTED"
      <4> SUFFICES ASSUME NEW v \in Worker, NEW d \in OnDconn(v)'
                   PROVE  d \in table /\ owner[d] = v /\ cl_state'[d] = "DISCONNECTED"
        OBVIOUS
      <4>1. CASE d \in OnDconn(v)
        BY <4>1, <2>2 DEF ListInv, TypeOK
      <4>2. CASE v = w /\ d = c
        BY <4>2, <2>0, <2>2
      <4> QED BY <4>1, <4>2, <2>1
    <3> QED BY <1>1, <2>1, <3>1, <3>2 DEF ListInv
  <2>6. DeadlineCovered'
    BY <1>1, <2>0, <2>2 DEF DeadlineCovered, ListInv, Pending, TypeOK
  <2>7. EventInv'
    BY <1>1, <2>0, <2>2 DEF EventInv, StepFrame, Pending, StageInv, TypeOK, States
  <2>8. HoldInv'
    BY <1>1, <2>0, <2>2 DEF HoldInv, Pending, TypeOK
  <2>9. NoDoubleFree'
    BY <1>1 DEF NoDoubleFree
  <2>10. RefCountExact'
    BY <1>1, <2>0, <2>2 DEF RefCountExact, TableRef, Holders
  <2> QED
    BY <1>1, <2>1, <2>2, <2>3, <2>4, <2>5, <2>6, <2>7, <2>8, <2>9, <2>10 DEF ClientInv, TypeOK
<1>2. CASE /\ cl_state[c] \in {"INIT", "ACCEPTING", "ACCEPTED"}
           /\ clth' = IF cl_state[c] = "ACCEPTED"
                      THEN [clth EXCEPT ![w] = @ \ {c}] ELSE clth
           /\ preauth' = IF cl_state[c] # "INIT"
                         THEN [preauth EXCEPT ![w] = @ \ {c}] ELSE preauth
           /\ sockReg' = [sockReg EXCEPT ![w] = @ \ {c}]
           /\ mem' = FreeMem({c})
           /\ UNCHANGED <<cl_state, dconn, queueReg>>
  <2>0. /\ c \notin table /\ c \notin sockEv'[w]
        /\ cl_state[c] \in {"ACCEPTING", "ACCEPTED"}
    BY <1>2 DEF Pending, StageInv
  <2>1. /\ \A d \in Client : d # c => mem'[d] = mem[d]
        /\ mem'[c] = "freed"
        /\ mem' \in [Client -> {"unused", "live", "freed", "corrupt"}]
    BY <1>2 DEF FreeMem, TypeOK
  <2>2. /\ \A v \in Worker : v # w => /\ sockReg'[v] = sockReg[v]
                                      /\ preauth'[v] = preauth[v]
                                      /\ clth'[v] = clth[v]
        /\ sockReg'[w] = sockReg[w] \ {c}
        /\ preauth'[w] = preauth[w] \ {c}
        /\ sockReg' \in [Worker -> SUBSET Client]
        /\ preauth' \in [Worker -> SUBSET Client]
        /\ clth' \in [Worker -> SUBSET Client]
    BY <1>2, <2>0 DEF TypeOK
  <2>3. clth'[w] = clth[w] \ {c}
    BY <1>2, <2>0 DEF TypeOK, DeadlineCovered
  <2>4. \A v \in Worker : /\ v # w => c \notin preauth[v] \cup sockReg[v] \cup sockEv[v]
                          /\ c \notin queueReg[v] \cup queueEv[v]
                          /\ hold[v] # c
    BY <2>0, SessionAssumption DEF ListInv, EventInv, HoldInv, Pending
  <2> OnDconn(w)' = OnDconn(w) /\ \A v \in Worker : OnDconn(v)' = OnDconn(v)
    BY <1>2 DEF OnDconn
  <2>5a. \A v \in Worker : clth[v] \subseteq preauth[v] /\ preauth[v] \subseteq Client
    BY DEF DeadlineCovered, TypeOK
  <2>5b. \A v \in Worker : v # w => c \notin preauth[v] /\ c \notin clth[v] /\ c \notin sockReg[v]
    BY <2>4, <2>5a
  <2>5c. \A v \in Worker : /\ preauth'[v] = preauth[v] \ {c}
                           /\ clth'[v] = clth[v] \ {c}
                           /\ sockReg'[v] = sockReg[v] \ {c}
    <3> SUFFICES ASSUME NEW v \in Worker
                 PROVE  /\ preauth'[v] = preauth[v] \ {c}
                        /\ clth'[v] = clth[v] \ {c}
                        /\ sockReg'[v] = sockReg[v] \ {c}
      OBVIOUS
    <3>1. CASE v = w
      BY <3>1, <2>2, <2>3
    <3>2. CASE v # w
      BY <3>2, <2>2, <2>5b
    <3> QED BY <3>1, <3>2
  <2>u. UNCHANGED <<cl_state, dconn, queueReg>>
    BY <1>2
  <2>5. StageInv'
    <3> SUFFICES ASSUME NEW d \in Client, d # c, mem[d] = "live"
                 PROVE  cl_state[d] \in {"ACCEPTING", "ACCEPTED"} =>
                              IF d \in table
                              THEN pc'[owner[d]] = "auth_ok" /\ cur'[owner[d]] = d
                              ELSE d \in preauth'[owner[d]]
      BY <2>u, <2>1 DEF StageInv, TypeOK
    <3> QED BY <2>2 DEF StageInv, StepFrame
  <2>6. TableInv'
    BY <2>0, <2>1 DEF TableInv, TypeOK
  <2>7. ListInv'
    <3>1. \A v \in Worker : \A d \in preauth'[v] :
             d \in preauth[v] /\ d # c /\ d \in Client
      BY <2>5c, <2>5a
    <3>2. \A v \in Worker : \A d \in preauth'[v] :
             mem'[d] = "live" /\ owner[d] = v /\ Pending(d)
      BY <3>1, <2>1 DEF ListInv
    <3> QED BY <2>u, <3>2 DEF ListInv, Pending
  <2>8. DeadlineCovered'
    BY <2>u, <2>5c DEF DeadlineCovered
  <2>9. EventInv'
    <3>1. \A v \in Worker : \A d \in sockReg'[v] \cup queueReg'[v] :
             /\ d \in Client /\ d # c
             /\ d \in sockReg[v] \cup queueReg[v]
      BY <2>u, <2>5c, <2>4 DEF TypeOK
    <3>2. \A v \in Worker : \A d \in sockEv'[v] \cup queueEv'[v] :
             /\ d \in Client /\ d # c
             /\ d \in sockReg[v] \cup queueReg[v] \cup sockEv[v] \cup queueEv[v]
      BY <2>0, <2>4 DEF TypeOK, StepFrame
    <3>3. \A v \in Worker : \A d \in sockReg[v] \cup queueReg[v] : Pending(d) \/ d \in table
      BY DEF EventInv, StageInv, Pending, TypeOK, States
    <3>4. \A v \in Worker : queueReg'[v] \cup queueEv'[v] \subseteq table
      BY <2>u DEF EventInv, StepFrame
    <3>5. \A v \in Worker : \A d \in sockReg'[v] \cup queueReg'[v] :
             owner[d] = v /\ mem'[d] = "live" /\ cl_state[d] # "DISCONNECTED"
      BY <3>1, <2>1 DEF EventInv
    <3>6. \A v \in Worker : \A d \in sockEv'[v] \cup queueEv'[v] :
             owner[d] = v /\ mem'[d] = "live" /\ (Pending(d) \/ d \in table)
      BY <3>2, <3>3, <2>1 DEF EventInv
    <3> QED BY <2>u, <3>4, <3>5, <3>6 DEF EventInv, Pending
  <2>10. HoldInv'
    <3>1. \A v \in Worker : hold[v] # None => hold[v] \in Client /\ hold[v] # c
      BY <2>4 DEF TypeOK
    <3>2. \A v \in Worker : hold[v] # None => mem'[hold[v]] = "live" /\ ~ Pending(hold[v])
      BY <3>1, <2>1 DEF HoldInv
    <3> QED BY <2>u, <2>1, <3>2 DEF HoldInv, Pending
  <2>11. NoDoubleFree'
    BY <2>1 DEF NoDoubleFree
  <2>12. RefCountExact'
    BY <2>u, <2>1 DEF RefCountExact, TableRef, Holders
  <2> QED
    BY <1>2, <2>1, <2>2, <2>5, <2>6, <2>7, <2>8, <2>9, <2>10, <2>11, <2>12
    DEF ClientInv, TypeOK
<1>3. CASE /\ cl_state[c] = "DISCONNECTED"
           /\ UNCHANGED <<cl_state, regVars, dconn, mem, preauth, clth>>
  BY <1>3, FrameClients DEF listVars, regVars, TypeOK
<1> QED
  BY <1>1, <1>2, <1>3 DEF cleanup_std_client, free_unauthenticated, cleanupVars


\* The labels of a worker that handles an event of a linked client.
HandlerPCs == PCs \ (IdlePCs \cup {"auth_add", "auth_ok"})

\* A step of a handler that moves on to label l, or ends (l = "batch"), and
\* cleans its client up or leaves it alone.  It neither takes nor drops a
\* reference.
Move(w, l, n, u) ==
    /\ pc[w] \in HandlerPCs
    /\ l \in HandlerPCs \cup {"batch"}
    /\ n \in Name \cup {None}
    /\ u \in Uses
    /\ l \in HoldPCs <=> pc[w] \in HoldPCs
    /\ l \in HoldPCs \cup {"get"} => u # "none"
    /\ l \in HoldPCs \cup {"get", "respond"} => n # None
    /\ pc' = [pc EXCEPT ![w] = l]
    /\ cur' = [cur EXCEPT ![w] = IF l = "batch" THEN None ELSE cur[w]]
    /\ target' = [target EXCEPT ![w] = n]
    /\ use' = [use EXCEPT ![w] = u]
    /\ UNCHANGED cleanupVars \/ cleanup_std_client(w, cur[w])
    /\ pdus' \in [Client -> 0..MaxPdus]
    /\ UNCHANGED <<owner, username, queues, ref_cnt, table, phase, eventVars, hold>>

LEMMA HandlerMove ==
    ASSUME IInv, NEW w \in Worker, NEW l, NEW n, NEW u, Move(w, l, n, u)
    PROVE  StepInv'
<1> USE DEF IInv, eventVars, Move
<1>1. /\ cur[w] \in Client /\ owner[cur[w]] = w /\ mem[cur[w]] = "live"
      /\ cur[w] \in table /\ cl_state[cur[w]] \in {"AUTHENTICATED", "DISCONNECTED"}
  BY DEF CurInv, LocalInv, TypeOK, HandlerPCs
<1>2. StepFrame
  BY DEF StepFrame, TypeOK, HandlerPCs
<1>3. /\ ClientInv'
      /\ mem' \in [Client -> {"unused", "live", "freed", "corrupt"}]
      /\ cl_state' \in [Client -> States]
      /\ dconn' \in [Worker -> Seq(Client)]
      /\ preauth' \in [Worker -> SUBSET Client]
      /\ clth' \in [Worker -> SUBSET Client]
      /\ sockReg' \in [Worker -> SUBSET Client]
      /\ queueReg' \in [Worker -> SUBSET Client]
  <2>1. CASE UNCHANGED cleanupVars
    BY <2>1, <1>2, FrameClients DEF cleanupVars, listVars, regVars, TypeOK
  <2>2. CASE cleanup_std_client(w, cur[w])
    BY <2>2, <1>1, <1>2, CleanupClients
  <2> QED BY <2>1, <2>2
<1>4. /\ UNCHANGED <<mem, preauth>>
      /\ \A c \in Client : cl_state'[c] # cl_state[c] =>
             /\ cl_state[c] \in {"AUTHENTICATED", "DISCONNECTED"}
             /\ cl_state'[c] \in {"AUTHENTICATED", "DISCONNECTED"}
      /\ \A v \in Worker : v # w =>
             dconn'[v] = dconn[v] /\ sockReg'[v] = sockReg[v] /\ queueReg'[v] = queueReg[v]
  BY <1>1 DEF cleanup_std_client, free_unauthenticated, cleanupVars, regVars, TypeOK
<1>5. /\ pc' \in [Worker -> PCs]
      /\ cur' \in [Worker -> Client \cup {None}]
      /\ target' \in [Worker -> Name \cup {None}]
      /\ use' \in [Worker -> Uses]
  BY DEF TypeOK, HandlerPCs, PCs
<1>6. TypeOK'
  BY <1>3, <1>5 DEF TypeOK
<1>7. \A v \in Worker : v # w => /\ pc'[v] = pc[v] /\ cur'[v] = cur[v]
                                 /\ target'[v] = target[v] /\ use'[v] = use[v]
  BY DEF TypeOK
<1>8. /\ pc'[w] = l /\ target'[w] = n /\ use'[w] = u
      /\ cur'[w] = IF l = "batch" THEN None ELSE cur[w]
  BY DEF TypeOK
<1>9. LocalInv'
  <2> SUFFICES ASSUME NEW v \in Worker PROVE LocalInv!(v)'
    BY DEF LocalInv
  <2>1. CASE v = w
    BY <2>1, <1>1, <1>8, SessionAssumption DEF LocalInv, HandlerPCs, IdlePCs, HoldPCs, PCs
  <2>2. CASE v # w
    BY <2>2, <1>4, <1>7 DEF LocalInv
  <2> QED BY <2>1, <2>2
<1>10. CurInv'
  <2> SUFFICES ASSUME NEW v \in Worker PROVE CurInv!(v)'
    BY DEF CurInv
  <2>1. CASE v = w
    BY <2>1, <1>1, <1>4, <1>8 DEF CurInv, HandlerPCs, TypeOK
  <2>2. CASE v # w
    BY <2>2, <1>4, <1>7 DEF CurInv, TypeOK
  <2> QED BY <2>1, <2>2
<1> QED
  BY <1>3, <1>6, <1>9, <1>10 DEF StepInv

-----------------------------------------------------------------------------
(* Actions that move a worker on without touching a client.                 *)

LEMMA epoll_waitStep ==
    ASSUME IInv, NEW w \in Worker, epoll_wait(w)
    PROVE  StepInv'
<1> USE DEF IInv, epoll_wait, Goto, clientVars, listVars, regVars, eventVars, lookupVars
<1>1. TypeOK'
  BY DEF TypeOK, PCs, Uses
<1>2. StepFrame
  BY DEF StepFrame, TypeOK
<1>3. ClientInv'
  BY <1>2, FrameClients
<1>4. LocalInv'
  BY SessionAssumption DEF LocalInv, TypeOK, IdlePCs, HoldPCs
<1>5. CurInv'
  BY SessionAssumption DEF CurInv, LocalInv, EventInv, Pending, StageInv, TypeOK, IdlePCs
<1> QED
  BY <1>1, <1>3, <1>4, <1>5 DEF StepInv

LEMMA BatchDoneStep ==
    ASSUME IInv, NEW w \in Worker, BatchDone(w)
    PROVE  StepInv'
<1> USE DEF IInv, BatchDone, Goto, clientVars, listVars, regVars, eventVars, lookupVars
<1>1. TypeOK'
  BY DEF TypeOK, PCs, Uses
<1>2. StepFrame
  BY DEF StepFrame, TypeOK
<1>3. ClientInv'
  BY <1>2, FrameClients
<1>4. LocalInv'
  BY SessionAssumption DEF LocalInv, TypeOK, IdlePCs, HoldPCs
<1>5. CurInv'
  BY SessionAssumption DEF CurInv, LocalInv, EventInv, Pending, StageInv, TypeOK, IdlePCs
<1> QED
  BY <1>1, <1>3, <1>4, <1>5 DEF StepInv

LEMMA AcceptDoneStep ==
    ASSUME IInv, NEW w \in Worker, AcceptDone(w)
    PROVE  StepInv'
<1> USE DEF IInv, AcceptDone, Goto, clientVars, listVars, regVars, eventVars, lookupVars
<1>1. TypeOK'
  BY DEF TypeOK, PCs, Uses
<1>2. StepFrame
  BY DEF StepFrame, TypeOK
<1>3. ClientInv'
  BY <1>2, FrameClients
<1>4. LocalInv'
  BY SessionAssumption DEF LocalInv, TypeOK, IdlePCs, HoldPCs
<1>5. CurInv'
  BY SessionAssumption DEF CurInv, LocalInv, EventInv, Pending, StageInv, TypeOK, IdlePCs
<1> QED
  BY <1>1, <1>3, <1>4, <1>5 DEF StepInv

LEMMA ClientEventStep ==
    ASSUME IInv, NEW w \in Worker, ClientEvent(w)
    PROVE  StepInv'
<1> USE DEF IInv, clientVars, listVars, regVars, eventVars, lookupVars
<1>0. PICK c \in Client, l \in {"inbound", "outbound"} :
         /\ pc[w] = "batch" /\ c \in sockEv[w]
         /\ cl_state[c] \in {"AUTHENTICATED", "DISCONNECTED"}
         /\ sockEv' = [sockEv EXCEPT ![w] = @ \ {c}]
         /\ cur' = [cur EXCEPT ![w] = c]
         /\ pc' = [pc EXCEPT ![w] = l]
         /\ UNCHANGED <<clientVars, table, phase, listVars, queueEv, loopEv, lookupVars>>
  BY DEF ClientEvent, SockEvent, Goto
<1>1. TypeOK'
  BY <1>0 DEF TypeOK, PCs, Uses
<1>2. StepFrame
  BY <1>0 DEF StepFrame, TypeOK
<1>3. ClientInv'
  BY <1>0, <1>2, FrameClients
<1>4. LocalInv'
  BY <1>0, SessionAssumption DEF LocalInv, TypeOK, IdlePCs, HoldPCs
<1>5. CurInv'
  BY <1>0, SessionAssumption DEF CurInv, LocalInv, EventInv, Pending, StageInv, TypeOK, IdlePCs
<1> QED
  BY <1>1, <1>3, <1>4, <1>5 DEF StepInv

LEMMA QueueEventStep ==
    ASSUME IInv, NEW w \in Worker, QueueEvent(w)
    PROVE  StepInv'
<1> USE DEF IInv, clientVars, listVars, regVars, eventVars, lookupVars
<1>0. PICK c \in Client :
         /\ pc[w] = "batch" /\ c \in queueEv[w]
         /\ queueEv' = [queueEv EXCEPT ![w] = @ \ {c}]
         /\ \/ UNCHANGED <<pc, cur>>
            \/ /\ cl_state[c] # "DISCONNECTED"
               /\ cur' = [cur EXCEPT ![w] = c]
               /\ pc' = [pc EXCEPT ![w] = "queued"]
         /\ UNCHANGED <<clientVars, table, phase, listVars, sockEv, loopEv, lookupVars>>
  BY DEF QueueEvent, Goto
<1>0a. /\ c \in table /\ owner[c] = w /\ mem[c] = "live"
       /\ cl_state[c] \in {"AUTHENTICATED", "DISCONNECTED"}
  <2>1. c \in table /\ owner[c] = w /\ mem[c] = "live"
    BY <1>0 DEF EventInv
  <2>2. cl_state[c] \notin {"INIT", "ACCEPTING", "ACCEPTED"}
    BY <1>0, <2>1 DEF StageInv
  <2> QED BY <2>1, <2>2 DEF TypeOK, States
<1>1. TypeOK'
  <2>1. /\ queueEv' \in [Worker -> SUBSET Client]
        /\ cur' \in [Worker -> Client \cup {None}]
        /\ pc' \in [Worker -> PCs]
    <3>1. CASE UNCHANGED <<pc, cur>>
      BY <1>0, <3>1 DEF TypeOK
    <3>2. CASE cur' = [cur EXCEPT ![w] = c] /\ pc' = [pc EXCEPT ![w] = "queued"]
      BY <1>0, <3>2 DEF TypeOK, PCs
    <3> QED BY <1>0, <3>1, <3>2
  <2> QED BY <1>0, <2>1 DEF TypeOK
<1>2. StepFrame
  BY <1>0 DEF StepFrame, TypeOK
<1>3. ClientInv'
  BY <1>0, <1>2, FrameClients
<1>4. LocalInv'
  BY <1>0, SessionAssumption DEF LocalInv, TypeOK, IdlePCs, HoldPCs
<1>5. CurInv'
  BY <1>0, <1>0a, SessionAssumption DEF CurInv, LocalInv, TypeOK, IdlePCs
<1> QED
  BY <1>1, <1>3, <1>4, <1>5 DEF StepInv


-----------------------------------------------------------------------------
(* The steps of a handler: each is a HandlerMove.                           *)

\* The local variables of a worker have their types and are what they are.
LEMMA LocalTypes ==
    ASSUME IInv, NEW w \in Worker
    PROVE  /\ target[w] \in Name \cup {None} /\ target = [target EXCEPT ![w] = target[w]]
           /\ use[w] \in Uses /\ use = [use EXCEPT ![w] = use[w]]
           /\ cur[w] \in Client \cup {None} /\ cur = [cur EXCEPT ![w] = cur[w]]
           /\ pdus \in [Client -> 0..MaxPdus]
           /\ pc[w] \in HoldPCs \cup {"get"} => use[w] # "none"
           /\ pc[w] \in HoldPCs \cup {"get", "respond", "auth_add"} => target[w] # None
BY DEF IInv, TypeOK, LocalInv

LEMMA htable_get_condStep ==
    ASSUME IInv, NEW w \in Worker, htable_get_cond(w)
    PROVE  StepInv'
<1>1. PICK l \in {"drop", "enqueue", "put"} : pc' = [pc EXCEPT ![w] = l]
  BY DEF htable_get_cond, Goto
<1>2. Move(w, l, target[w], use[w])
  BY <1>1, LocalTypes
  DEF Move, htable_get_cond, HandlerPCs, HoldPCs, IdlePCs, PCs, clientVars, listVars, regVars,
      lookupVars, cleanupVars
<1> QED
  BY <1>2, HandlerMove

LEMMA EnqueueStep ==
    ASSUME IInv, NEW w \in Worker, Enqueue(w)
    PROVE  StepInv'
<1>1. Move(w, "put", target[w], use[w])
  BY LocalTypes
  DEF Move, Enqueue, Goto, HandlerPCs, HoldPCs, IdlePCs, PCs, clientVars, listVars, regVars,
      lookupVars, cleanupVars
<1> QED
  BY <1>1, HandlerMove

LEMMA DequeueStep ==
    ASSUME IInv, NEW w \in Worker, Dequeue(w)
    PROVE  StepInv'
<1>1. PICK n \in Name : StartLookup(w, n, "probe_msg")
  BY DEF Dequeue
<1>2. Move(w, "get", n, "probe_msg")
  BY <1>1, LocalTypes, SessionAssumption
  DEF Move, Dequeue, StartLookup, Goto, HandlerPCs, HoldPCs, IdlePCs, PCs, Uses, clientVars,
      listVars, regVars, lookupVars, cleanupVars
<1> QED
  BY <1>2, HandlerMove

LEMMA SendStep ==
    ASSUME IInv, NEW w \in Worker, Send(w)
    PROVE  StepInv'
<1>1. Move(w, "batch", target[w], use[w])
  BY LocalTypes
  DEF Move, Send, Finish, Goto, HandlerPCs, HoldPCs, IdlePCs, PCs, lookupVars
<1> QED
  BY <1>1, HandlerMove

LEMMA SendTssStep ==
    ASSUME IInv, NEW w \in Worker, SendTss(w)
    PROVE  StepInv'
<1> USE DEF SendTss, HandlerPCs, HoldPCs, IdlePCs, PCs, lookupVars
<1>1. CASE Finish(w)
  <2>1. Move(w, "batch", target[w], use[w])
    BY <1>1, LocalTypes DEF Move, Finish, Goto
  <2> QED BY <2>1, HandlerMove
<1>2. CASE UNCHANGED <<cleanupVars, cur>> /\ Goto(w, "dequeue")
  <2>1. Move(w, "dequeue", target[w], use[w])
    BY <1>2, LocalTypes DEF Move, Goto
  <2> QED BY <2>1, HandlerMove
<1> QED
  BY <1>1, <1>2

LEMMA ProbeTssStep ==
    ASSUME IInv, NEW w \in Worker, ProbeTss(w)
    PROVE  StepInv'
<1>0. /\ pc[w] \in {"outbound", "queued"}
      /\ UNCHANGED <<clientVars, table, phase, listVars, eventVars, hold>>
  BY DEF ProbeTss
<1> USE DEF HandlerPCs, HoldPCs, IdlePCs, PCs, clientVars, listVars, regVars, cleanupVars
<1>1. CASE Finish(w) /\ UNCHANGED <<target, use>>
  <2>1. Move(w, "batch", target[w], use[w])
    BY <1>0, <1>1, LocalTypes DEF Move, Finish, Goto
  <2> QED BY <2>1, HandlerMove
<1>2. ASSUME NEW l \in {"send", "send_tss"}, Goto(w, l), UNCHANGED <<target, use, cur>>
      PROVE  StepInv'
  <2>1. Move(w, l, target[w], use[w])
    BY <1>0, <1>2, LocalTypes DEF Move, Goto
  <2> QED BY <2>1, HandlerMove
<1>3. ASSUME NEW n \in Name, NEW u \in Uses, u # "none", StartLookup(w, n, u), UNCHANGED cur
      PROVE  StepInv'
  <2>1. Move(w, "get", n, u)
    BY <1>0, <1>3, LocalTypes, SessionAssumption DEF Move, StartLookup, Goto
  <2> QED BY <2>1, HandlerMove
<1>4. CASE pc[w] = "outbound"
  BY <1>1, <1>2, <1>3, <1>4 DEF ProbeTss, Uses
<1>5. CASE pc[w] = "queued"
  BY <1>1, <1>2, <1>3, <1>5 DEF ProbeTss, Uses
<1> QED
  BY <1>0, <1>4, <1>5

LEMMA InboundStep ==
    ASSUME IInv, NEW w \in Worker, Inbound(w)
    PROVE  StepInv'
<1>0. /\ pc[w] = "inbound" /\ cur[w] \in Client
      /\ UNCHANGED <<owner, username, queues, ref_cnt, table, phase, eventVars, hold>>
  BY DEF Inbound, IInv, LocalInv, TypeOK, IdlePCs
<1> USE DEF HandlerPCs, HoldPCs, IdlePCs, PCs
<1>1. ASSUME Finish(w), UNCHANGED <<pdus, target, use>>,
             UNCHANGED cleanupVars \/ cleanup_std_client(w, cur[w])
      PROVE  StepInv'
  <2>1. Move(w, "batch", target[w], use[w])
    BY <1>0, <1>1, LocalTypes DEF Move, Finish, Goto
  <2> QED BY <2>1, HandlerMove
<1>2. ASSUME Goto(w, "outbound"), UNCHANGED <<cleanupVars, pdus, target, use, cur>>
      PROVE  StepInv'
  <2>1. Move(w, "outbound", target[w], use[w])
    BY <1>0, <1>2, LocalTypes DEF Move, Goto
  <2> QED BY <2>1, HandlerMove
<1>3. ASSUME pdus[cur[w]] < MaxPdus, pdus' = [pdus EXCEPT ![cur[w]] = @ + 1],
             UNCHANGED <<cleanupVars, cur>>,
             \/ Goto(w, "reply") /\ UNCHANGED <<target, use>>
             \/ \E n \in Name : StartLookup(w, n, "validate")
      PROVE  StepInv'
  <2>1. pdus' \in [Client -> 0..MaxPdus]
    BY <1>0, <1>3, SessionAssumption, LocalTypes
  <2>2. CASE Goto(w, "reply") /\ UNCHANGED <<target, use>>
    <3>1. Move(w, "reply", target[w], use[w])
      BY <1>0, <1>3, <2>1, <2>2, LocalTypes DEF Move, Goto
    <3> QED BY <3>1, HandlerMove
  <2>3. ASSUME NEW n \in Name, StartLookup(w, n, "validate") PROVE StepInv'
    <3>1. Move(w, "get", n, "validate")
      BY <1>0, <1>3, <2>1, <2>3, LocalTypes, SessionAssumption DEF Move, StartLookup, Goto, Uses
    <3> QED BY <3>1, HandlerMove
  <2> QED BY <1>3, <2>2, <2>3
<1> QED
  BY <1>1, <1>2, <1>3 DEF Inbound, LeaveInbound, Finish

LEMMA wt_serve_responseStep ==
    ASSUME IInv, NEW w \in Worker, wt_serve_response(w)
    PROVE  StepInv'
<1>0. /\ pc[w] \in {"respond", "reply", "gone"}
      /\ UNCHANGED cleanupVars \/ cleanup_std_client(w, cur[w])
      /\ UNCHANGED <<owner, username, queues, ref_cnt, pdus, table, phase, eventVars, hold>>
  BY DEF wt_serve_response
<1> USE DEF HandlerPCs, HoldPCs, IdlePCs, PCs
<1>1. ASSUME pc[w] = "respond", StartLookup(w, target[w], "forward"), UNCHANGED cur
      PROVE  StepInv'
  <2>1. Move(w, "get", target[w], "forward")
    BY <1>0, <1>1, LocalTypes, SessionAssumption DEF Move, StartLookup, Goto, Uses
  <2> QED BY <2>1, HandlerMove
<1>2. ASSUME pc[w] \in {"reply", "gone"}, NEW l \in {"inbound", "outbound"}, Goto(w, l),
             UNCHANGED <<cur, target, use>>
      PROVE  StepInv'
  <2>1. Move(w, l, target[w], use[w])
    BY <1>0, <1>2, LocalTypes DEF Move, Goto
  <2> QED BY <2>1, HandlerMove
<1>3. ASSUME pc[w] = "gone", Finish(w), UNCHANGED <<target, use>>
      PROVE  StepInv'
  <2>1. Move(w, "batch", target[w], use[w])
    BY <1>0, <1>3, LocalTypes DEF Move, Finish, Goto
  <2> QED BY <2>1, HandlerMove
<1> QED
  BY <1>1, <1>2, <1>3 DEF wt_serve_response, LeaveInbound, Finish


-----------------------------------------------------------------------------
(* Cleaning a client up between two handlers.                               *)

\* The client of the event, or of the timeout, is cleaned up at once.
CleanupNow(w, c) ==
    /\ pc[w] \in {"poll", "batch"}
    /\ owner[c] = w
    /\ mem[c] = "live"
    /\ \/ Pending(c)
       \/ c \in table /\ cl_state[c] \in {"AUTHENTICATED", "DISCONNECTED"}
    /\ cleanup_std_client(w, c)
    /\ sockEv' = [sockEv EXCEPT ![w] = @ \ {c}]
    /\ UNCHANGED <<queueEv, loopEv, owner, username, queues, ref_cnt, pdus, table, phase, pc,
                   cur, lookupVars>>

LEMMA CleanupNowStep ==
    ASSUME IInv, NEW w \in Worker, NEW c \in Client, CleanupNow(w, c)
    PROVE  StepInv'
<1> USE DEF IInv, lookupVars, CleanupNow
<1>1. StepFrame
  BY DEF StepFrame, TypeOK
<1>2. c \notin sockEv'[w]
  BY DEF TypeOK
<1>3. /\ ClientInv'
      /\ mem' \in [Client -> {"unused", "live", "freed", "corrupt"}]
      /\ cl_state' \in [Client -> States]
      /\ dconn' \in [Worker -> Seq(Client)]
      /\ preauth' \in [Worker -> SUBSET Client]
      /\ clth' \in [Worker -> SUBSET Client]
      /\ sockReg' \in [Worker -> SUBSET Client]
      /\ queueReg' \in [Worker -> SUBSET Client]
  BY <1>1, <1>2, CleanupClients
<1>4. sockEv' \in [Worker -> SUBSET Client]
  BY DEF TypeOK
<1>5. TypeOK'
  BY <1>3, <1>4 DEF TypeOK
<1>6. /\ \A d \in Client : d # c => mem'[d] = mem[d] /\ cl_state'[d] = cl_state[d]
      /\ \A v \in Worker : v # w => /\ preauth'[v] = preauth[v] /\ dconn'[v] = dconn[v]
                                    /\ sockReg'[v] = sockReg[v] /\ queueReg'[v] = queueReg[v]
                                    /\ sockEv'[v] = sockEv[v]
  BY DEF cleanup_std_client, free_unauthenticated, cleanupVars, regVars, FreeMem, TypeOK
<1>7. sockEv'[w] \subseteq sockEv[w] /\ cur[w] = None
  BY DEF TypeOK, LocalInv, IdlePCs
<1>8. LocalInv'
  <2> SUFFICES ASSUME NEW v \in Worker PROVE LocalInv!(v)'
    BY DEF LocalInv
  <2>1. CASE v = w
    BY <2>1, <1>7 DEF LocalInv
  <2>2. CASE v # w
    BY <2>2, <1>6 DEF LocalInv
  <2> QED BY <2>1, <2>2
<1>9. CurInv'
  <2> SUFFICES ASSUME NEW v \in Worker, cur[v] # None PROVE CurInv!(v)'
    BY DEF CurInv
  <2>1. v # w /\ cur[v] \in Client /\ cur[v] # c
    BY <1>7 DEF CurInv, TypeOK
  <2> QED BY <2>1, <1>6 DEF CurInv
<1> QED
  BY <1>3, <1>5, <1>8, <1>9 DEF StepInv

LEMMA handle_clth_timeoutStep ==
    ASSUME IInv, NEW w \in Worker, handle_clth_timeout(w)
    PROVE  StepInv'
<1>1. PICK c \in clth[w] : cl_state[c] = "ACCEPTED" /\ cleanup_std_client(w, c)
  BY DEF handle_clth_timeout
<1>2. c \in Client /\ owner[c] = w /\ mem[c] = "live" /\ Pending(c)
  BY DEF IInv, DeadlineCovered, ListInv, TypeOK
<1>3. sockEv = [sockEv EXCEPT ![w] = sockEv[w] \ {c}]
  BY DEF IInv, LocalInv, TypeOK, handle_clth_timeout
<1>4. CleanupNow(w, c)
  BY <1>1, <1>2, <1>3 DEF CleanupNow, handle_clth_timeout, eventVars
<1> QED
  BY <1>2, <1>4, CleanupNowStep

\* A client with a socket event is the worker's own, pending or linked.
LEMMA SockEventClient ==
    ASSUME IInv, NEW w \in Worker, NEW c \in Client, SockEvent(w, c)
    PROVE  /\ owner[c] = w /\ mem[c] = "live"
           /\ \/ Pending(c)
              \/ c \in table /\ cl_state[c] \in {"AUTHENTICATED", "DISCONNECTED"}
<1>1. owner[c] = w /\ mem[c] = "live" /\ (Pending(c) \/ c \in table)
  BY DEF IInv, EventInv, SockEvent
<1>2. c \in table => cl_state[c] \notin {"INIT", "ACCEPTING", "ACCEPTED"}
  BY <1>1 DEF IInv, StageInv, SockEvent
<1> QED
  BY <1>1, <1>2 DEF IInv, TypeOK, States

LEMMA HangUpStep ==
    ASSUME IInv, NEW w \in Worker, HangUp(w)
    PROVE  StepInv'
<1>1. PICK c \in Client : SockEvent(w, c) /\ cleanup_std_client(w, c)
  BY DEF HangUp
<1>2. CleanupNow(w, c)
  BY <1>1, SockEventClient DEF CleanupNow, HangUp, SockEvent
<1> QED
  BY <1>2, CleanupNowStep

-----------------------------------------------------------------------------
(* Handshake and authentication.                                            *)

\* An event of c is consumed and nothing else happens.
LEMMA EventConsumed ==
    ASSUME IInv, NEW w \in Worker, NEW c \in Client, SockEvent(w, c),
           UNCHANGED <<clientVars, table, phase, listVars, pc, cur, lookupVars>>
    PROVE  StepInv'
<1> USE DEF IInv, SockEvent, clientVars, listVars, regVars, lookupVars
<1>1. TypeOK'
  BY DEF TypeOK
<1>2. StepFrame
  BY DEF StepFrame, TypeOK
<1>3. ClientInv'
  BY <1>2, FrameClients
<1>4. \A v \in Worker : sockEv'[v] \subseteq sockEv[v]
  BY DEF TypeOK
<1>5. LocalInv'
  BY <1>4 DEF LocalInv
<1>6. CurInv'
  BY <1>4 DEF CurInv
<1> QED
  BY <1>1, <1>3, <1>5, <1>6 DEF StepInv

LEMMA wt_handle_acceptingStep ==
    ASSUME IInv, NEW w \in Worker, wt_handle_accepting(w)
    PROVE  StepInv'
<1>1. PICK c \in Client :
        /\ SockEvent(w, c)
        /\ cl_state[c] = "ACCEPTING"
        /\ \/ cleanup_std_client(w, c)
           \/ /\ clth' = [clth EXCEPT ![w] = @ \cup {c}]
              /\ cl_state' = [cl_state EXCEPT ![c] = "ACCEPTED"]
              /\ UNCHANGED <<mem, preauth, dconn, regVars>>
           \/ UNCHANGED cleanupVars
  BY DEF wt_handle_accepting
<1>2. UNCHANGED <<owner, username, queues, ref_cnt, pdus, table, phase, pc, cur, lookupVars>>
  BY DEF wt_handle_accepting
<1>3. owner[c] = w /\ mem[c] = "live" /\ Pending(c) /\ c \notin table
  BY <1>1, SockEventClient DEF Pending
<1>4. CASE cleanup_std_client(w, c)
  <2>1. CleanupNow(w, c)
    BY <1>1, <1>2, <1>3, <1>4 DEF CleanupNow, SockEvent
  <2> QED BY <2>1, CleanupNowStep
<1>5. CASE UNCHANGED cleanupVars
  BY <1>1, <1>2, <1>5, EventConsumed DEF cleanupVars, clientVars, listVars
<1>6. CASE /\ clth' = [clth EXCEPT ![w] = @ \cup {c}]
           /\ cl_state' = [cl_state EXCEPT ![c] = "ACCEPTED"]
           /\ UNCHANGED <<mem, preauth, dconn, regVars>>
  <2> USE DEF IInv, regVars, lookupVars
  <2>1. /\ \A d \in Client : d # c => cl_state'[d] = cl_state[d]
        /\ cl_state'[c] = "ACCEPTED"
        /\ \A v \in Worker : clth'[v] = IF v = w THEN clth[v] \cup {c} ELSE clth[v]
        /\ \A v \in Worker : sockEv'[v] \subseteq sockEv[v]
        /\ \A v \in Worker : OnDconn(v)' = OnDconn(v)
        /\ UNCHANGED <<queueEv, loopEv>>
    <3>1. /\ \A d \in Client : d # c => cl_state'[d] = cl_state[d]
          /\ cl_state'[c] = "ACCEPTED"
      BY <1>6 DEF TypeOK
    <3>2. \A v \in Worker : clth'[v] = IF v = w THEN clth[v] \cup {c} ELSE clth[v]
      BY <1>6 DEF TypeOK
    <3>3. /\ \A v \in Worker : sockEv'[v] \subseteq sockEv[v]
          /\ UNCHANGED <<queueEv, loopEv>>
      BY <1>1 DEF TypeOK, SockEvent
    <3>4. \A v \in Worker : OnDconn(v)' = OnDconn(v)
      BY <1>6 DEF OnDconn
    <3> QED BY <3>1, <3>2, <3>3, <3>4
  <2>2. TypeOK'
    BY <1>1, <1>2, <1>6 DEF TypeOK, SockEvent, States
  <2>3. StageInv'
    BY <1>1, <1>2, <1>3, <1>6, <2>1 DEF StageInv
  <2>4. TableInv'
    BY <1>2, <1>6 DEF TableInv
  <2>5. ListInv'
    <3>1. \A d \in Client : Pending(d) => Pending(d)'
      BY <1>2, <1>3, <2>1 DEF Pending
    <3> QED BY <1>2, <1>3, <1>6, <2>1, <3>1 DEF ListInv, TypeOK
  <2>6. DeadlineCovered'
    <3>1. c \in preauth[w] /\ \A v \in Worker : v # w => c \notin preauth[v]
      BY <1>1, <1>3 DEF StageInv, ListInv
    <3>2. preauth[w] \subseteq Client
      BY DEF TypeOK
    <3>3. \A v \in Worker : v # w => clth'[v] = {d \in preauth'[v] : cl_state'[d] = "ACCEPTED"}
      BY <1>6, <2>1, <3>1 DEF DeadlineCovered, TypeOK
    <3>4. clth'[w] = {d \in preauth'[w] : cl_state'[d] = "ACCEPTED"}
      BY <1>6, <2>1, <3>1, <3>2 DEF DeadlineCovered
    <3> QED BY <3>3, <3>4 DEF DeadlineCovered
  <2>7. EventInv'
    <3>1. \A d \in Client : /\ Pending(d) => Pending(d)'
                            /\ cl_state[d] # "DISCONNECTED" => cl_state'[d] # "DISCONNECTED"
      BY <1>2, <1>3, <2>1 DEF Pending
    <3> QED BY <1>2, <1>6, <2>1, <3>1 DEF EventInv, TypeOK
  <2>8. HoldInv'
    <3>1. \A d \in Client : (Pending(d)' => Pending(d)) /\ (cl_state'[d] = "DISCONNECTED" => cl_state[d] = "DISCONNECTED")
      BY <1>1, <1>2, <2>1 DEF Pending
    <3> QED BY <1>2, <1>6, <3>1 DEF HoldInv, TypeOK
  <2>9. NoDoubleFree'
    BY <1>6 DEF NoDoubleFree
  <2>10. RefCountExact'
    BY <1>1, <1>2, <1>6, <2>1 DEF RefCountExact, TableRef, Holders
  <2>11. LocalInv'
    BY <1>2, <1>6, <2>1 DEF LocalInv
  <2>12. CurInv'
    <3> SUFFICES ASSUME NEW v \in Worker, cur[v] # None PROVE CurInv!(v)'
      BY <1>2 DEF CurInv
    <3>1. cur[v] \in Client /\ cur[v] # c
      <4>1. cur[v] \in Client
        BY <1>2 DEF TypeOK
      <4>2. cl_state[cur[v]] # "ACCEPTING"
        BY <1>2 DEF CurInv
      <4> QED BY <4>1, <4>2, <1>1
    <3>2. cl_state'[cur[v]] = cl_state[cur[v]]
      BY <3>1, <2>1
    <3>3. CurInv!(v)
      BY DEF CurInv
    <3>4. cur[v] \notin sockEv[v] => cur[v] \notin sockEv'[v]
      BY <2>1
    <3>5. UNCHANGED <<owner, mem, pc, cur, preauth, table>>
      BY <1>2, <1>6
    <3> QED BY <3>2, <3>3, <3>4, <3>5
  <2> QED
    BY <2>2, <2>3, <2>4, <2>5, <2>6, <2>7, <2>8, <2>9, <2>10, <2>11, <2>12
    DEF StepInv, ClientInv
<1> QED
  BY <1>1, <1>4, <1>5, <1>6

LEMMA AuthCheckStep ==
    ASSUME IInv, NEW w \in Worker, AuthCheck(w)
    PROVE  StepInv'
<1>1. PICK c \in Client :
        /\ SockEvent(w, c)
        /\ cl_state[c] = "ACCEPTED"
        /\ \/ /\ UNCHANGED <<cleanupVars, pc, cur, target>>
           \/ /\ cleanup_std_client(w, c)
              /\ UNCHANGED <<pc, cur, target>>
           \/ \E n \in Name :
               /\ target' = [target EXCEPT ![w] = n]
               /\ cur' = [cur EXCEPT ![w] = c]
               /\ Goto(w, "auth_add")
               /\ UNCHANGED cleanupVars
  BY DEF AuthCheck
<1>2. UNCHANGED <<owner, username, queues, ref_cnt, pdus, table, phase, hold, use>>
  BY DEF AuthCheck
<1>3. owner[c] = w /\ mem[c] = "live" /\ Pending(c) /\ c \notin table /\ pc[w] = "batch"
  BY <1>1, SockEventClient DEF Pending, SockEvent
<1>4. CASE cleanup_std_client(w, c) /\ UNCHANGED <<pc, cur, target>>
  <2>1. CleanupNow(w, c)
    BY <1>1, <1>2, <1>3, <1>4 DEF CleanupNow, SockEvent, lookupVars
  <2> QED BY <2>1, CleanupNowStep
<1>5. CASE UNCHANGED <<cleanupVars, pc, cur, target>>
  BY <1>1, <1>2, <1>5, EventConsumed DEF cleanupVars, clientVars, listVars, lookupVars
<1>6. ASSUME NEW n \in Name,
             target' = [target EXCEPT ![w] = n],
             cur' = [cur EXCEPT ![w] = c],
             pc' = [pc EXCEPT ![w] = "auth_add"],
             UNCHANGED cleanupVars
      PROVE  StepInv'
  <2> USE DEF IInv, cleanupVars, regVars, listVars
  <2>1. TypeOK'
    BY <1>1, <1>2, <1>6 DEF TypeOK, SockEvent, PCs
  <2>2. StepFrame
    BY <1>1, <1>3, <1>6 DEF StepFrame, TypeOK, SockEvent
  <2>3. ClientInv'
    BY <1>2, <1>6, <2>2, FrameClients
  <2>4. /\ \A v \in Worker : v # w => /\ pc'[v] = pc[v] /\ cur'[v] = cur[v]
                                      /\ target'[v] = target[v] /\ sockEv'[v] = sockEv[v]
        /\ pc'[w] = "auth_add" /\ cur'[w] = c /\ target'[w] = n
        /\ sockEv'[w] = sockEv[w] \ {c}
        /\ UNCHANGED <<queueEv, loopEv>>
    BY <1>1, <1>6 DEF TypeOK, SockEvent
  <2>5. LocalInv'
    <3> SUFFICES ASSUME NEW v \in Worker PROVE LocalInv!(v)'
      BY DEF LocalInv
    <3>1. CASE v = w
      BY <3>1, <1>2, <1>3, <1>6, <2>4, SessionAssumption DEF LocalInv, IdlePCs, HoldPCs
    <3>2. CASE v # w
      BY <3>2, <1>2, <1>6, <2>4 DEF LocalInv
    <3> QED BY <3>1, <3>2
  <2>6. CurInv'
    <3> SUFFICES ASSUME NEW v \in Worker PROVE CurInv!(v)'
      BY DEF CurInv
    <3>0. c \in preauth[w]
      BY <1>1, <1>3 DEF StageInv
    <3>1. CASE v = w
      BY <3>0, <3>1, <1>1, <1>2, <1>3, <1>6, <2>4 DEF CurInv
    <3>2. CASE v # w
      BY <3>2, <1>2, <1>6, <2>4 DEF CurInv
    <3> QED BY <3>1, <3>2
  <2> QED
    BY <2>1, <2>3, <2>5, <2>6 DEF StepInv
<1> QED
  BY <1>1, <1>4, <1>5, <1>6 DEF Goto

-----------------------------------------------------------------------------
(* A new connection, and the steps of an authentication on shared state.    *)

\* The invariant implies that nothing reaches a client that is not allocated.
LEMMA IInvNoDangling ==
    ASSUME IInv
    PROVE  NoDangling
<1> SUFFICES ASSUME NEW c \in Client, Reachable(c)
             PROVE  mem[c] = "live"
  BY DEF NoDangling
<1> USE DEF IInv
<1>1. CASE c \in table
  BY <1>1 DEF TableInv
<1>2. ASSUME NEW v \in Worker, c \in preauth[v] \cup clth[v] \cup OnDconn(v) PROVE mem[c] = "live"
  <2>1. CASE c \in preauth[v] \cup clth[v]
    BY <2>1 DEF ListInv, DeadlineCovered
  <2>2. CASE c \in OnDconn(v)
    BY <2>2 DEF ListInv, TableInv
  <2> QED BY <1>2, <2>1, <2>2
<1>3. ASSUME NEW v \in Worker, c \in sockReg[v] \cup queueReg[v] \cup sockEv[v] \cup queueEv[v]
      PROVE mem[c] = "live"
  BY <1>3 DEF EventInv
<1>4. ASSUME NEW v \in Worker, cur[v] = c \/ hold[v] = c PROVE mem[c] = "live"
  BY <1>4, SessionAssumption DEF CurInv, HoldInv
<1> QED
  BY <1>1, <1>2, <1>3, <1>4 DEF Reachable

LEMMA NewConnectionStep ==
    ASSUME IInv, NEW w \in Worker, NewConnection(w)
    PROVE  StepInv'
<1>1. PICK c \in Client :
        /\ mem[c] = "unused"
        /\ owner' = [owner EXCEPT ![c] = w]
        /\ ref_cnt' = [ref_cnt EXCEPT ![c] = 1]
        /\ \/ \E done \in BOOLEAN :
               /\ mem' = [mem EXCEPT ![c] = "live"]
               /\ cl_state' = [cl_state EXCEPT
                                 ![c] = IF done THEN "ACCEPTED" ELSE "ACCEPTING"]
               /\ clth' = IF done THEN [clth EXCEPT ![w] = @ \cup {c}] ELSE clth
               /\ preauth' = [preauth EXCEPT ![w] = @ \cup {c}]
               /\ sockReg' = [sockReg EXCEPT ![w] = @ \cup {c}]
           \/ /\ mem' = [mem EXCEPT ![c] = "freed"]
              /\ UNCHANGED <<cl_state, clth, preauth, sockReg>>
  BY DEF NewConnection
<1>2. /\ pc[w] = "batch"
      /\ UNCHANGED <<username, queues, pdus, table, phase, dconn, queueReg, eventVars, pc, cur,
                     lookupVars>>
  BY DEF NewConnection
<1> USE DEF IInv, eventVars, lookupVars
<1>3. /\ c \notin table
      /\ \A v \in Worker : /\ c \notin preauth[v] \cup clth[v] \cup OnDconn(v)
                           /\ c \notin sockReg[v] \cup queueReg[v] \cup sockEv[v] \cup queueEv[v]
                           /\ cur[v] # c
                           /\ hold[v] # c
  BY <1>1, IInvNoDangling DEF NoDangling, Reachable
<1>4. \A d \in Client : d # c => /\ mem'[d] = mem[d] /\ owner'[d] = owner[d]
                                 /\ ref_cnt'[d] = ref_cnt[d] /\ cl_state'[d] = cl_state[d]
  BY <1>1 DEF TypeOK
<1>5. owner'[c] = w /\ ref_cnt'[c] = 1
  BY <1>1 DEF TypeOK
<1>6. owner' \in [Client -> Worker \cup {None}] /\ ref_cnt' \in [Client -> Nat]
  BY <1>1 DEF TypeOK
<1>7. \A v \in Worker : OnDconn(v)' = OnDconn(v)
  BY <1>2 DEF OnDconn
<1>8. TableInv'
  BY <1>2, <1>3, <1>4 DEF TableInv, TypeOK
<1>9. CurInv' /\ \A v \in Worker : v # w => /\ preauth'[v] = preauth[v]
                                            /\ sockReg'[v] = sockReg[v]
                                            /\ clth'[v] = clth[v]
  <2>1. \A v \in Worker : cur[v] # None => cur[v] \in Client /\ cur[v] # c
    BY <1>3 DEF TypeOK
  <2>2. \A v \in Worker : preauth[v] \subseteq preauth'[v]
    BY <1>1 DEF TypeOK
  <2>3. \A v \in Worker : v # w => /\ preauth'[v] = preauth[v]
                                   /\ sockReg'[v] = sockReg[v]
                                   /\ clth'[v] = clth[v]
    BY <1>1 DEF TypeOK
  <2>4. CurInv'
    <3> SUFFICES ASSUME NEW v \in Worker, cur[v] # None PROVE CurInv!(v)'
      BY <1>2 DEF CurInv
    <3> QED BY <2>1, <2>2, <1>2, <1>4 DEF CurInv
  <2> QED BY <2>3, <2>4
<1>10. HoldInv!1'
  BY <1>2, <1>3, <1>4 DEF HoldInv, TypeOK, Pending
<1>11. Holders(c)' = {} /\ \A d \in Client : Holders(d)' = Holders(d)
  BY <1>2, <1>3 DEF Holders
<1>12. \A v \in Worker : \A d \in OnDconn(v) :
          d \in table /\ owner'[d] = v /\ cl_state'[d] = "DISCONNECTED"
  BY <1>3, <1>4 DEF ListInv, TypeOK
<1>13. CASE /\ mem' = [mem EXCEPT ![c] = "freed"]
            /\ UNCHANGED <<cl_state, clth, preauth, sockReg>>
  <2>1. TypeOK'
    BY <1>2, <1>6, <1>13 DEF TypeOK
  <2>2. mem'[c] = "freed"
    BY <1>13 DEF TypeOK
  <2>3. LocalInv'
    BY <1>2, <1>13 DEF LocalInv
  <2>4. StageInv'
    BY <1>2, <1>4, <1>7, <1>13, <2>2 DEF StageInv
  <2>5. ListInv'
    <3>1. \A v \in Worker : \A d \in preauth[v] : mem'[d] = "live" /\ owner'[d] = v /\ Pending(d)'
      BY <1>2, <1>3, <1>4, <1>13 DEF ListInv, Pending, TypeOK
    <3> QED BY <1>2, <1>7, <1>12, <1>13, <3>1 DEF ListInv
  <2>6. DeadlineCovered'
    BY <1>13 DEF DeadlineCovered
  <2>7. EventInv'
    BY <1>2, <1>3, <1>4, <1>13 DEF EventInv, TypeOK, Pending
  <2>8. HoldInv'
    BY <1>2, <1>4, <1>10, <1>13, <2>2 DEF HoldInv
  <2>9. NoDoubleFree'
    BY <1>4, <2>2 DEF NoDoubleFree
  <2>10. RefCountExact'
    BY <1>2, <1>4, <1>11, <1>13, <2>2 DEF RefCountExact, TableRef
  <2> QED
    BY <1>8, <1>9, <2>1, <2>3, <2>4, <2>5, <2>6, <2>7, <2>8, <2>9, <2>10 DEF StepInv, ClientInv
<1>14. ASSUME NEW done \in BOOLEAN,
              mem' = [mem EXCEPT ![c] = "live"],
              cl_state' = [cl_state EXCEPT ![c] = IF done THEN "ACCEPTED" ELSE "ACCEPTING"],
              clth' = IF done THEN [clth EXCEPT ![w] = @ \cup {c}] ELSE clth,
              preauth' = [preauth EXCEPT ![w] = @ \cup {c}],
              sockReg' = [sockReg EXCEPT ![w] = @ \cup {c}]
       PROVE  StepInv'
  <2>1. /\ mem'[c] = "live"
        /\ cl_state'[c] = IF done THEN "ACCEPTED" ELSE "ACCEPTING"
        /\ preauth'[w] = preauth[w] \cup {c}
        /\ sockReg'[w] = sockReg[w] \cup {c}
        /\ clth'[w] = IF done THEN clth[w] \cup {c} ELSE clth[w]
    BY <1>14 DEF TypeOK
  <2>2. TypeOK'
    <3>1. /\ mem' \in [Client -> {"unused", "live", "freed", "corrupt"}]
          /\ cl_state' \in [Client -> States]
          /\ clth' \in [Worker -> SUBSET Client]
          /\ preauth' \in [Worker -> SUBSET Client]
          /\ sockReg' \in [Worker -> SUBSET Client]
      BY <1>14 DEF TypeOK, States
    <3> QED BY <1>2, <1>6, <3>1 DEF TypeOK
  <2>3. LocalInv'
    <3> SUFFICES ASSUME NEW v \in Worker PROVE LocalInv!(v)'
      BY DEF LocalInv
    <3>1. CASE v = w
      BY <3>1, <1>2 DEF LocalInv
    <3>2. CASE v # w
      BY <3>2, <1>2, <1>9 DEF LocalInv
    <3> QED BY <3>1, <3>2
  <2>4. StageInv'
    <3> SUFFICES ASSUME NEW d \in Client, mem'[d] = "live" PROVE StageInv!(d)'
      BY DEF StageInv
    <3>1. CASE d = c
      BY <3>1, <1>2, <1>3, <1>5, <2>1 DEF StageInv
    <3>2. CASE d # c
      <4>1. \A v \in Worker : d \in preauth[v] => d \in preauth'[v]
        BY <1>9, <2>1
      <4> QED BY <3>2, <4>1, <1>2, <1>4, <1>7 DEF StageInv
    <3> QED BY <3>1, <3>2
  <2>5. ListInv'
    <3>1. \A v \in Worker : \A d \in preauth'[v] : mem'[d] = "live" /\ owner'[d] = v /\ Pending(d)'
      <4> SUFFICES ASSUME NEW v \in Worker, NEW d \in preauth'[v]
                   PROVE  mem'[d] = "live" /\ owner'[d] = v /\ Pending(d)'
        OBVIOUS
      <4>1. CASE d = c
        BY <4>1, <1>2, <1>3, <1>5, <1>9, <2>1 DEF Pending
      <4>2. CASE d # c
        <5>0. d \in preauth[v]
          BY <4>2, <1>9, <2>1
        <5>1. d \in preauth[v] /\ d \in Client
          BY <5>0 DEF TypeOK
        <5> QED BY <5>1, <4>2, <1>2, <1>4 DEF ListInv, Pending
      <4> QED BY <4>1, <4>2
    <3> QED BY <1>2, <1>7, <1>12, <3>1 DEF ListInv
  <2>6. DeadlineCovered'
    <3>1. \A v \in Worker : v # w => clth'[v] = {d \in preauth'[v] : cl_state'[d] = "ACCEPTED"}
      BY <1>3, <1>4, <1>9 DEF DeadlineCovered, TypeOK
    <3>2. clth'[w] = {d \in preauth'[w] : cl_state'[d] = "ACCEPTED"}
      <4>1. clth[w] = {d \in preauth[w] : cl_state'[d] = "ACCEPTED"}
        BY <1>3, <1>4 DEF DeadlineCovered, TypeOK
      <4> QED BY <4>1, <2>1
    <3> QED BY <3>1, <3>2 DEF DeadlineCovered
  <2>7. EventInv'
    <3>0. \A v \in Worker : \A d \in sockReg[v] \cup queueReg[v] \cup sockEv[v] \cup queueEv[v] :
             d \in Client /\ d # c
      BY <1>3 DEF TypeOK
    <3>1. \A v \in Worker : \A d \in sockReg[v] \cup queueReg[v] :
             owner'[d] = v /\ mem'[d] = "live" /\ cl_state'[d] # "DISCONNECTED"
      BY <3>0, <1>4 DEF EventInv
    <3>2. \A v \in Worker : \A d \in sockEv[v] \cup queueEv[v] :
             owner'[d] = v /\ mem'[d] = "live" /\ (Pending(d)' \/ d \in table)
      BY <3>0, <1>2, <1>4 DEF EventInv, Pending
    <3>3. \A v \in Worker : \A d \in sockReg'[v] : d \in sockReg[v] \/ (v = w /\ d = c)
      BY <1>9, <2>1
    <3>4. owner'[c] = w /\ mem'[c] = "live" /\ cl_state'[c] # "DISCONNECTED"
      BY <1>5, <2>1
    <3>5. \A v \in Worker : \A d \in sockReg'[v] \cup queueReg'[v] :
             owner'[d] = v /\ mem'[d] = "live" /\ cl_state'[d] # "DISCONNECTED"
      BY <1>2, <3>1, <3>3, <3>4
    <3> QED BY <1>2, <3>2, <3>5 DEF EventInv
  <2>8. HoldInv'
    BY <1>2, <1>4, <1>10, <2>1 DEF HoldInv
  <2>9. NoDoubleFree'
    BY <1>4, <2>1 DEF NoDoubleFree
  <2>10. RefCountExact'
    BY <1>2, <1>4, <1>5, <1>11, <2>1, FS_EmptySet DEF RefCountExact, TableRef
  <2> QED
    BY <1>8, <1>9, <2>2, <2>3, <2>4, <2>5, <2>6, <2>7, <2>8, <2>9, <2>10 DEF StepInv, ClientInv
<1> QED
  BY <1>1, <1>13, <1>14

LEMMA AuthAddStep ==
    ASSUME IInv, NEW w \in Worker, AuthAdd(w)
    PROVE  StepInv'
<1> DEFINE c == cur[w]
           n == target[w]
<1> USE DEF IInv, eventVars
<1>1. /\ pc[w] = "auth_add"
      /\ clth' = [clth EXCEPT ![w] = @ \ {c}]
      /\ preauth' = [preauth EXCEPT ![w] = @ \ {c}]
      /\ username' = [username EXCEPT ![c] = n]
      /\ target' = [target EXCEPT ![w] = None]
      /\ UNCHANGED <<cl_state, owner, ref_cnt, pdus, phase, dconn, eventVars, hold, use>>
  BY DEF AuthAdd
<1>2. c \in Client /\ n \in Name
  BY <1>1 DEF LocalInv, TypeOK, IdlePCs
<1>3. /\ owner[c] = w /\ mem[c] = "live" /\ cl_state[c] = "ACCEPTED"
      /\ c \in preauth[w] /\ c \notin sockEv[w]
  BY <1>1, <1>2, SessionAssumption DEF CurInv
<1>4. /\ c \notin table /\ Pending(c)
      /\ \A v \in Worker : /\ v # w => c \notin preauth[v] \cup sockReg[v]
                           /\ c \notin queueReg[v] \cup queueEv[v] \cup sockEv[v]
                           /\ c \notin OnDconn(v)
                           /\ hold[v] # c
                           /\ v # w => cur[v] # c
  <2>1. c \notin table /\ Pending(c)
    BY <1>3 DEF ListInv, Pending
  <2>2. \A v \in Worker : /\ v # w => c \notin preauth[v] \cup sockReg[v]
                          /\ c \notin queueReg[v] \cup queueEv[v] \cup sockEv[v]
    BY <1>3, <2>1 DEF ListInv, EventInv
  <2>3. \A v \in Worker : c \notin OnDconn(v) /\ hold[v] # c /\ (v # w => cur[v] # c)
    BY <1>2, <1>3, <2>1, SessionAssumption DEF ListInv, HoldInv, CurInv
  <2> QED BY <2>1, <2>2, <2>3
<1>5. /\ \A d \in Client : d # c => username'[d] = username[d]
      /\ username'[c] = n
      /\ username' \in [Client -> Name \cup {None}]
      /\ clth' \in [Worker -> SUBSET Client]
      /\ preauth' \in [Worker -> SUBSET Client]
      /\ target' \in [Worker -> Name \cup {None}]
  BY <1>1, <1>2 DEF TypeOK
<1>6. /\ \A v \in Worker : v # w => /\ clth'[v] = clth[v] /\ preauth'[v] = preauth[v]
                                    /\ target'[v] = target[v]
      /\ clth'[w] = clth[w] \ {c} /\ preauth'[w] = preauth[w] \ {c} /\ target'[w] = None
  BY <1>1 DEF TypeOK
<1>7. \A v \in Worker : OnDconn(v)' = OnDconn(v)
  BY <1>1 DEF OnDconn
<1>8. DeadlineCovered'
  <2>1. \A v \in Worker : v # w => clth'[v] = {d \in preauth'[v] : cl_state'[d] = "ACCEPTED"}
    BY <1>1, <1>6 DEF DeadlineCovered
  <2>2. clth'[w] = {d \in preauth'[w] : cl_state'[d] = "ACCEPTED"}
    BY <1>1, <1>6 DEF DeadlineCovered
  <2> QED BY <2>1, <2>2 DEF DeadlineCovered
<1>9. \A v \in Worker : \A d \in preauth'[v] : d \in preauth[v] /\ d # c /\ d \in Client
  <2> SUFFICES ASSUME NEW v \in Worker, NEW d \in preauth'[v]
               PROVE  d \in preauth[v] /\ d # c /\ d \in Client
    OBVIOUS
  <2>1. d \in preauth[v] /\ d # c
    BY <1>4, <1>6
  <2> QED BY <2>1 DEF TypeOK
<1>10. \A d \in Client, v \in Worker : d # c /\ d \in preauth[v] => d \in preauth'[v]
  BY <1>6
<1>11. CASE Lookup(n) = {}
  <2>1. /\ table' = table \cup {c}
        /\ queues' = [queues EXCEPT ![c] = TRUE]
        /\ queueReg' = [queueReg EXCEPT ![w] = @ \cup {c}]
        /\ pc' = [pc EXCEPT ![w] = "auth_ok"]
        /\ UNCHANGED <<mem, sockReg, cur>>
    BY <1>11 DEF AuthAdd, Goto
  <2>2. TypeOK'
    <3>1. /\ table' \in SUBSET Client
          /\ queues' \in [Client -> BOOLEAN]
          /\ queueReg' \in [Worker -> SUBSET Client]
          /\ pc' \in [Worker -> PCs]
      BY <1>2, <2>1 DEF TypeOK, PCs
    <3> QED BY <1>1, <1>5, <2>1, <3>1 DEF TypeOK
  <2>3. /\ \A v \in Worker : v # w => pc'[v] = pc[v] /\ queueReg'[v] = queueReg[v]
        /\ pc'[w] = "auth_ok" /\ queueReg'[w] = queueReg[w] \cup {c}
        /\ \A d \in Client : d # c => queues'[d] = queues[d]
        /\ queues'[c]
    BY <1>2, <2>1 DEF TypeOK
  <2>4. LocalInv'
    <3> SUFFICES ASSUME NEW v \in Worker PROVE LocalInv!(v)'
      BY DEF LocalInv
    <3>1. CASE v = w
      BY <3>1, <1>1, <1>2, <1>6, <2>1, <2>3, SessionAssumption DEF LocalInv, IdlePCs, HoldPCs
    <3>2. CASE v # w
      BY <3>2, <1>1, <1>6, <2>1, <2>3 DEF LocalInv
    <3> QED BY <3>1, <3>2
  <2>5. CurInv'
    <3> SUFFICES ASSUME NEW v \in Worker, cur[v] # None PROVE CurInv!(v)'
      BY <2>1 DEF CurInv
    <3>1. CASE v = w
      BY <3>1, <1>1, <1>3, <2>1, <2>3 DEF CurInv
    <3>2. CASE v # w
      BY <3>2, <1>1, <1>6, <2>1, <2>3 DEF CurInv
    <3> QED BY <3>1, <3>2
  <2>6. StageInv'
    <3> SUFFICES ASSUME NEW d \in Client, mem[d] = "live" PROVE StageInv!(d)'
      BY <2>1 DEF StageInv
    <3>1. CASE d = c
      BY <3>1, <1>1, <1>3, <2>1, <2>3 DEF StageInv
    <3>2. CASE d # c
      <4>1. d \in table' <=> d \in table
        BY <3>2, <2>1
      <4>2. owner[d] \in Worker /\ owner[d] = w /\ d \in table => cl_state[d] \notin {"ACCEPTING", "ACCEPTED"}
        BY <3>2, <1>1 DEF StageInv
      <4> QED BY <3>2, <4>1, <4>2, <1>1, <1>7, <1>10, <2>1, <2>3 DEF StageInv
    <3> QED BY <3>1, <3>2
  <2>7. TableInv'
    <3>1. \A d \in table : d \in Client /\ d # c /\ username'[d] = username[d] /\ username[d] # n
      BY <1>4, <1>5, <1>11 DEF TypeOK, Lookup
    <3> QED BY <3>1, <1>2, <1>3, <1>5, <2>1, SessionAssumption DEF TableInv
  <2>8. ListInv'
    <3>1. \A v \in Worker : \A d \in preauth'[v] : mem[d] = "live" /\ owner[d] = v /\ Pending(d)'
      BY <1>1, <1>9, <2>1 DEF ListInv, Pending
    <3>2. \A v \in Worker : \A d \in OnDconn(v) :
             d \in table' /\ owner[d] = v /\ cl_state[d] = "DISCONNECTED"
      BY <2>1 DEF ListInv
    <3> QED BY <1>1, <1>7, <2>1, <3>1, <3>2 DEF ListInv
  <2>9. EventInv'
    <3>1. \A v \in Worker : \A d \in sockReg[v] \cup queueReg'[v] :
             owner[d] = v /\ mem[d] = "live" /\ cl_state[d] # "DISCONNECTED"
      <4> SUFFICES ASSUME NEW v \in Worker, NEW d \in sockReg[v] \cup queueReg'[v]
                   PROVE  owner[d] = v /\ mem[d] = "live" /\ cl_state[d] # "DISCONNECTED"
        OBVIOUS
      <4>1. CASE d \in sockReg[v] \cup queueReg[v]
        BY <4>1 DEF EventInv
      <4>2. CASE v = w /\ d = c
        BY <4>2, <1>3
      <4> QED BY <4>1, <4>2, <2>3
    <3>2. \A v \in Worker : \A d \in sockEv[v] \cup queueEv[v] :
             owner[d] = v /\ mem[d] = "live" /\ (Pending(d)' \/ d \in table')
      BY <1>1, <1>4, <2>1 DEF EventInv, Pending
    <3>3. \A v \in Worker : queueReg'[v] \cup queueEv[v] \subseteq table'
      <4> SUFFICES ASSUME NEW v \in Worker PROVE queueReg'[v] \cup queueEv[v] \subseteq table'
        OBVIOUS
      <4>1. queueReg[v] \cup queueEv[v] \subseteq table
        BY DEF EventInv
      <4>2. queueReg'[v] \subseteq queueReg[v] \cup {c}
        BY <2>3
      <4> QED BY <4>1, <4>2, <2>1
    <3> QED BY <1>1, <2>1, <3>1, <3>2, <3>3 DEF EventInv
  <2>10. HoldInv'
    BY <1>1, <1>4, <2>1 DEF HoldInv, Pending
  <2>11. NoDoubleFree'
    BY <2>1 DEF NoDoubleFree
  <2>12. RefCountExact'
    BY <1>1, <1>3, <2>1 DEF RefCountExact, TableRef, Holders
  <2> QED
    BY <1>8, <2>2, <2>4, <2>5, <2>6, <2>7, <2>8, <2>9, <2>10, <2>11, <2>12
    DEF StepInv, ClientInv
<1>12. CASE Lookup(n) # {}
  <2>1. /\ mem' = FreeMem({c})
        /\ sockReg' = [sockReg EXCEPT ![w] = @ \ {c}]
        /\ cur' = [cur EXCEPT ![w] = None]
        /\ pc' = [pc EXCEPT ![w] = "batch"]
        /\ UNCHANGED <<table, queues, queueReg>>
    BY <1>12 DEF AuthAdd, Goto
  <2>u. UNCHANGED <<cl_state, owner, hold, dconn, table, queueReg, sockEv, queueEv>>
    BY <1>1, <2>1
  <2>2. /\ \A d \in Client : d # c => mem'[d] = mem[d]
        /\ mem'[c] = "freed"
        /\ mem' \in [Client -> {"unused", "live", "freed", "corrupt"}]
    BY <1>2, <1>3, <2>1 DEF FreeMem, TypeOK
  <2>3. TypeOK'
    <3>1. /\ sockReg' \in [Worker -> SUBSET Client]
          /\ cur' \in [Worker -> Client \cup {None}]
          /\ pc' \in [Worker -> PCs]
      BY <2>1 DEF TypeOK, PCs
    <3> QED BY <1>1, <1>5, <2>1, <2>2, <3>1 DEF TypeOK
  <2>4. /\ \A v \in Worker : v # w => pc'[v] = pc[v] /\ sockReg'[v] = sockReg[v] /\ cur'[v] = cur[v]
        /\ pc'[w] = "batch" /\ sockReg'[w] = sockReg[w] \ {c} /\ cur'[w] = None
    BY <2>1 DEF TypeOK
  <2>5. LocalInv'
    <3> SUFFICES ASSUME NEW v \in Worker PROVE LocalInv!(v)'
      BY DEF LocalInv
    <3>1. CASE v = w
      BY <3>1, <1>1, <1>6, <2>1, <2>4 DEF LocalInv, IdlePCs, HoldPCs
    <3>2. CASE v # w
      BY <3>2, <1>1, <1>6, <2>1, <2>4 DEF LocalInv
    <3> QED BY <3>1, <3>2
  <2>6. CurInv'
    <3> SUFFICES ASSUME NEW v \in Worker, cur'[v] # None PROVE CurInv!(v)'
      BY DEF CurInv
    <3>1. v # w /\ cur'[v] = cur[v] /\ cur[v] \in Client /\ cur[v] # c
      BY <1>4, <2>4 DEF TypeOK
    <3>2. CurInv!(v)
      BY DEF CurInv
    <3>3. mem'[cur[v]] = mem[cur[v]] /\ pc'[v] = pc[v] /\ preauth'[v] = preauth[v]
      BY <3>1, <1>6, <2>2, <2>4
    <3> QED BY <3>1, <3>2, <3>3, <2>u
  <2>7. StageInv'
    <3> SUFFICES ASSUME NEW d \in Client, mem'[d] = "live" PROVE StageInv!(d)'
      BY DEF StageInv
    <3>1. d # c /\ mem[d] = "live"
      BY <2>2
    <3>2. owner[d] = w /\ d \in table => cl_state[d] \notin {"ACCEPTING", "ACCEPTED"}
      BY <3>1, <1>1 DEF StageInv
    <3> QED BY <3>1, <3>2, <1>1, <1>7, <1>10, <2>1, <2>4 DEF StageInv
  <2>8. TableInv'
    <3>1. \A d \in table : d \in Client /\ d # c
      BY <1>4 DEF TypeOK
    <3>2. \A d \in table : username'[d] = username[d] /\ mem'[d] = mem[d]
      BY <3>1, <1>5, <2>2
    <3> QED BY <3>2, <2>u DEF TableInv
  <2>9. ListInv'
    <3>1. \A v \in Worker : \A d \in preauth'[v] : mem'[d] = "live" /\ owner[d] = v /\ Pending(d)'
      BY <1>9, <2>u, <2>2 DEF ListInv, Pending
    <3> QED BY <1>7, <2>u, <3>1 DEF ListInv
  <2>10. EventInv'
    <3>1. \A v \in Worker : \A d \in sockReg'[v] \cup queueReg[v] \cup sockEv[v] \cup queueEv[v] :
             d \in Client /\ d # c
      <4> SUFFICES ASSUME NEW v \in Worker,
                          NEW d \in sockReg'[v] \cup queueReg[v] \cup sockEv[v] \cup queueEv[v]
                   PROVE  d \in Client /\ d # c
        OBVIOUS
      <4>1. d # c
        BY <1>4, <2>4
      <4>2. d \in sockReg[v] \cup queueReg[v] \cup sockEv[v] \cup queueEv[v]
        BY <2>4
      <4> QED BY <4>1, <4>2 DEF TypeOK
    <3>2. \A v \in Worker : sockReg'[v] \subseteq sockReg[v]
      BY <2>4
    <3>3. \A v \in Worker : \A d \in sockReg'[v] \cup queueReg[v] :
             owner[d] = v /\ mem'[d] = "live" /\ cl_state[d] # "DISCONNECTED"
      BY <3>1, <3>2, <2>2 DEF EventInv
    <3>4. \A v \in Worker : \A d \in sockEv[v] \cup queueEv[v] :
             owner[d] = v /\ mem'[d] = "live" /\ (Pending(d) \/ d \in table)
      BY <3>1, <2>2 DEF EventInv
    <3> QED BY <2>u, <3>3, <3>4 DEF EventInv, Pending
  <2>11. HoldInv'
    <3>1. \A v \in Worker : hold[v] # None => hold[v] \in Client /\ hold[v] # c
      BY <1>4 DEF TypeOK
    <3>2. \A v \in Worker : hold[v] # None => mem'[hold[v]] = "live" /\ ~ Pending(hold[v])
      BY <3>1, <2>2 DEF HoldInv
    <3> QED BY <2>u, <2>2, <3>2 DEF HoldInv, Pending
  <2>12. NoDoubleFree'
    BY <2>2 DEF NoDoubleFree
  <2>13. RefCountExact'
    BY <1>1, <2>1, <2>2 DEF RefCountExact, TableRef, Holders
  <2> QED
    BY <1>8, <2>3, <2>5, <2>6, <2>7, <2>8, <2>9, <2>10, <2>11, <2>12, <2>13
    DEF StepInv, ClientInv
<1> QED
  BY <1>11, <1>12

LEMMA AuthDoneStep ==
    ASSUME IInv, NEW w \in Worker, AuthDone(w)
    PROVE  StepInv'
<1> DEFINE c == cur[w]
<1> USE DEF IInv, eventVars, lookupVars, listVars, regVars
<1>1. /\ pc[w] = "auth_ok"
      /\ cl_state' = [cl_state EXCEPT ![c] = "AUTHENTICATED"]
      /\ cur' = [cur EXCEPT ![w] = None]
      /\ pc' = [pc EXCEPT ![w] = "batch"]
      /\ UNCHANGED <<mem, owner, username, queues, ref_cnt, pdus, table, phase, listVars,
                     eventVars, lookupVars>>
  BY DEF AuthDone, Goto
<1>2. c \in Client
  BY <1>1 DEF LocalInv, TypeOK, IdlePCs
<1>3. /\ owner[c] = w /\ mem[c] = "live" /\ cl_state[c] = "ACCEPTED" /\ c \in table
  BY <1>1, <1>2, SessionAssumption DEF CurInv
<1>4. /\ \A d \in Client : d # c => cl_state'[d] = cl_state[d]
      /\ cl_state'[c] = "AUTHENTICATED"
      /\ cl_state' \in [Client -> States]
      /\ \A v \in Worker : v # w => pc'[v] = pc[v] /\ cur'[v] = cur[v]
      /\ pc'[w] = "batch" /\ cur'[w] = None
      /\ pc' \in [Worker -> PCs]
      /\ cur' \in [Worker -> Client \cup {None}]
  BY <1>1, <1>2 DEF TypeOK, States, PCs
<1>5. TypeOK'
  BY <1>1, <1>4 DEF TypeOK
<1>6. \A d \in Client : Pending(d)' <=> Pending(d)
  BY <1>1, <1>3, <1>4 DEF Pending
<1>7. \A v \in Worker : OnDconn(v)' = OnDconn(v)
  BY <1>1 DEF OnDconn
<1>8. LocalInv'
  <2> SUFFICES ASSUME NEW v \in Worker PROVE LocalInv!(v)'
    BY DEF LocalInv
  <2>1. CASE v = w
    BY <2>1, <1>1, <1>4 DEF LocalInv, IdlePCs, HoldPCs
  <2>2. CASE v # w
    BY <2>2, <1>1, <1>4 DEF LocalInv
  <2> QED BY <2>1, <2>2
<1>9. CurInv'
  <2> SUFFICES ASSUME NEW v \in Worker, cur'[v] # None PROVE CurInv!(v)'
    BY DEF CurInv
  <2>1. v # w /\ cur'[v] = cur[v] /\ cur[v] \in Client
    BY <1>4 DEF TypeOK
  <2>2. cur[v] # c
    BY <2>1, <1>3, SessionAssumption DEF CurInv
  <2> QED BY <2>1, <2>2, <1>1, <1>4 DEF CurInv
<1>10. StageInv'
  <2> SUFFICES ASSUME NEW d \in Client, mem[d] = "live" PROVE StageInv!(d)'
    BY <1>1 DEF StageInv
  <2>1. CASE d = c
    BY <2>1, <1>1, <1>3, <1>4 DEF StageInv
  <2>2. CASE d # c
    <3>1. owner[d] = w /\ d \in table => cl_state[d] \notin {"ACCEPTING", "ACCEPTED"}
      BY <2>2 DEF StageInv
    <3> QED BY <2>2, <3>1, <1>1, <1>4, <1>7 DEF StageInv
  <2> QED BY <2>1, <2>2
<1>11. TableInv'
  BY <1>1 DEF TableInv
<1>12. ListInv'
  <2>1. \A v \in Worker : c \notin OnDconn(v) /\ OnDconn(v) \subseteq Client
    BY <1>3 DEF ListInv, TypeOK
  <2>2. \A v \in Worker : \A d \in OnDconn(v) : cl_state'[d] = "DISCONNECTED"
    BY <2>1, <1>4 DEF ListInv
  <2>3. \A v \in Worker : \A d \in preauth[v] : Pending(d)'
    BY <1>6 DEF ListInv, TypeOK
  <2> QED BY <2>2, <2>3, <1>1, <1>7 DEF ListInv
<1>13. DeadlineCovered'
  <2>1. \A v \in Worker : c \notin preauth[v] /\ preauth[v] \subseteq Client
    BY <1>3 DEF ListInv, TypeOK, Pending
  <2> QED BY <2>1, <1>1, <1>4 DEF DeadlineCovered
<1>14. EventInv'
  <2>1. \A v \in Worker : \A d \in sockReg[v] \cup queueReg[v] : cl_state'[d] # "DISCONNECTED"
    BY <1>4 DEF EventInv, TypeOK
  <2>2. \A v \in Worker : \A d \in sockEv[v] \cup queueEv[v] : Pending(d)' \/ d \in table
    BY <1>6 DEF EventInv, TypeOK
  <2> QED BY <2>1, <2>2, <1>1 DEF EventInv
<1>15. HoldInv'
  <2>1. \A v \in Worker : hold[v] # None => hold[v] \in Client /\ ~ Pending(hold[v])
    BY DEF HoldInv, TypeOK
  <2>2. \A v \in Worker : hold[v] # None => ~ Pending(hold[v])'
    <3> SUFFICES ASSUME NEW v \in Worker, hold[v] # None PROVE ~ Pending(hold[v])'
      OBVIOUS
    <3>1. hold[v] \in Client /\ ~ (cl_state[hold[v]] \in {"ACCEPTING", "ACCEPTED"} /\ hold[v] \notin table)
      BY <2>1 DEF Pending
    <3>2. ~ (cl_state'[hold[v]] \in {"ACCEPTING", "ACCEPTED"} /\ hold[v] \notin table)
      BY <3>1, <1>4
    <3> QED BY <3>2, <1>1 DEF Pending
  <2> QED BY <2>2, <1>1, <1>4 DEF HoldInv
<1>16. NoDoubleFree'
  BY <1>1 DEF NoDoubleFree
<1>17. RefCountExact'
  BY <1>1, <1>3, <1>4 DEF RefCountExact, TableRef, Holders
<1> QED
  BY <1>5, <1>8, <1>9, <1>10, <1>11, <1>12, <1>13, <1>14, <1>15, <1>16, <1>17
  DEF StepInv, ClientInv

-----------------------------------------------------------------------------
(* Taking and dropping references.                                          *)

\* The holders of a reference are finitely many, so counting them works.
LEMMA HoldersFinite ==
    ASSUME NEW c
    PROVE  IsFiniteSet(Holders(c)) /\ Cardinality(Holders(c)) \in Nat
BY SessionAssumption, FS_Subset, FS_CardinalityType DEF Holders

\* What node_put does to the client whose reference is dropped, and that it
\* does nothing to the others.
LEMMA NodePut ==
    ASSUME TypeOK, NEW c \in Client, node_put(c), mem[c] = "live", ref_cnt[c] # 0
    PROVE  /\ ref_cnt' \in [Client -> Nat]
           /\ mem' \in [Client -> {"unused", "live", "freed", "corrupt"}]
           /\ queues' \in [Client -> BOOLEAN]
           /\ sockReg' \in [Worker -> SUBSET Client]
           /\ queueReg' \in [Worker -> SUBSET Client]
           /\ \A d \in Client : d # c =>
                 mem'[d] = mem[d] /\ ref_cnt'[d] = ref_cnt[d] /\ queues'[d] = queues[d]
           /\ ref_cnt'[c] = ref_cnt[c] - 1
           /\ ref_cnt[c] # 1 => UNCHANGED <<mem, queues, sockReg, queueReg>>
           /\ ref_cnt[c] = 1 => mem'[c] = "freed"
           /\ \A v \in Worker : /\ sockReg'[v] \subseteq sockReg[v]
                                /\ queueReg'[v] \subseteq queueReg[v]
                                /\ ref_cnt[c] = 1 => c \notin sockReg'[v] \cup queueReg'[v]
<1>1. ref_cnt' = [ref_cnt EXCEPT ![c] = @ - 1] /\ ref_cnt[c] \in Nat \ {0}
  BY DEF node_put, TypeOK
<1>2. /\ ref_cnt' \in [Client -> Nat]
      /\ \A d \in Client : d # c => ref_cnt'[d] = ref_cnt[d]
      /\ ref_cnt'[c] = ref_cnt[c] - 1
  BY <1>1 DEF TypeOK
<1>3. CASE ref_cnt[c] = 1
  <2>1. /\ mem' = FreeMem({c})
        /\ queues' = [queues EXCEPT ![c] = FALSE]
        /\ sockReg' = [v \in Worker |-> sockReg[v] \ {c}]
        /\ queueReg' = [v \in Worker |-> queueReg[v] \ {c}]
    BY <1>3 DEF node_put, free_std_client
  <2>2. /\ mem' \in [Client -> {"unused", "live", "freed", "corrupt"}]
        /\ \A d \in Client : d # c => mem'[d] = mem[d]
        /\ mem'[c] = "freed"
    BY <2>1 DEF FreeMem, TypeOK
  <2>3. /\ queues' \in [Client -> BOOLEAN]
        /\ \A d \in Client : d # c => queues'[d] = queues[d]
    BY <2>1 DEF TypeOK
  <2>4. /\ sockReg' \in [Worker -> SUBSET Client]
        /\ queueReg' \in [Worker -> SUBSET Client]
        /\ \A v \in Worker : /\ sockReg'[v] = sockReg[v] \ {c}
                             /\ queueReg'[v] = queueReg[v] \ {c}
    BY <2>1 DEF TypeOK
  <2> QED BY <1>2, <1>3, <2>2, <2>3, <2>4
<1>4. CASE ref_cnt[c] # 1
  <2>1. UNCHANGED <<mem, queues, sockReg, queueReg>>
    BY <1>4 DEF node_put, regVars
  <2> QED BY <1>2, <1>4, <2>1 DEF TypeOK
<1> QED
  BY <1>3, <1>4

LEMMA htable_getStep ==
    ASSUME IInv, NEW w \in Worker, htable_get(w)
    PROVE  StepInv'
<1>0. /\ pc[w] = "get"
      /\ UNCHANGED <<mem, cl_state, owner, username, queues, pdus, table, phase, listVars,
                     eventVars, cur>>
  BY DEF htable_get
<1>1. CASE EndLookup(w, Returns(use[w], FALSE)) /\ UNCHANGED <<hold, ref_cnt>>
  <2>1. PICK l \in {"reply", "gone", "send_tss", "send"} :
            EndLookup(w, l) /\ UNCHANGED <<hold, ref_cnt>>
    BY <1>1 DEF Returns
  <2>2. Move(w, l, None, "none")
    BY <1>0, <2>1, LocalTypes
    DEF Move, EndLookup, Goto, HandlerPCs, HoldPCs, IdlePCs, PCs, Uses, cleanupVars, listVars
  <2> QED BY <2>2, HandlerMove
<1>2. ASSUME NEW c \in Lookup(target[w]),
             hold' = [hold EXCEPT ![w] = c],
             ref_cnt' = [ref_cnt EXCEPT ![c] = @ + 1],
             pc' = [pc EXCEPT ![w] = "cond"],
             UNCHANGED <<target, use>>
      PROVE  StepInv'
  <2> USE DEF IInv
  <2>1. c \in Client /\ c \in table /\ mem[c] = "live"
    BY <1>2 DEF Lookup, TypeOK, TableInv
  <2>2. UNCHANGED <<preauth, clth, dconn, sockReg, queueReg, sockEv, queueEv, loopEv>>
    BY <1>0 DEF listVars, regVars, eventVars
  <2>3. /\ hold' \in [Worker -> Client \cup {None}]
        /\ ref_cnt' \in [Client -> Nat]
        /\ pc' \in [Worker -> PCs]
        /\ hold'[w] = c /\ pc'[w] = "cond"
        /\ \A v \in Worker : v # w => hold'[v] = hold[v] /\ pc'[v] = pc[v]
        /\ ref_cnt'[c] = ref_cnt[c] + 1
        /\ \A d \in Client : d # c => ref_cnt'[d] = ref_cnt[d]
    BY <1>2, <2>1 DEF TypeOK, PCs
  <2>4. TypeOK'
    BY <1>0, <1>2, <2>2, <2>3 DEF TypeOK
  <2>5. \A v \in Worker : OnDconn(v)' = OnDconn(v)
    BY <2>2 DEF OnDconn
  <2>6. StageInv'
    <3>1. \A v \in Worker : pc[v] = "auth_ok" => pc'[v] = "auth_ok"
      BY <1>0, <2>3
    <3> QED BY <3>1, <1>0, <2>2, <2>5 DEF StageInv
  <2>7. TableInv'
    BY <1>0 DEF TableInv
  <2>8. ListInv'
    BY <1>0, <2>2, <2>5 DEF ListInv, Pending
  <2>9. DeadlineCovered'
    BY <1>0, <2>2 DEF DeadlineCovered
  <2>10. EventInv'
    BY <1>0, <2>2 DEF EventInv, Pending
  <2>11. hold[w] = None
    BY <1>0 DEF LocalInv, HoldPCs
  <2>12. HoldInv'
    <3>1. \A v \in Worker : hold'[v] # None => mem[hold'[v]] = "live" /\ ~ Pending(hold'[v])
      BY <2>1, <2>3 DEF HoldInv, Pending
    <3>2. \A d \in Client : (\E v \in Worker : hold[v] = d) => \E v \in Worker : hold'[v] = d
      BY <2>3, <2>11, SessionAssumption
    <3> QED BY <1>0, <3>1, <3>2 DEF HoldInv, Pending
  <2>13. NoDoubleFree'
    BY <1>0 DEF NoDoubleFree
  <2>14. RefCountExact'
    <3>1. Holders(c)' = Holders(c) \cup {w} /\ w \notin Holders(c)
      BY <2>1, <2>3, <2>11, SessionAssumption DEF Holders
    <3>2. \A d \in Client : d # c => Holders(d)' = Holders(d)
      BY <2>3, <2>11, SessionAssumption DEF Holders
    <3>3. Cardinality(Holders(c)') = Cardinality(Holders(c)) + 1
      BY <3>1, HoldersFinite, FS_AddElement
    <3>4. \A d \in Client : TableRef(d)' = TableRef(d) /\ TableRef(d) \in Nat
      BY <1>0 DEF TableRef
    <3>5. ref_cnt'[c] = TableRef(c) + Cardinality(Holders(c)')
      BY <2>1, <2>3, <3>3, <3>4, HoldersFinite DEF RefCountExact
    <3>6. \A d \in Client : d # c /\ mem[d] = "live" => ref_cnt'[d] = TableRef(d) + Cardinality(Holders(d)')
      BY <2>3, <3>2 DEF RefCountExact
    <3> QED BY <1>0, <3>4, <3>5, <3>6 DEF RefCountExact
  <2>15. LocalInv'
    <3> SUFFICES ASSUME NEW v \in Worker PROVE LocalInv!(v)'
      BY DEF LocalInv
    <3>1. CASE v = w
      BY <3>1, <1>0, <1>2, <2>1, <2>2, <2>3, SessionAssumption DEF LocalInv, IdlePCs, HoldPCs
    <3>2. CASE v # w
      BY <3>2, <1>0, <1>2, <2>2, <2>3 DEF LocalInv
    <3> QED BY <3>1, <3>2
  <2>16. CurInv'
    <3> SUFFICES ASSUME NEW v \in Worker, cur[v] # None PROVE CurInv!(v)'
      BY <1>0 DEF CurInv
    <3>1. CASE v = w
      BY <3>1, <1>0, <2>2, <2>3 DEF CurInv
    <3>2. CASE v # w
      BY <3>2, <1>0, <2>2, <2>3 DEF CurInv
    <3> QED BY <3>1, <3>2
  <2> QED
    BY <2>4, <2>6, <2>7, <2>8, <2>9, <2>10, <2>12, <2>13, <2>14, <2>15, <2>16
    DEF StepInv, ClientInv
<1> QED
  BY <1>1, <1>2 DEF htable_get, Goto

LEMMA PutStep ==
    ASSUME IInv, NEW w \in Worker, Put(w)
    PROVE  StepInv'
<1> USE DEF IInv
<1> SUFFICES ASSUME NEW c, c = hold[w] PROVE StepInv'
  OBVIOUS
<1>0. PICK l \in {"respond", "reply", "inbound", "gone", "send_tss", "send"} :
        /\ pc[w] \in {"put", "drop"}
        /\ node_put(c)
        /\ hold' = [hold EXCEPT ![w] = None]
        /\ target' = [target EXCEPT ![w] = IF l = "respond" THEN @ ELSE None]
        /\ use' = [use EXCEPT ![w] = "none"]
        /\ pc' = [pc EXCEPT ![w] = l]
  BY DEF Put, EndLookup, Goto, Returns
<1>u. UNCHANGED <<cl_state, owner, username, pdus, table, phase, preauth, clth, dconn, sockEv,
                  queueEv, loopEv, cur>>
  BY DEF Put, eventVars
<1>1. c \in Client /\ mem[c] = "live" /\ ~ Pending(c)
  BY <1>0 DEF LocalInv, HoldInv, TypeOK, HoldPCs
<1>2. /\ w \in Holders(c)
      /\ Cardinality(Holders(c)) \in Nat \ {0}
      /\ ref_cnt[c] = TableRef(c) + Cardinality(Holders(c))
      /\ TableRef(c) \in {0, 1}
  <2>1. w \in Holders(c)
    BY DEF Holders
  <2>2. Cardinality(Holders(c)) \in Nat \ {0}
    BY <2>1, HoldersFinite, FS_EmptySet
  <2> QED BY <1>1, <2>1, <2>2 DEF RefCountExact, TableRef
<1>3. ref_cnt[c] # 0
  BY <1>2
<1>4. /\ ref_cnt' \in [Client -> Nat]
      /\ mem' \in [Client -> {"unused", "live", "freed", "corrupt"}]
      /\ queues' \in [Client -> BOOLEAN]
      /\ sockReg' \in [Worker -> SUBSET Client]
      /\ queueReg' \in [Worker -> SUBSET Client]
      /\ \A d \in Client : d # c =>
            mem'[d] = mem[d] /\ ref_cnt'[d] = ref_cnt[d] /\ queues'[d] = queues[d]
      /\ ref_cnt'[c] = ref_cnt[c] - 1
      /\ ref_cnt[c] # 1 => UNCHANGED <<mem, queues, sockReg, queueReg>>
      /\ ref_cnt[c] = 1 => mem'[c] = "freed"
      /\ \A v \in Worker : /\ sockReg'[v] \subseteq sockReg[v]
                           /\ queueReg'[v] \subseteq queueReg[v]
                           /\ ref_cnt[c] = 1 => c \notin sockReg'[v] \cup queueReg'[v]
  BY <1>0, <1>1, <1>3, NodePut
<1>5. /\ hold'[w] = None /\ pc'[w] = l /\ use'[w] = "none"
      /\ target'[w] = IF l = "respond" THEN target[w] ELSE None
      /\ \A v \in Worker : v # w => /\ hold'[v] = hold[v] /\ pc'[v] = pc[v]
                                    /\ target'[v] = target[v] /\ use'[v] = use[v]
      /\ hold' \in [Worker -> Client \cup {None}]
      /\ pc' \in [Worker -> PCs]
      /\ target' \in [Worker -> Name \cup {None}]
      /\ use' \in [Worker -> Uses]
  BY <1>0 DEF TypeOK, PCs, Uses
<1>6. TypeOK'
  BY <1>u, <1>4, <1>5 DEF TypeOK
<1>7. \A v \in Worker : OnDconn(v)' = OnDconn(v)
  BY <1>u DEF OnDconn
\* When the last reference goes, the client is unlinked and no one reaches it.
<1>8. ref_cnt[c] = 1 => /\ c \notin table /\ Holders(c) = {w}
                        /\ cl_state[c] = "DISCONNECTED"
                        /\ \A v \in Worker : /\ c \notin preauth[v]
                                             /\ c \notin sockEv[v] \cup queueEv[v]
                                             /\ cur[v] # c
  <2> SUFFICES ASSUME ref_cnt[c] = 1
               PROVE  /\ c \notin table /\ Holders(c) = {w}
                      /\ cl_state[c] = "DISCONNECTED"
                      /\ \A v \in Worker : /\ c \notin preauth[v]
                                           /\ c \notin sockEv[v] \cup queueEv[v]
                                           /\ cur[v] # c
    OBVIOUS
  <2>1. TableRef(c) = 0 /\ Cardinality(Holders(c)) = 1
    BY <1>2
  <2>2. PICK x : Holders(c) = {x}
    BY <2>1, HoldersFinite, FS_Singleton
  <2>3. c \notin table /\ cl_state[c] \in {"AUTHENTICATED", "DISCONNECTED"}
    BY <2>1 DEF TableRef
  <2>4. cl_state[c] = "DISCONNECTED"
    BY <1>1, <2>3 DEF StageInv
  <2>5. \A v \in Worker : c \notin preauth[v] /\ c \notin sockEv[v] \cup queueEv[v]
    BY <1>1, <2>3 DEF ListInv, EventInv
  <2>6. \A v \in Worker : cur[v] # c
    BY <1>1, <2>3, <2>4, SessionAssumption DEF CurInv
  <2> QED BY <1>2, <2>2, <2>3, <2>4, <2>5, <2>6
<1>9. \A v \in Worker : cur[v] # None => cur[v] \in Client /\ mem'[cur[v]] = "live"
  <2>1. \A v \in Worker : cur[v] # None => cur[v] \in Client /\ mem[cur[v]] = "live"
    BY DEF CurInv, TypeOK
  <2> QED BY <2>1, <1>4, <1>8
<1>10. LocalInv'
  <2> SUFFICES ASSUME NEW v \in Worker PROVE LocalInv!(v)'
    BY DEF LocalInv
  <2>0. /\ sockReg[v] = {} => sockReg'[v] = {}
        /\ queueReg[v] = {} => queueReg'[v] = {}
    BY <1>4
  <2>1. CASE v = w
    BY <2>0, <2>1, <1>0, <1>u, <1>5 DEF LocalInv, IdlePCs, HoldPCs
  <2>2. CASE v # w
    BY <2>0, <2>2, <1>u, <1>5 DEF LocalInv
  <2> QED BY <2>1, <2>2
<1>11. CurInv'
  <2> SUFFICES ASSUME NEW v \in Worker, cur[v] # None PROVE CurInv!(v)'
    BY <1>u DEF CurInv
  <2>1. CASE v = w
    BY <2>1, <1>0, <1>u, <1>5, <1>9 DEF CurInv
  <2>2. CASE v # w
    BY <2>2, <1>u, <1>5, <1>9 DEF CurInv
  <2> QED BY <2>1, <2>2
<1>12. StageInv'
  <2> SUFFICES ASSUME NEW d \in Client, mem'[d] = "live" PROVE StageInv!(d)'
    BY DEF StageInv
  <2>1. mem[d] = "live" /\ queues'[d] = queues[d]
    BY <1>4, <1>1
  <2>2. \A v \in Worker : pc[v] = "auth_ok" => pc'[v] = "auth_ok"
    BY <1>0, <1>5
  <2> QED BY <2>1, <2>2, <1>u, <1>7 DEF StageInv
<1>13. TableInv'
  <2>1. \A d \in table : mem'[d] = "live"
    BY <1>4, <1>8 DEF TableInv, TypeOK
  <2> QED BY <2>1, <1>u DEF TableInv
<1>14. ListInv'
  <2>1. \A v \in Worker : \A d \in preauth[v] : mem'[d] = "live"
    BY <1>4, <1>8 DEF ListInv, TypeOK
  <2> QED BY <2>1, <1>u, <1>7 DEF ListInv, Pending
<1>15. DeadlineCovered'
  BY <1>u DEF DeadlineCovered
<1>16. EventInv'
  <2>1. \A v \in Worker : \A d \in sockReg'[v] \cup queueReg'[v] :
           d \in Client /\ d \in sockReg[v] \cup queueReg[v] /\ mem'[d] = mem[d]
    BY <1>4 DEF TypeOK
  <2>2. \A v \in Worker : \A d \in sockEv[v] \cup queueEv[v] : d \in Client /\ mem'[d] = mem[d]
    BY <1>4, <1>8 DEF TypeOK
  <2>3. \A v \in Worker : queueReg'[v] \cup queueEv[v] \subseteq table
    BY <1>4 DEF EventInv
  <2> QED BY <2>1, <2>2, <2>3, <1>u DEF EventInv, Pending
<1>17. HoldInv'
  <2>1. ASSUME NEW v \in Worker, hold'[v] # None
        PROVE  hold'[v] = hold[v] /\ hold[v] \in Client /\ mem'[hold[v]] = "live" /\ ~ Pending(hold[v])
    <3>1. v # w /\ hold'[v] = hold[v] /\ hold[v] \in Client
      BY <2>1, <1>5 DEF TypeOK
    <3>2. hold[v] = c => v \in Holders(c)
      BY DEF Holders
    <3>3. hold[v] = c => ref_cnt[c] # 1
      BY <3>1, <3>2, <1>8
    <3> QED BY <2>1, <3>1, <3>3, <1>4 DEF HoldInv
  <2>2. ASSUME NEW d \in Client, mem'[d] = "live", cl_state[d] = "DISCONNECTED", d \notin table
        PROVE  \E v \in Worker : hold'[v] = d
    <3>1. mem[d] = "live"
      BY <2>2, <1>4, <1>1
    <3>2. CASE d # c
      <4>1. PICK v \in Worker : hold[v] = d
        BY <2>2, <3>1 DEF HoldInv
      <4> QED BY <3>2, <4>1, <1>5
    <3>3. CASE d = c
      <4>1. ref_cnt[c] # 1
        BY <2>2, <3>3, <1>4
      <4>2. Cardinality(Holders(c)) # 1
        BY <2>2, <3>3, <4>1, <1>2 DEF TableRef
      <4>3. Holders(c) # {w}
        BY <4>2, FS_Singleton
      <4>4. PICK v \in Holders(c) : v # w
        BY <4>3, <1>2
      <4> QED BY <3>3, <4>4, <1>5 DEF Holders
    <3> QED BY <3>2, <3>3
  <2> QED BY <2>1, <2>2, <1>u DEF HoldInv, Pending
<1>18. NoDoubleFree'
  BY <1>4 DEF NoDoubleFree
<1>19. RefCountExact'
  <2>1. Holders(c)' = Holders(c) \ {w}
    BY <1>1, <1>5, SessionAssumption DEF Holders
  <2>2. \A d \in Client : d # c => Holders(d)' = Holders(d)
    BY <1>1, <1>5, SessionAssumption DEF Holders
  <2>3. Cardinality(Holders(c)') = Cardinality(Holders(c)) - 1
    BY <1>2, <2>1, HoldersFinite, FS_RemoveElement
  <2>4. \A d \in Client : TableRef(d)' = TableRef(d)
    BY <1>u DEF TableRef
  <2>5. ref_cnt'[c] = TableRef(c) + Cardinality(Holders(c)')
    BY <1>2, <1>4, <2>3
  <2>6. \A d \in Client : d # c /\ mem'[d] = "live" => ref_cnt'[d] = TableRef(d) + Cardinality(Holders(d)')
    BY <1>4, <2>2 DEF RefCountExact
  <2> QED BY <2>4, <2>5, <2>6 DEF RefCountExact
<1> QED
  BY <1>6, <1>10, <1>11, <1>12, <1>13, <1>14, <1>15, <1>16, <1>17, <1>18, <1>19
  DEF StepInv, ClientInv

-----------------------------------------------------------------------------
(* The sweep, and the shutdown of a worker.                                 *)

\* The sweep finds under the key of a disconnected client that very client.
LEMMA IInvSweepsOwnNode ==
    ASSUME IInv
    PROVE  SweepsOwnNode
<1> SUFFICES ASSUME NEW w \in Worker, NEW c \in OnDconn(w)
             PROVE  Lookup(username[c]) = {c}
  BY DEF SweepsOwnNode
<1>1. c \in table
  BY DEF IInv, ListInv
<1>2. \A d \in table : username[c] = username[d] => c = d
  BY <1>1 DEF IInv, TableInv
<1> QED
  BY <1>1, <1>2 DEF Lookup

LEMMA SweepOneStep ==
    ASSUME IInv, NEW w \in Worker, SweepOne(w)
    PROVE  StepInv'
<1> USE DEF IInv
<1> SUFFICES ASSUME NEW c, c = Head(dconn[w]) PROVE StepInv'
  OBVIOUS
<1>u. /\ pc[w] \in {"sweep", "final"}
      /\ dconn[w] # <<>>
      /\ dconn' = [dconn EXCEPT ![w] = Tail(@)]
      /\ UNCHANGED <<cl_state, owner, username, pdus, phase, preauth, clth, sockEv, queueEv,
                     loopEv, pc, cur, hold, target, use>>
  BY DEF SweepOne, eventVars, lookupVars
<1>1. /\ Tail(dconn[w]) \in Seq(Client)
      /\ c \in OnDconn(w)
      /\ {Tail(dconn[w])[i] : i \in 1..Len(Tail(dconn[w]))} = OnDconn(w) \ {c}
      /\ \A i, j \in 1..Len(Tail(dconn[w])) : Tail(dconn[w])[i] = Tail(dconn[w])[j] => i = j
  <2>1. dconn[w] \in Seq(Client)
    BY DEF TypeOK
  <2>2. \A i, j \in 1..Len(dconn[w]) : dconn[w][i] = dconn[w][j] => i = j
    BY DEF ListInv
  <2>3. dconn[w] # <<>>
    BY <1>u
  <2>4. /\ Tail(dconn[w]) \in Seq(Client)
        /\ Head(dconn[w]) \in {dconn[w][i] : i \in 1..Len(dconn[w])}
        /\ {Tail(dconn[w])[i] : i \in 1..Len(Tail(dconn[w]))}
             = {dconn[w][i] : i \in 1..Len(dconn[w])} \ {Head(dconn[w])}
        /\ \A i, j \in 1..Len(Tail(dconn[w])) : Tail(dconn[w])[i] = Tail(dconn[w])[j] => i = j
    BY ONLY <2>1, <2>2, <2>3, TailRange
  <2> QED BY <2>4, Zenon DEF OnDconn
<1>2. /\ c \in Client /\ c \in table /\ owner[c] = w /\ cl_state[c] = "DISCONNECTED"
      /\ mem[c] = "live"
  BY <1>1 DEF ListInv, TableInv, TypeOK
<1>3. table' = table \ {c} /\ node_put(c)
  <2>1. Lookup(username[c]) = {c}
    BY <1>1, IInvSweepsOwnNode DEF SweepsOwnNode
  <2> QED BY <2>1 DEF SweepOne
<1>4. /\ dconn' \in [Worker -> Seq(Client)]
      /\ OnDconn(w)' = OnDconn(w) \ {c}
      /\ \A v \in Worker : v # w => OnDconn(v)' = OnDconn(v) /\ dconn'[v] = dconn[v]
      /\ \A v \in Worker : \A i, j \in 1..Len(dconn'[v]) : dconn'[v][i] = dconn'[v][j] => i = j
  <2>1. dconn' \in [Worker -> Seq(Client)] /\ dconn'[w] = Tail(dconn[w])
    BY <1>u, <1>1 DEF TypeOK
  <2>2. OnDconn(w)' = OnDconn(w) \ {c}
    BY <2>1, <1>1 DEF OnDconn
  <2>3. \A v \in Worker : v # w => dconn'[v] = dconn[v]
    BY <1>u DEF TypeOK
  <2>4. \A v \in Worker : v # w => OnDconn(v)' = OnDconn(v)
    BY <2>3 DEF OnDconn
  <2>5. \A v \in Worker : \A i, j \in 1..Len(dconn'[v]) : dconn'[v][i] = dconn'[v][j] => i = j
    <3>1. \A i, j \in 1..Len(dconn'[w]) : dconn'[w][i] = dconn'[w][j] => i = j
      BY <2>1, <1>1
    <3>2. \A v \in Worker : v # w =>
             \A i, j \in 1..Len(dconn'[v]) : dconn'[v][i] = dconn'[v][j] => i = j
      BY <2>3 DEF ListInv
    <3> QED BY <3>1, <3>2
  <2> QED BY <2>1, <2>2, <2>3, <2>4, <2>5
<1>5. /\ ref_cnt[c] = 1 + Cardinality(Holders(c))
      /\ Cardinality(Holders(c)) \in Nat
      /\ ref_cnt[c] # 0
      /\ ref_cnt[c] = 1 <=> Holders(c) = {}
  <2>1. ref_cnt[c] = 1 + Cardinality(Holders(c))
    BY <1>2 DEF RefCountExact, TableRef
  <2> QED BY <2>1, HoldersFinite, FS_EmptySet
<1>6. /\ ref_cnt' \in [Client -> Nat]
      /\ mem' \in [Client -> {"unused", "live", "freed", "corrupt"}]
      /\ queues' \in [Client -> BOOLEAN]
      /\ sockReg' \in [Worker -> SUBSET Client]
      /\ queueReg' \in [Worker -> SUBSET Client]
      /\ \A d \in Client : d # c =>
            mem'[d] = mem[d] /\ ref_cnt'[d] = ref_cnt[d] /\ queues'[d] = queues[d]
      /\ ref_cnt'[c] = ref_cnt[c] - 1
      /\ ref_cnt[c] # 1 => UNCHANGED <<mem, queues, sockReg, queueReg>>
      /\ ref_cnt[c] = 1 => mem'[c] = "freed"
      /\ \A v \in Worker : /\ sockReg'[v] \subseteq sockReg[v]
                           /\ queueReg'[v] \subseteq queueReg[v]
                           /\ ref_cnt[c] = 1 => c \notin sockReg'[v] \cup queueReg'[v]
  BY <1>2, <1>3, <1>5, NodePut
<1>7. TypeOK'
  <2>1. table' \in SUBSET Client
    BY <1>3 DEF TypeOK
  <2> QED BY <2>1, <1>u, <1>4, <1>6 DEF TypeOK
<1>8. \A v \in Worker : /\ c \notin preauth[v]
                        /\ c \notin sockReg[v] \cup queueReg[v] \cup sockEv[v] \cup queueEv[v]
                        /\ cur[v] # c
  <2>1. \A v \in Worker : c \notin preauth[v] /\ c \notin sockReg[v] \cup queueReg[v]
    BY <1>2 DEF ListInv, EventInv, Pending
  <2>2. sockEv[w] = {} /\ queueEv[w] = {} /\ cur[w] = None
    BY <1>u DEF LocalInv, IdlePCs
  <2>3. \A v \in Worker : v # w => c \notin sockEv[v] \cup queueEv[v]
    BY <1>2 DEF EventInv
  <2>4. \A v \in Worker : v # w => cur[v] # c
    BY <1>2, SessionAssumption DEF CurInv
  <2> QED BY <1>2, <2>1, <2>2, <2>3, <2>4, SessionAssumption
<1>9. LocalInv'
  <2> SUFFICES ASSUME NEW v \in Worker PROVE LocalInv!(v)'
    BY DEF LocalInv
  <2>0. /\ sockReg[v] = {} => sockReg'[v] = {}
        /\ queueReg[v] = {} => queueReg'[v] = {}
    BY <1>6
  <2>1. CASE v = w
    BY <2>0, <2>1, <1>u DEF LocalInv
  <2>2. CASE v # w
    BY <2>0, <2>2, <1>u, <1>4 DEF LocalInv
  <2> QED BY <2>1, <2>2
<1>10. CurInv'
  <2> SUFFICES ASSUME NEW v \in Worker, cur[v] # None PROVE CurInv!(v)'
    BY <1>u DEF CurInv
  <2>1. cur[v] \in Client /\ cur[v] # c
    BY <1>8 DEF TypeOK
  <2>2. mem'[cur[v]] = mem[cur[v]] /\ (cur[v] \in table => cur[v] \in table')
    BY <2>1, <1>3, <1>6
  <2> QED BY <2>2, <1>u DEF CurInv
<1>11. StageInv'
  <2> SUFFICES ASSUME NEW d \in Client, mem'[d] = "live" PROVE StageInv!(d)'
    BY DEF StageInv
  <2>1. mem[d] = "live" /\ queues'[d] = queues[d]
    BY <1>6, <1>2
  <2>2. CASE d = c
    BY <2>1, <2>2, <1>u, <1>2, <1>3 DEF StageInv
  <2>3. CASE d # c
    <3>1. d \in table' <=> d \in table
      BY <2>3, <1>3
    <3>2. \A v \in Worker : d \in OnDconn(v) => d \in OnDconn(v)'
      BY <2>3, <1>4
    <3> QED BY <2>1, <3>1, <3>2, <1>u DEF StageInv
  <2> QED BY <2>2, <2>3
<1>12. TableInv'
  <2>1. \A d \in table' : d \in table /\ d \in Client /\ d # c
    BY <1>3 DEF TypeOK
  <2> QED BY <2>1, <1>u, <1>6 DEF TableInv
<1>13. ListInv'
  <2>1. \A v \in Worker : \A d \in preauth[v] : d \in Client /\ d # c
    BY <1>8 DEF TypeOK
  <2>2. \A v \in Worker : \A d \in preauth[v] : mem'[d] = "live" /\ owner[d] = v /\ Pending(d)'
    BY <2>1, <1>u, <1>3, <1>6 DEF ListInv, Pending
  <2>3. \A v \in Worker : c \notin OnDconn(v)'
    <3>1. \A v \in Worker : v # w => c \notin OnDconn(v)
      BY <1>2 DEF ListInv
    <3> QED BY <3>1, <1>4
  <2>4. \A v \in Worker : \A d \in OnDconn(v)' :
           d \in table' /\ owner[d] = v /\ cl_state[d] = "DISCONNECTED"
    <3> SUFFICES ASSUME NEW v \in Worker, NEW d \in OnDconn(v)'
                 PROVE  d \in table' /\ owner[d] = v /\ cl_state[d] = "DISCONNECTED"
      OBVIOUS
    <3>1. d \in OnDconn(v) /\ d # c
      BY <2>3, <1>4
    <3> QED BY <3>1, <1>3 DEF ListInv
  <2> QED BY <2>2, <2>4, <1>u, <1>4 DEF ListInv
<1>14. DeadlineCovered'
  BY <1>u DEF DeadlineCovered
<1>15. EventInv'
  <2>1. \A v \in Worker : \A d \in sockReg'[v] \cup queueReg'[v] :
           d \in Client /\ d \in sockReg[v] \cup queueReg[v] /\ mem'[d] = mem[d]
    BY <1>6 DEF TypeOK
  <2>2. \A v \in Worker : \A d \in sockEv[v] \cup queueEv[v] :
           d \in Client /\ d # c /\ mem'[d] = mem[d]
    BY <1>6, <1>8 DEF TypeOK
  <2>3. \A v \in Worker : queueReg'[v] \cup queueEv[v] \subseteq table'
    <3> SUFFICES ASSUME NEW v \in Worker PROVE queueReg'[v] \cup queueEv[v] \subseteq table'
      OBVIOUS
    <3>1. queueReg[v] \cup queueEv[v] \subseteq table
      BY DEF EventInv
    <3> QED BY <3>1, <1>3, <1>6, <1>8
  <2>4. \A v \in Worker : \A d \in sockEv[v] \cup queueEv[v] :
           owner[d] = v /\ mem'[d] = "live" /\ (Pending(d)' \/ d \in table')
    BY <2>2, <1>u, <1>3 DEF EventInv, Pending
  <2>5. \A v \in Worker : \A d \in sockReg'[v] \cup queueReg'[v] :
           owner[d] = v /\ mem'[d] = "live" /\ cl_state[d] # "DISCONNECTED"
    BY <2>1 DEF EventInv
  <2> QED BY <2>3, <2>4, <2>5, <1>u DEF EventInv
<1>16. HoldInv'
  <2>1. ASSUME NEW v \in Worker, hold[v] # None
        PROVE  hold[v] \in Client /\ mem'[hold[v]] = "live" /\ ~ Pending(hold[v])'
    <3>1. hold[v] \in Client /\ mem[hold[v]] = "live" /\ ~ Pending(hold[v])
      BY <2>1 DEF HoldInv, TypeOK
    <3>2. hold[v] = c => ref_cnt[c] # 1
      BY <1>5 DEF Holders
    <3>3. mem'[hold[v]] = "live"
      BY <3>1, <3>2, <1>6
    <3>4. ~ Pending(hold[v])'
      BY <3>1, <1>u, <1>2, <1>3 DEF Pending
    <3> QED BY <3>1, <3>3, <3>4
  <2>2. ASSUME NEW d \in Client, mem'[d] = "live", cl_state[d] = "DISCONNECTED", d \notin table'
        PROVE  \E v \in Worker : hold[v] = d
    <3>1. mem[d] = "live"
      BY <2>2, <1>6, <1>2
    <3>2. CASE d # c
      BY <3>1, <3>2, <2>2, <1>3 DEF HoldInv
    <3>3. CASE d = c
      BY <3>3, <2>2, <1>5, <1>6 DEF Holders
    <3> QED BY <3>2, <3>3
  <2> QED BY <2>1, <2>2, <1>u DEF HoldInv
<1>17. NoDoubleFree'
  BY <1>6, <1>2 DEF NoDoubleFree
<1>18. RefCountExact'
  <2>1. \A d \in Client : Holders(d)' = Holders(d)
    BY <1>u DEF Holders
  <2>2. \A d \in Client : d # c => TableRef(d)' = TableRef(d)
    BY <1>u, <1>3 DEF TableRef
  <2>3. TableRef(c)' = 0
    BY <1>u, <1>2, <1>3 DEF TableRef
  <2>4. ref_cnt'[c] = 0 + Cardinality(Holders(c))
    BY <1>5, <1>6
  <2>5. \A d \in Client : d # c /\ mem'[d] = "live" => ref_cnt'[d] = TableRef(d) + Cardinality(Holders(d))
    BY <1>6 DEF RefCountExact
  <2> SUFFICES ASSUME NEW d \in Client, mem'[d] = "live"
               PROVE  ref_cnt'[d] = TableRef(d)' + Cardinality(Holders(d)')
    BY DEF RefCountExact
  <2>6. CASE d = c
    BY <2>6, <2>1, <2>3, <2>4
  <2>7. CASE d # c
    BY <2>7, <2>1, <2>2, <2>5
  <2> QED BY <2>6, <2>7
<1> QED
  BY <1>7, <1>9, <1>10, <1>11, <1>12, <1>13, <1>14, <1>15, <1>16, <1>17, <1>18
  DEF StepInv, ClientInv

LEMMA SweepDoneStep ==
    ASSUME IInv, NEW w \in Worker, SweepDone(w)
    PROVE  StepInv'
<1> USE DEF IInv
<1>0. /\ pc[w] \in {"sweep", "final"} /\ dconn[w] = <<>>
      /\ UNCHANGED <<clientVars, table, phase, preauth, clth, dconn, eventVars, cur, lookupVars>>
  BY DEF SweepDone
<1>u. UNCHANGED <<mem, cl_state, owner, username, queues, ref_cnt, pdus, table, phase, preauth,
                  clth, dconn, sockEv, queueEv, loopEv, cur, hold, target, use>>
  BY <1>0 DEF clientVars, eventVars, lookupVars
<1>1. /\ pc' \in [Worker -> PCs]
      /\ \A v \in Worker : v # w => pc'[v] = pc[v]
      /\ pc'[w] = IF pc[w] = "sweep" THEN "poll" ELSE "exited"
  <2>1. CASE pc[w] = "sweep"
    <3>1. pc' = [pc EXCEPT ![w] = "poll"]
      BY <2>1 DEF SweepDone, Goto
    <3> QED BY <2>1, <3>1 DEF TypeOK, PCs
  <2>2. CASE pc[w] = "final"
    <3>1. pc' = [pc EXCEPT ![w] = "exited"]
      BY <2>2 DEF SweepDone, Goto
    <3> QED BY <2>2, <3>1 DEF TypeOK, PCs
  <2> QED BY <1>0, <2>1, <2>2
<1>2. /\ sockReg' \in [Worker -> SUBSET Client]
      /\ queueReg' \in [Worker -> SUBSET Client]
      /\ \A v \in Worker : sockReg'[v] \subseteq sockReg[v] /\ queueReg'[v] \subseteq queueReg[v]
      /\ \A v \in Worker : v # w => sockReg'[v] = sockReg[v] /\ queueReg'[v] = queueReg[v]
      /\ pc[w] = "final" => sockReg'[w] = {} /\ queueReg'[w] = {}
  BY <1>0, ZenonT(30) DEF SweepDone, regVars, TypeOK
<1>3. TypeOK'
  BY <1>u, <1>1, <1>2 DEF TypeOK
<1>4. \A v \in Worker : OnDconn(v)' = OnDconn(v)
  BY <1>u DEF OnDconn
<1>5. StageInv'
  <2>1. \A v \in Worker : pc[v] = "auth_ok" => pc'[v] = "auth_ok"
    BY <1>0, <1>1
  <2> QED BY <2>1, <1>u, <1>4 DEF StageInv
<1>6. TableInv' /\ ListInv' /\ DeadlineCovered' /\ HoldInv' /\ NoDoubleFree'
  BY <1>u, <1>4 DEF TableInv, ListInv, DeadlineCovered, HoldInv, NoDoubleFree, Pending
<1>7. EventInv'
  <2>1. \A v \in Worker : \A d \in sockReg'[v] \cup queueReg'[v] : d \in sockReg[v] \cup queueReg[v]
    BY <1>2
  <2>2. \A v \in Worker : queueReg'[v] \cup queueEv[v] \subseteq table
    BY <1>2 DEF EventInv
  <2> QED BY <1>u, <2>1, <2>2 DEF EventInv, Pending
<1>8. RefCountExact'
  BY <1>u DEF RefCountExact, TableRef, Holders
<1>9. LocalInv'
  <2> SUFFICES ASSUME NEW v \in Worker PROVE LocalInv!(v)'
    BY DEF LocalInv
  <2>1. CASE v = w
    BY <2>1, <1>0, <1>u, <1>1, <1>2 DEF LocalInv, IdlePCs, HoldPCs
  <2>2. CASE v # w
    BY <2>2, <1>u, <1>1, <1>2 DEF LocalInv
  <2> QED BY <2>1, <2>2
<1>10. CurInv'
  <2> SUFFICES ASSUME NEW v \in Worker, cur[v] # None PROVE CurInv!(v)'
    BY <1>u DEF CurInv
  <2>1. v # w
    BY <1>0 DEF LocalInv, IdlePCs
  <2> QED BY <2>1, <1>u, <1>1 DEF CurInv
<1> QED
  BY <1>3, <1>5, <1>6, <1>7, <1>8, <1>9, <1>10 DEF StepInv, ClientInv

LEMMA wt_handle_shutdownStep ==
    ASSUME IInv, NEW w \in Worker, wt_handle_shutdown(w)
    PROVE  StepInv'
<1> USE DEF IInv
<1>0. /\ pc[w] = "batch"
      /\ mem' = FreeMem(preauth[w])
      /\ UNCHANGED <<cl_state, owner, username, queues, ref_cnt, pdus, table, phase, dconn,
                     queueReg, cur, hold, target, use>>
  BY DEF wt_handle_shutdown, lookupVars
<1>1. /\ \A v \in Worker : v # w =>
            /\ pc'[v] = pc[v] /\ sockReg'[v] = sockReg[v] /\ preauth'[v] = preauth[v]
            /\ clth'[v] = clth[v] /\ sockEv'[v] = sockEv[v] /\ queueEv'[v] = queueEv[v]
            /\ loopEv'[v] = loopEv[v]
      /\ pc'[w] = "final" /\ sockReg'[w] = sockReg[w] \ preauth[w] /\ preauth'[w] = {}
      /\ clth'[w] = {} /\ sockEv'[w] = {} /\ queueEv'[w] = {} /\ loopEv'[w] = {}
  BY DEF wt_handle_shutdown, Goto, TypeOK
<1>2. /\ pc' \in [Worker -> PCs]
      /\ sockReg' \in [Worker -> SUBSET Client]
      /\ preauth' \in [Worker -> SUBSET Client]
      /\ clth' \in [Worker -> SUBSET Client]
      /\ sockEv' \in [Worker -> SUBSET Client]
      /\ queueEv' \in [Worker -> SUBSET Client]
      /\ loopEv' \in [Worker -> SUBSET {"listener", "shutdown"}]
  BY DEF wt_handle_shutdown, Goto, TypeOK, PCs
<1>3. \A d \in preauth[w] : /\ d \in Client /\ mem[d] = "live" /\ owner[d] = w
                            /\ Pending(d) /\ d \notin table
  BY DEF ListInv, TypeOK, Pending
<1>4. /\ \A d \in Client : d \notin preauth[w] => mem'[d] = mem[d]
      /\ \A d \in preauth[w] : mem'[d] = "freed"
      /\ mem' \in [Client -> {"unused", "live", "freed", "corrupt"}]
  BY <1>0, <1>3 DEF FreeMem, TypeOK
<1>5. TypeOK'
  BY <1>0, <1>2, <1>4 DEF TypeOK
<1>6. \A v \in Worker : OnDconn(v)' = OnDconn(v)
  BY <1>0 DEF OnDconn
<1>7. cur[w] = None
  BY <1>0 DEF LocalInv, IdlePCs
<1>8. LocalInv'
  <2> SUFFICES ASSUME NEW v \in Worker PROVE LocalInv!(v)'
    BY DEF LocalInv
  <2>1. CASE v = w
    BY <2>1, <1>0, <1>1 DEF LocalInv, IdlePCs, HoldPCs
  <2>2. CASE v # w
    BY <2>2, <1>0, <1>1 DEF LocalInv
  <2> QED BY <2>1, <2>2
<1>9. CurInv'
  <2> SUFFICES ASSUME NEW v \in Worker, cur[v] # None PROVE CurInv!(v)'
    BY <1>0 DEF CurInv
  <2>1. v # w /\ cur[v] \in Client /\ owner[cur[v]] = v
    BY <1>7 DEF CurInv, TypeOK
  <2>2. mem'[cur[v]] = mem[cur[v]]
    BY <2>1, <1>3, <1>4
  <2>3. CurInv!(v)
    BY DEF CurInv
  <2> QED BY <2>1, <2>2, <2>3, <1>0, <1>1
<1>10. StageInv'
  <2> SUFFICES ASSUME NEW d \in Client, mem'[d] = "live" PROVE StageInv!(d)'
    BY DEF StageInv
  <2>1. mem[d] = "live" /\ d \notin preauth[w]
    BY <1>4
  <2>2. \A v \in Worker : pc[v] = "auth_ok" => pc'[v] = "auth_ok"
    BY <1>0, <1>1
  <2>3. \A v \in Worker : d \in preauth[v] => d \in preauth'[v]
    BY <2>1, <1>1
  <2> QED BY <2>1, <2>2, <2>3, <1>0, <1>6 DEF StageInv
<1>11. TableInv'
  BY <1>0, <1>3, <1>4 DEF TableInv, TypeOK
<1>12. ListInv'
  <2>1. \A v \in Worker : \A d \in preauth'[v] : mem'[d] = "live" /\ owner[d] = v /\ Pending(d)
    <3> SUFFICES ASSUME NEW v \in Worker, NEW d \in preauth'[v]
                 PROVE  mem'[d] = "live" /\ owner[d] = v /\ Pending(d)
      OBVIOUS
    <3>1. v # w /\ d \in preauth[v]
      BY <1>1
    <3>2. d \in Client /\ mem[d] = "live" /\ owner[d] = v /\ Pending(d)
      BY <3>1 DEF ListInv, TypeOK
    <3> QED BY <3>1, <3>2, <1>3, <1>4
  <2> QED BY <2>1, <1>0, <1>6 DEF ListInv, Pending
<1>13. DeadlineCovered'
  <2>1. \A v \in Worker : v # w => clth'[v] = {d \in preauth'[v] : cl_state'[d] = "ACCEPTED"}
    BY <1>0, <1>1 DEF DeadlineCovered
  <2>2. clth'[w] = {d \in preauth'[w] : cl_state'[d] = "ACCEPTED"}
    BY <1>1
  <2> QED BY <2>1, <2>2 DEF DeadlineCovered
<1>14. EventInv'
  <2>1. ASSUME NEW v \in Worker, NEW d \in sockReg'[v] \cup queueReg[v]
        PROVE  owner[d] = v /\ mem'[d] = "live" /\ cl_state[d] # "DISCONNECTED"
    <3>1. d \in sockReg[v] \cup queueReg[v]
      BY <1>1
    <3>2. d \in Client /\ owner[d] = v /\ mem[d] = "live" /\ cl_state[d] # "DISCONNECTED"
      BY <3>1 DEF EventInv, TypeOK
    <3>3. d \in queueReg[v] => d \in table
      BY DEF EventInv
    <3>4. d \notin preauth[w]
      BY <3>2, <3>3, <1>1, <1>3
    <3> QED BY <3>2, <3>4, <1>4
  <2>2. ASSUME NEW v \in Worker, NEW d \in sockEv'[v] \cup queueEv'[v]
        PROVE  owner[d] = v /\ mem'[d] = "live" /\ (Pending(d) \/ d \in table)
    <3>1. v # w /\ d \in sockEv[v] \cup queueEv[v]
      BY <1>1
    <3>2. d \in Client /\ owner[d] = v /\ mem[d] = "live" /\ (Pending(d) \/ d \in table)
      BY <3>1 DEF EventInv, TypeOK
    <3> QED BY <3>1, <3>2, <1>3, <1>4
  <2>3. \A v \in Worker : queueReg[v] \cup queueEv'[v] \subseteq table
    BY <1>1 DEF EventInv
  <2> QED BY <2>1, <2>2, <2>3, <1>0 DEF EventInv, Pending
<1>15. HoldInv'
  <2>1. \A v \in Worker : hold[v] # None => hold[v] \in Client /\ hold[v] \notin preauth[w]
    BY <1>3 DEF HoldInv, TypeOK
  <2>2. \A v \in Worker : hold[v] # None => mem'[hold[v]] = "live" /\ ~ Pending(hold[v])
    BY <2>1, <1>4 DEF HoldInv
  <2>3. \A d \in Client : mem'[d] = "live" => mem[d] = "live"
    BY <1>4
  <2> QED BY <2>2, <2>3, <1>0 DEF HoldInv, Pending
<1>16. NoDoubleFree'
  BY <1>4 DEF NoDoubleFree
<1>17. RefCountExact'
  <2>1. \A d \in Client : mem'[d] = "live" => mem[d] = "live"
    BY <1>4
  <2> QED BY <2>1, <1>0 DEF RefCountExact, TableRef, Holders
<1> QED
  BY <1>5, <1>8, <1>9, <1>10, <1>11, <1>12, <1>13, <1>14, <1>15, <1>16, <1>17
  DEF StepInv, ClientInv

-----------------------------------------------------------------------------
(* The whole next-state relation.                                           *)

\* While a worker runs, the table has not been deleted.
LEMMA WorkerPhase ==
    ASSUME IInv, NEW w \in Worker, WorkerStep(w)
    PROVE  PhaseInv' /\ NoLeak'
<1>1. pc[w] # "exited"
  BY DEF WorkerStep, handle_clth_timeout, epoll_wait, BatchDone, NewConnection, AcceptDone,
         HangUp, wt_handle_accepting, AuthCheck, AuthAdd, AuthDone, htable_get,
         htable_get_cond, Enqueue, Put, ClientEvent, Inbound, wt_serve_response, QueueEvent,
         ProbeTss, SendTss, Dequeue, Send, SweepOne, SweepDone, wt_handle_shutdown, SockEvent
<1>2. phase # "deleted"
  BY <1>1 DEF IInv, PhaseInv
<1>3. phase' = phase
  BY DEF WorkerStep, handle_clth_timeout, epoll_wait, BatchDone, NewConnection, AcceptDone,
         HangUp, wt_handle_accepting, AuthCheck, AuthAdd, AuthDone, htable_get,
         htable_get_cond, Enqueue, Put, ClientEvent, Inbound, wt_serve_response, QueueEvent,
         ProbeTss, SendTss, Dequeue, Send, SweepOne, SweepDone, wt_handle_shutdown
<1> QED
  BY <1>2, <1>3 DEF PhaseInv, NoLeak

\* Every step of a worker preserves the invariant.
LEMMA WorkerStepInv ==
    ASSUME IInv, NEW w \in Worker, WorkerStep(w)
    PROVE  IInv'
<1>1. StepInv'
  BY handle_clth_timeoutStep, epoll_waitStep, BatchDoneStep, NewConnectionStep, AcceptDoneStep,
     HangUpStep, wt_handle_acceptingStep, AuthCheckStep, AuthAddStep, AuthDoneStep,
     htable_getStep, htable_get_condStep, EnqueueStep, PutStep, ClientEventStep, InboundStep,
     wt_serve_responseStep, QueueEventStep, ProbeTssStep, SendTssStep, DequeueStep, SendStep,
     SweepOneStep, SweepDoneStep, wt_handle_shutdownStep
  DEF WorkerStep
<1> QED
  BY <1>1, WorkerPhase DEF StepInv, ClientInv, IInv

\* htable_delete, when all workers have exited, frees exactly what is left.
LEMMA MainDeleteInv ==
    ASSUME IInv, MainDelete
    PROVE  IInv'
<1> USE DEF IInv
<1>u. /\ UNCHANGED <<cl_state, owner, username, ref_cnt, pdus, preauth, clth, dconn, sockReg,
                     queueReg, sockEv, queueEv, loopEv, pc, cur, hold, target, use>>
      /\ mem' = FreeMem(table) /\ table' = {} /\ phase' = "deleted"
      /\ queues' = [c \in Client |-> IF c \in table THEN FALSE ELSE queues[c]]
  BY DEF MainDelete, listVars, regVars, eventVars, lookupVars
<1>1. \A w \in Worker : /\ pc[w] = "exited" /\ cur[w] = None /\ hold[w] = None
                        /\ preauth[w] = {} /\ clth[w] = {} /\ dconn[w] = <<>>
                        /\ sockReg[w] = {} /\ queueReg[w] = {}
                        /\ sockEv[w] = {} /\ queueEv[w] = {}
  <2>1. \A w \in Worker : pc[w] = "exited"
    BY DEF MainDelete
  <2> QED BY <2>1 DEF LocalInv, DeadlineCovered, IdlePCs, HoldPCs
<1>2. /\ \A c \in Client : mem'[c] = IF c \in table THEN "freed" ELSE mem[c]
      /\ mem' \in [Client -> {"unused", "live", "freed", "corrupt"}]
  BY <1>u DEF FreeMem, TypeOK, TableInv
<1>3. TypeOK'
  <2>1. queues' \in [Client -> BOOLEAN]
    BY <1>u DEF TypeOK
  <2> QED BY <2>1, <1>u, <1>2 DEF TypeOK
<1>4. \A c \in Client : mem'[c] # "live"
  <2> SUFFICES ASSUME NEW c \in Client, mem[c] = "live", c \notin table PROVE FALSE
    BY <1>2
  <2>1. owner[c] \in Worker /\ cl_state[c] \notin {"INIT", "AUTHENTICATED"}
    BY DEF StageInv
  <2>2. cl_state[c] \notin {"ACCEPTING", "ACCEPTED"}
    BY <2>1, <1>1 DEF StageInv
  <2>3. cl_state[c] = "DISCONNECTED"
    BY <2>1, <2>2 DEF TypeOK, States
  <2> QED BY <2>3, <1>1, SessionAssumption DEF HoldInv
<1>5. \A w \in Worker : OnDconn(w)' = {}
  <2>1. \A w \in Worker : dconn'[w] = <<>>
    BY <1>u, <1>1
  <2> QED BY <2>1 DEF OnDconn
<1>6. LocalInv'
  BY <1>u DEF LocalInv
<1>7. CurInv'
  BY <1>u, <1>1 DEF CurInv
<1>8. StageInv' /\ TableInv' /\ NoDoubleFree' /\ RefCountExact' /\ NoLeak'
  BY <1>u, <1>2, <1>4 DEF StageInv, TableInv, NoDoubleFree, RefCountExact, NoLeak
<1>9. ListInv'
  BY <1>u, <1>1, <1>5 DEF ListInv
<1>10. DeadlineCovered'
  BY <1>u DEF DeadlineCovered
<1>11. EventInv'
  BY <1>u, <1>1 DEF EventInv
<1>12. HoldInv'
  BY <1>u, <1>1, <1>4 DEF HoldInv
<1>13. PhaseInv'
  BY <1>u, <1>1 DEF PhaseInv
<1> QED
  BY <1>3, <1>6, <1>7, <1>8, <1>9, <1>10, <1>11, <1>12, <1>13

\* A step that changes nothing but, perhaps, the phase from "run" to "join".
LEMMA MainShutdownInv ==
    ASSUME IInv, MainShutdown \/ UNCHANGED vars
    PROVE  IInv'
<1> USE DEF IInv
<1>u. /\ UNCHANGED <<clientVars, table, listVars, eventVars, pc, cur, lookupVars>>
      /\ phase' = phase \/ phase' = "join"
  BY DEF MainShutdown, vars
<1> USE DEF clientVars, listVars, regVars, eventVars, lookupVars
<1>1. StepFrame
  BY <1>u DEF StepFrame
<1>2. ClientInv'
  BY <1>u, <1>1, FrameClients
<1>3. TypeOK'
  BY <1>u DEF TypeOK
<1>4. LocalInv'
  BY <1>u DEF LocalInv
<1>5. CurInv'
  BY <1>u DEF CurInv
<1>6. PhaseInv' /\ NoLeak'
  BY <1>u DEF PhaseInv, NoLeak
<1> QED
  BY <1>2, <1>3, <1>4, <1>5, <1>6 DEF ClientInv

\* The invariant holds when the server starts.
LEMMA InitInv ==
    ASSUME Init
    PROVE  IInv
<1> USE DEF Init
<1>1. TypeOK
  BY SessionAssumption DEF TypeOK, States, PCs, Uses
<1>2. \A w \in Worker : OnDconn(w) = {}
  BY DEF OnDconn
<1>3. LocalInv
  BY DEF LocalInv, IdlePCs, HoldPCs
<1>4. CurInv /\ StageInv /\ TableInv /\ NoDoubleFree /\ RefCountExact /\ DeadlineCovered
  BY DEF CurInv, StageInv, TableInv, NoDoubleFree, RefCountExact, DeadlineCovered
<1>5. ListInv /\ EventInv /\ HoldInv /\ PhaseInv /\ NoLeak
  BY <1>2 DEF ListInv, EventInv, HoldInv, PhaseInv, NoLeak
<1> QED
  BY <1>1, <1>3, <1>4, <1>5 DEF IInv

-----------------------------------------------------------------------------
(* The theorems.                                                            *)

\* IInv is an invariant of the server, for any clients, names and workers.
THEOREM Invariance == Spec => []IInv
<1>1. Init => IInv
  BY InitInv
<1>2. IInv /\ [Next]_vars => IInv'
  <2> SUFFICES ASSUME IInv, [Next]_vars PROVE IInv'
    OBVIOUS
  <2>1. ASSUME NEW w \in Worker, WorkerStep(w) PROVE IInv'
    BY <2>1, WorkerStepInv
  <2>2. CASE MainDelete
    BY <2>2, MainDeleteInv
  <2>3. CASE MainShutdown \/ UNCHANGED vars
    BY <2>3, MainShutdownInv
  <2> QED
    BY <2>1, <2>2, <2>3 DEF Next, Terminated
<1> QED
  BY <1>1, <1>2, PTL DEF Spec

\* Type correctness: in particular no reference count ever drops below zero.
THEOREM TypeCorrect == Spec => []TypeOK
<1>1. IInv => TypeOK
  BY DEF IInv
<1> QED
  BY <1>1, Invariance, PTL

\* No use after free: whatever a worker can reach, through the table, a list,
\* the timer heap, a registration, a pending event or a reference it took in
\* another worker's client, is allocated.
THEOREM MemorySafe == Spec => []NoDangling
<1>1. IInv => NoDangling
  BY IInvNoDangling
<1> QED
  BY <1>1, Invariance, PTL

\* No double free, although a client is freed by its worker (before it is
\* authenticated), by whoever drops the last reference, or by main.
THEOREM FreedOnce == Spec => []NoDoubleFree
<1>1. IInv => NoDoubleFree
  BY DEF IInv
<1> QED
  BY <1>1, Invariance, PTL

\* The reference count of a live client is exact at every step.
THEOREM CountsExact == Spec => []RefCountExact
<1>1. IInv => RefCountExact
  BY DEF IInv
<1> QED
  BY <1>1, Invariance, PTL

\* No two authenticated sessions share a user name.
THEOREM SessionsUnique == Spec => []UniqueSession
<1>1. IInv => UniqueSession
  <2> SUFFICES ASSUME IInv, NEW c \in Client, NEW d \in Client,
                      Authenticated(c), Authenticated(d), c # d
               PROVE  username[c] # username[d]
    BY DEF UniqueSession
  <2>2. c \in table /\ d \in table
    BY DEF IInv, StageInv, Authenticated
  <2> QED BY <2>2 DEF IInv, TableInv
<1> QED
  BY <1>1, Invariance, PTL

\* The sweep, which removes by key, only ever removes the client it is for.
THEOREM SweepsOwn == Spec => []SweepsOwnNode
<1>1. IInv => SweepsOwnNode
  BY IInvSweepsOwnNode
<1> QED
  BY <1>1, Invariance, PTL

\* Every client past the handshake and not authenticated is in its worker's heap.
THEOREM DeadlinesCovered == Spec => []DeadlineCovered
<1>1. IInv => DeadlineCovered
  BY DEF IInv
<1> QED
  BY <1>1, Invariance, PTL

\* A message is only enqueued into a queue that exists.
THEOREM EnqueuesSafe == Spec => []EnqueueSafe
<1>1. IInv => EnqueueSafe
  <2> SUFFICES ASSUME IInv, NEW w \in Worker, pc[w] = "enqueue" PROVE queues[hold[w]]
    BY DEF EnqueueSafe
  <2>1. hold[w] \in Client /\ mem[hold[w]] = "live" /\ ~ Pending(hold[w])
    BY DEF IInv, LocalInv, HoldInv, HoldPCs, TypeOK
  <2>2. hold[w] \in table \/ cl_state[hold[w]] \in {"INIT", "AUTHENTICATED", "DISCONNECTED"}
    BY <2>1 DEF IInv, Pending, TypeOK, States
  <2> QED BY <2>1, <2>2 DEF IInv, StageInv
<1> QED
  BY <1>1, Invariance, PTL

\* After the shutdown no client is left allocated.
THEOREM NothingLeaks == Spec => []NoLeak
<1>1. IInv => NoLeak
  BY DEF IInv
<1> QED
  BY <1>1, Invariance, PTL

=============================================================================
