------------------------------ MODULE IpBlock -------------------------------
(***************************************************************************)
(* The block record of one peer address: std_ipblock_tbl as the workers     *)
(* (server/worker.c), ipblock.c and the control interface (servctrl.c) use  *)
(* it.  Records of different addresses have different keys and do not       *)
(* touch each other, so one address is enough.                              *)
(*                                                                          *)
(* A worker looks the record up when a connection arrives and when an       *)
(* authentication fails, under a counted reference, and acts on what it saw *)
(* after the table's lock is released: other workers and the console may    *)
(* have removed or replaced the record by then.                             *)
(***************************************************************************)
EXTENDS Integers, FiniteSets

CONSTANTS
    Worker,                 \* worker threads
    Rec,                    \* allocations of std_ipb_rec; each is used once
    None,                   \* NULL
    AUTHBLOCK_EXPIRY,       \* seconds
    AUTHBLOCK_FAIL_THRES,   \* failures that block
    UINT8,                  \* number of values of failed_auths, a power of 2
    MaxConns,               \* bound: connections the address has open at once
    MaxTime                 \* bound: the last second of the clock

\* The limit fits into failed_auths.  Nothing is assumed of the connections: the
\* code does not bound how many an address has open.
ASSUME IpBlockAssumption ==
    /\ IsFiniteSet(Worker)
    /\ None \notin Rec
    /\ AUTHBLOCK_EXPIRY \in Nat
    /\ AUTHBLOCK_FAIL_THRES \in Nat \ {0}
    /\ UINT8 \in Nat
    /\ MaxConns \in Nat
    /\ AUTHBLOCK_FAIL_THRES < UINT8
    /\ MaxTime \in Nat

VARIABLES
    entry,          \* the record that is linked into the table
    mem,            \* "unused", "live" or "freed"
    ref_cnt,        \* nd.ref_cnt
    failed_auths,
    timestamp,
    is_manual,
    created,        \* history: when the record was made
    exposed,        \* history: the open connections when a failure was last
                    \* counted under the limit, or the record made
    now,            \* CLOCK_MONOTONIC, in seconds
    conns,          \* open connections of the address, not authenticated yet
    pc,             \* where a worker is
    hold            \* the record it holds a counted reference to

recVars == <<mem, ref_cnt, failed_auths, timestamp, is_manual, created, exposed>>
vars == <<entry, recVars, now, conns, pc, hold>>

TypeOK ==
    /\ entry \in Rec \cup {None}
    /\ mem \in [Rec -> {"unused", "live", "freed"}]
    /\ ref_cnt \in [Rec -> Nat]
    /\ failed_auths \in [Rec -> 0..(UINT8 - 1)]
    /\ timestamp \in [Rec -> Nat]
    /\ is_manual \in [Rec -> BOOLEAN]
    /\ created \in [Rec -> Nat]
    /\ exposed \in [Rec -> 0..MaxConns]
    /\ now \in 0..MaxTime
    /\ conns \in 0..MaxConns
    /\ pc \in [Worker -> {"idle", "chk", "remove", "count", "add", "put", "close"}]
    /\ hold \in [Worker -> Rec \cup {None}]

Init ==
    /\ entry = None
    /\ mem = [r \in Rec |-> "unused"]
    /\ ref_cnt = [r \in Rec |-> 0]
    /\ failed_auths = [r \in Rec |-> 0]
    /\ timestamp = [r \in Rec |-> 0]
    /\ is_manual = [r \in Rec |-> FALSE]
    /\ created = [r \in Rec |-> 0]
    /\ exposed = [r \in Rec |-> 0]
    /\ now = 0
    /\ conns = 0
    /\ pc = [w \in Worker |-> "idle"]
    /\ hold = [w \in Worker |-> None]

Goto(w, l) == pc' = [pc EXCEPT ![w] = l]

\* Workers that are dealing with a connection of the address.
Busy == {w \in Worker : pc[w] # "idle"}

-----------------------------------------------------------------------------
(* Records.                                                                 *)

\* A manual record starts with no failure, an automatic one with the first.
std_ipb_rec_create(r, manual) ==
    /\ mem' = [mem EXCEPT ![r] = "live"]
    /\ ref_cnt' = [ref_cnt EXCEPT ![r] = 1]
    /\ failed_auths' = [failed_auths EXCEPT ![r] = IF manual THEN 0 ELSE 1]
    /\ timestamp' = [timestamp EXCEPT ![r] = now + AUTHBLOCK_EXPIRY]
    /\ is_manual' = [is_manual EXCEPT ![r] = manual]
    /\ created' = [created EXCEPT ![r] = now]
    /\ exposed' = [exposed EXCEPT ![r] = conns]

\* create and htable_add: the record is linked, unless one is there already.
\* Then the new one is freed again and what it was to say is lost.
AddRecord(manual) ==
    \/ /\ entry # None
       /\ UNCHANGED <<entry, recVars>>
    \/ /\ entry = None
       /\ \E r \in Rec :
           /\ mem[r] = "unused"
           /\ std_ipb_rec_create(r, manual)
           /\ entry' = r

node_put(r) ==
    /\ ref_cnt' = [ref_cnt EXCEPT ![r] = @ - 1]
    /\ mem' = IF ref_cnt[r] = 1 THEN [mem EXCEPT ![r] = "freed"] ELSE mem
    /\ UNCHANGED <<failed_auths, timestamp, is_manual, created, exposed>>

\* htable_remove by the address: whatever record is linked now.
RemoveRecord ==
    /\ entry' = None
    /\ IF entry = None THEN UNCHANGED recVars ELSE node_put(entry)

\* Mutant: the reference is not counted.
htable_get_Uncounted(w, l) ==
    /\ hold' = [hold EXCEPT ![w] = entry]
    /\ Goto(w, l)
    /\ UNCHANGED <<entry, recVars, now>>

\* htable_get(..., true) of a record that is there.
htable_get(w, l) ==
    /\ hold' = [hold EXCEPT ![w] = entry]
    /\ ref_cnt' = [ref_cnt EXCEPT ![entry] = @ + 1]
    /\ Goto(w, l)
    /\ UNCHANGED <<entry, mem, failed_auths, timestamp, is_manual, created, exposed, now>>

\* Mutant: blocks one failure too late.
chk_std_block_OffByOne(r) ==
    IF is_manual[r] THEN "BLOCKED"
    ELSE IF now - timestamp[r] >= AUTHBLOCK_EXPIRY THEN "EXPIRED"
    ELSE IF failed_auths[r] > AUTHBLOCK_FAIL_THRES THEN "BLOCKED" ELSE "NOT_BLOCKED"

chk_std_block(r) ==
    IF is_manual[r] THEN "BLOCKED"
    ELSE IF now - timestamp[r] >= AUTHBLOCK_EXPIRY THEN "EXPIRED"
    ELSE IF failed_auths[r] >= AUTHBLOCK_FAIL_THRES THEN "BLOCKED" ELSE "NOT_BLOCKED"

-----------------------------------------------------------------------------
(* A worker.                                                                *)

\* accept() in wt_handle_new_connections, and the lookup of its address.
Connect(w) ==
    /\ pc[w] = "idle"
    /\ conns < MaxConns
    /\ conns' = conns + 1
    /\ \/ entry = None /\ UNCHANGED <<entry, recVars, now, pc, hold>>
       \/ entry # None /\ htable_get(w, "chk")

Check(w) ==
    /\ pc[w] = "chk"
    /\ LET status == chk_std_block(hold[w])
       IN Goto(w, IF status = "BLOCKED" THEN "close"
                  ELSE IF status = "EXPIRED" THEN "remove" ELSE "put")
    /\ UNCHANGED <<entry, recVars, now, conns, hold>>

RemoveExpired(w) ==
    /\ pc[w] = "remove"
    /\ RemoveRecord
    /\ Goto(w, "put")
    /\ UNCHANGED <<now, conns, hold>>

\* An authentication fails in wt_handle_authentication.
AuthFails(w) ==
    /\ pc[w] = "idle"
    /\ conns > Cardinality(Busy)
    /\ \/ entry = None /\ Goto(w, "add") /\ UNCHANGED <<entry, recVars, now, hold>>
       \/ entry # None /\ htable_get(w, "count")
    /\ UNCHANGED conns

\* __atomic_fetch_add of a uint8_t: the count wraps, and nothing stops it at the
\* limit.
Count(w) ==
    /\ pc[w] = "count"
    /\ failed_auths' = [failed_auths EXCEPT ![hold[w]] = (@ + 1) % UINT8]
    /\ exposed' = [exposed EXCEPT ![hold[w]] =
                       IF failed_auths[hold[w]] < AUTHBLOCK_FAIL_THRES THEN conns ELSE @]
    /\ Goto(w, "close")
    /\ UNCHANGED <<entry, mem, ref_cnt, timestamp, is_manual, created, now, conns, hold>>

\* The failure is the first on record; then the connection is closed.
AddFirst(w) ==
    /\ pc[w] = "add"
    /\ AddRecord(FALSE)
    /\ conns' = conns - 1
    /\ Goto(w, "idle")
    /\ UNCHANGED <<now, hold>>

\* Mutant: a connection that is refused keeps its reference to the record.
Put_NotOnClose(w) ==
    /\ pc[w] \in {"put", "close"}
    /\ IF pc[w] = "put" THEN node_put(hold[w]) ELSE UNCHANGED recVars
    /\ hold' = [hold EXCEPT ![w] = None]
    /\ conns' = IF pc[w] = "close" THEN conns - 1 ELSE conns
    /\ Goto(w, "idle")
    /\ UNCHANGED <<entry, now>>

\* node_put; a refused connection or a failed client is closed.
Put(w) ==
    /\ pc[w] \in {"put", "close"}
    /\ node_put(hold[w])
    /\ hold' = [hold EXCEPT ![w] = None]
    /\ conns' = IF pc[w] = "close" THEN conns - 1 ELSE conns
    /\ Goto(w, "idle")
    /\ UNCHANGED <<entry, now>>

\* A client of the address authenticates, or leaves without trying.
Leaves ==
    /\ conns > Cardinality(Busy)
    /\ conns' = conns - 1
    /\ UNCHANGED <<entry, recVars, now, pc, hold>>

-----------------------------------------------------------------------------
(* The console and the clock.                                               *)

std_ipblock ==
    /\ AddRecord(TRUE)
    /\ UNCHANGED <<now, conns, pc, hold>>

std_unblock ==
    /\ RemoveRecord
    /\ UNCHANGED <<now, conns, pc, hold>>

Tick ==
    /\ now < MaxTime
    /\ now' = now + 1
    /\ UNCHANGED <<entry, recVars, conns, pc, hold>>

Next ==
    \/ \E w \in Worker :
        \/ Connect(w) \/ Check(w) \/ RemoveExpired(w)
        \/ AuthFails(w) \/ Count(w) \/ AddFirst(w) \/ Put(w)
    \/ Leaves
    \/ std_ipblock
    \/ std_unblock
    \/ Tick

Spec == Init /\ [][Next]_vars

-----------------------------------------------------------------------------
(* Properties.                                                              *)

\* The table and every worker that holds a record refer to allocated memory,
\* although a record may be removed while it is being looked at.
NoDangling ==
    /\ entry # None => mem[entry] = "live"
    /\ \A w \in Worker : hold[w] # None => mem[hold[w]] = "live"

Holders(r) == {w \in Worker : hold[w] = r}

\* The count is the table's reference plus one for each worker with another,
\* and a record with neither is freed.
RefCountExact ==
    \A r \in Rec :
        /\ ref_cnt[r] = (IF entry = r THEN 1 ELSE 0) + Cardinality(Holders(r))
        /\ mem[r] = "live" <=> ref_cnt[r] > 0

\* More connections were open when the limit was reached than the eight bits
\* have room for above it.
MayWrap(r) == exposed[r] > UINT8 - AUTHBLOCK_FAIL_THRES

\* An address that is blocked stays blocked until the record expires or is
\* removed: the failures of connections that were open before make the
\* eight-bit count start again from zero only if there were more of them than
\* it has room for.
BlockSticks ==
    [][entry # None /\ entry' = entry /\ chk_std_block(entry) = "BLOCKED"
       => chk_std_block(entry)' # "NOT_BLOCKED" \/ MayWrap(entry)]_vars

-----------------------------------------------------------------------------
(* The inductive invariant of IpBlockProofs.                                *)

\* A worker holds a record from its lookup to its node_put.
HoldInv ==
    \A w \in Worker : hold[w] = None <=> pc[w] \in {"idle", "add"}

\* Each busy worker deals with a connection of its own.
BusyInv == Cardinality(Busy) <= conns

\* Workers whose connection can add no failure to r any more: it is being
\* closed, or it arrived when r had reached the limit.
Spent(r) == {w \in Worker : \/ pc[w] = "close"
                            \/ pc[w] \in {"chk", "remove"} /\ hold[w] = r}

\* Past the limit, the count and the connections that can still add to it
\* stay under what the connections open at the limit allow.
FailInv ==
    entry # None /\ ~ is_manual[entry] /\ failed_auths[entry] >= AUTHBLOCK_FAIL_THRES
    => failed_auths[entry] + conns - Cardinality(Spent(entry))
            <= AUTHBLOCK_FAIL_THRES - 1 + exposed[entry]

IInv == TypeOK /\ HoldInv /\ RefCountExact /\ BusyInv /\ FailInv

-----------------------------------------------------------------------------
(* What the source says and the code does not do.                           *)

\* What worker.c:240 relies on when it counts on without a limit: a block is
\* only lifted by time or by the console.
BlockAlwaysSticks ==
    [][entry # None /\ entry' = entry /\ chk_std_block(entry) = "BLOCKED"
       => chk_std_block(entry)' # "NOT_BLOCKED"]_vars

\* What the worker logs when it does so ("Removing expired standard blocking
\* record."): a record it removes for its age has expired.
RemovesExpired ==
    \A w \in Worker : pc[w] = "remove" /\ entry # None => chk_std_block(entry) = "EXPIRED"

\* What ipblock.h says of the time ("AUTHBLOCK_EXPIRY 3600 // 1 h"): a record
\* that counts failures and is older than that turns no connection away.
ExpiresOnTime ==
    \A w \in Worker : pc[w] = "chk" /\ ~ is_manual[hold[w]]
                      /\ now >= created[hold[w]] + AUTHBLOCK_EXPIRY
                      => chk_std_block(hold[w]) # "BLOCKED"

=============================================================================
