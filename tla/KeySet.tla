------------------------------- MODULE KeySet -------------------------------
(***************************************************************************)
(* What the client, block and whitelist tables promise their users: a set   *)
(* of keys with atomic operations (the interface of server/htable.h).       *)
(* StripedTable, with its buckets, two levels of locks and resizes, is      *)
(* shown to implement it.                                                   *)
(***************************************************************************)
CONSTANTS Thread, Key, None

VARIABLES
    set,        \* the keys in the table
    res         \* the last operation of each thread and what it returned

keySetVars == <<set, res>>

KeySetInit == set = {} /\ res = [t \in Thread |-> None]

Add(t, k) ==
    /\ set' = set \cup {k}
    /\ res' = [res EXCEPT ![t] = <<"add", k, k \notin set>>]

Remove(k) == set' = set \ {k} /\ UNCHANGED res

Get(t, k) == res' = [res EXCEPT ![t] = <<"get", k, k \in set>>] /\ UNCHANGED set

\* A thread forgets its last result when it calls the next operation.
Call(t) == res' = [res EXCEPT ![t] = None] /\ UNCHANGED set

KeySetNext ==
    \E t \in Thread : Call(t) \/ \E k \in Key : Add(t, k) \/ Remove(k) \/ Get(t, k)

KeySetSpec == KeySetInit /\ [][KeySetNext]_keySetVars

=============================================================================
