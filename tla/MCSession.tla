------------------------------ MODULE MCSession ------------------------------
(***************************************************************************)
(* Session on a small instance.  Clients, workers and names are             *)
(* interchangeable, no action tells two of them apart, so every behaviour   *)
(* is, after a renaming, one in which a chosen client is the first to send  *)
(* a PDU, a chosen worker accepts it, and it authenticates, which it does   *)
(* at most once, with a chosen name.  Next is restricted to these, which    *)
(* unlike TLC's symmetry reduction is sound for liveness.                   *)
(***************************************************************************)
EXTENDS Session

c0 == CHOOSE c \in Client : TRUE
w0 == CHOOSE w \in Worker : TRUE
n0 == CHOOSE n \in Name : TRUE

Canonical ==
    /\ (\E c \in Client : pdus[c] > 0) => pdus[c0] > 0
    /\ owner[c0] \in {None, w0}
    /\ pc[w0] = "auth_add" /\ cur[w0] = c0 => target[w0] = n0

MCSpec == Init /\ [][Next /\ Canonical']_vars /\ Fairness

=============================================================================
