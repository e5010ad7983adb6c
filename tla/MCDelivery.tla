---------------------------- MODULE MCDelivery ----------------------------
(***************************************************************************)
(* Delivery on a small instance.  MaxTotal bounds messages and requests     *)
(* together: two messages of one name, two names, or two responses can wait *)
(* at once, not all of these.  The senders are interchangeable, no action   *)
(* tells two of them apart, so after a renaming a chosen one is the first   *)
(* to send; Next is restricted to that, which unlike TLC's symmetry         *)
(* reduction is sound for liveness.                                         *)
(***************************************************************************)
EXTENDS Delivery, FiniteSetsExt

CONSTANT MaxTotal   \* bound: messages and requests together

s0 == CHOOSE s \in Sender : TRUE

Canonical ==
    /\ (\E s \in Sender : sent[s] > 0) => sent[s0] > 0
    /\ MapThenSumSet(LAMBDA s : sent[s], Sender) + asked <= MaxTotal

MCSpec == Init /\ [][Next /\ Canonical']_vars /\ Fairness

=============================================================================
