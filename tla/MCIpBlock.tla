----------------------------- MODULE MCIpBlock ------------------------------
(* IpBlock with symmetric workers and records. *)
EXTENDS IpBlock, TLC
Symmetry == Permutations(Worker) \cup Permutations(Rec)
=============================================================================
