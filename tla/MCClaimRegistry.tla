-------------------------- MODULE MCClaimRegistry --------------------------
(* Small instances of ClaimRegistry. *)
EXTENDS ClaimRegistry, TLC

\* Handlers are alike.
Symmetry == Permutations(Threads)
=============================================================================
