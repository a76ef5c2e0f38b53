---------------------------- MODULE MCSubmission ----------------------------
(* Small instances of Submission. *)
EXTENDS Submission, TLC
CONSTANTS p1, p2

MCRequests ==
  { [payload |-> p1, writes |-> <<"memory", "db">>],
    [payload |-> p2, writes |-> <<"product">>],
    [payload |-> p1, writes |-> <<>>] }


Symmetry == Permutations(Threads) \cup Permutations(Caps)
=============================================================================
