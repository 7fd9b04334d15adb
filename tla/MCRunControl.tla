---------------------------- MODULE MCRunControl ----------------------------
(* Small instances of RunControl for TLC. *)
EXTENDS RunControl, TLC

CONSTANTS j1, j2, k1, k2

OneJob == {j1}
TwoJobs == {j1, j2}
OneCanceller == {k1}
TwoCancellers == {k1, k2}

RequestSymmetry == Permutations(Jobs) \cup Permutations(Cancellers)

=============================================================================
