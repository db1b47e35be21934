------------------------ MODULE MCSigningTimestamps ------------------------
(* Instances of SigningTimestamps for TLC. *)
EXTENDS SigningTimestamps, TLC

CONSTANTS t1, t2, k1, k2
MCTwoTasks == {t1, t2}
MCKeys == {k1, k2}

TaskSymmetry == Permutations(Tasks)
=============================================================================
