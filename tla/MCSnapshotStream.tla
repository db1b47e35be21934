-------------------------- MODULE MCSnapshotStream --------------------------
(* Instances of SnapshotStream for TLC. *)
EXTENDS SnapshotStream, TLC

CONSTANTS w1, w2, c1, c2

MCWorkers == {w1, w2}
MCOneCaller == {c1}
MCTwoCallers == {c1, c2}

WorkerSymmetry == Permutations(MCWorkers)
=============================================================================
