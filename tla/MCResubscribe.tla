--------------------------- MODULE MCResubscribe ---------------------------
(* An instance of Resubscribe for TLC: subscriptions of one sub-account. *)
EXTENDS Resubscribe

CONSTANTS s1, s2, i1, r1, r2

MCIdOf == [s \in Subs |-> i1]
=============================================================================
