-------------------------- MODULE MCPrivateOrders --------------------------
(* Instances of PrivateOrders for TLC. *)
EXTENDS PrivateOrders

CONSTANTS a1, a2, c1, c2
MCOneAccount == {a1}
MCTwoAccounts == {a1, a2}
MCOneConsumer == {c1}
MCTwoConsumers == {c1, c2}

ConsumerSymmetry == Permutations(Consumers)
=============================================================================
