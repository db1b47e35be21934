-------------------------- MODULE OrderBookDisplay --------------------------
(***************************************************************************)
(* What the consumer of a managed book is shown: OrderBook with the emit() *)
(* that follows every accepted delta, every snapshot and every set_bucket  *)
(* (create_subscription in src/services/market_data.rs), rendered by       *)
(* bucket_side and side_to_levels (src/orderbook/mod.rs).  A view is       *)
(* emitted in the step that causes it: BookDelivery takes that step apart. *)
(***************************************************************************)
EXTENDS OrderBook, FiniteSetsExt

CONSTANTS
  Ticks,   \* bucket sizes the application sets, 0 for none
  Depth,   \* levels a view may hold
  MaxI64   \* largest price or quantity the code computes with

ASSUME DisplayAssumption ==
  /\ Prices \subseteq Nat \ {0} /\ IsFiniteSet(Prices) /\ Ticks \subseteq Nat
  /\ Depth \in Nat \ {0} /\ MaxI64 \in Nat

VARIABLES
  bucket,  \* bucket_ticks
  shown,   \* the last view emitted: its sequence number and its levels
  failed   \* the subscription failed on a view it could not render

displayVars == <<vars, bucket, shown, failed>>

-----------------------------------------------------------------------------
(* bucket_side and side_to_levels *)

Held(side) == {p \in Prices : side[p] > 0}

\* Bids round down to a bucket, asks up.
MutantBucketOf(p, ticks, s) == IF ticks = 0 THEN p ELSE (p \div ticks) * ticks
BucketOf(p, ticks, s) ==
  IF ticks = 0 THEN p
  ELSE LET floor == (p \div ticks) * ticks
       IN  IF s = "asks" /\ p % ticks # 0 THEN floor + ticks ELSE floor

Buckets(side, ticks, s) == {BucketOf(p, ticks, s) : p \in Held(side)}

InBucket(side, ticks, s, b) ==
  MapThenSumSet(LAMBDA p : side[p],
                {p \in Held(side) : BucketOf(p, ticks, s) = b})

\* checked_mul and checked_add refuse what an i64 does not hold.
Overflows(side, ticks, s) ==
  ticks > 0 /\ \E b \in Buckets(side, ticks, s) :
                 b > MaxI64 \/ InBucket(side, ticks, s, b) > MaxI64

\* Bids are shown from the highest price down, asks from the lowest up.
AtLeastAsGood(a, b, s) == IF s = "bids" THEN a >= b ELSE a <= b

\* The `Depth` best buckets of a side, with their quantities.
Levels(side, ticks, s) ==
  LET all  == Buckets(side, ticks, s)
      best == {b \in all :
                 Cardinality({a \in all : AtLeastAsGood(a, b, s)}) <= Depth}
  IN  [b \in best |-> InBucket(side, ticks, s, b)]

-----------------------------------------------------------------------------
(* emit(): a closed subscription emits nothing; a book that cannot be       *)
(* rendered closes it.                                                      *)

Emit ==
  \/ failed /\ UNCHANGED <<shown, failed>>
  \/ /\ ~failed /\ \E s \in Sides : Overflows(book'[s], bucket', s)
     /\ failed' = TRUE /\ UNCHANGED shown
  \/ /\ ~failed /\ ~ \E s \in Sides : Overflows(book'[s], bucket', s)
     /\ shown' = [seq |-> seq',
                 sides |-> [s \in Sides |-> Levels(book'[s], bucket', s)]]
     /\ UNCHANGED failed

DisplayInit ==
  /\ Init
  /\ bucket \in Ticks /\ failed = FALSE
  /\ shown = [seq |-> 0, sides |-> [s \in Sides |-> <<>>]]

\* A refused delta asks for a refresh and shows nothing.
Delivered ==
  \E d \in Deltas :
    /\ Deliver(d) /\ UNCHANGED bucket
    /\ IF Refused(d) THEN UNCHANGED <<shown, failed>> ELSE Emit

Snapshotted == Snapshot /\ UNCHANGED bucket /\ Emit

\* set_bucket re-emits a book that is Ready.
SetBucket ==
  /\ \E t \in Ticks : bucket' = t
  /\ UNCHANGED vars
  /\ \/ wanted /\ UNCHANGED <<shown, failed>>
     \/ ~wanted /\ Emit

Published == Publish /\ UNCHANGED <<bucket, shown, failed>>

DisplayNext == Published \/ Delivered \/ Snapshotted \/ SetBucket

DisplaySpec == DisplayInit /\ [][DisplayNext]_displayVars

-----------------------------------------------------------------------------
(* Properties *)

Total(levels, S) == MapThenSumSet(LAMBDA p : levels[p], S)

\* Every view a consumer gets can be traded on: down to any level it shows, it
\* shows exactly the quantity the server's book has at that price or better,
\* and it leaves quantity out only when it is full.
ViewIsExecutable ==
  \A s \in Sides :
    LET offered == shown.sides[s]
        real    == log[shown.seq][s]
    IN  /\ \A b \in DOMAIN offered :
             Total(offered, {a \in DOMAIN offered : AtLeastAsGood(a, b, s)})
               = Total(real, {p \in Prices : IF s = "bids" THEN p >= b ELSE p <= b})
        /\ \/ Cardinality(DOMAIN offered) = Depth
           \/ Total(offered, DOMAIN offered) = Total(real, Prices)
=============================================================================
