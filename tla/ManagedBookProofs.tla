------------------------- MODULE ManagedBookProofs --------------------------
(***************************************************************************)
(* Proofs about the managed order book: what the book holds (OrderBook),   *)
(* that an unavailable one is asked for again (BookDelivery), and what the *)
(* consumer is shown (OrderBookDisplay).                                   *)
(***************************************************************************)
EXTENDS OrderBookDisplay, BookDelivery, FiniteSetTheorems, TLAPS

-----------------------------------------------------------------------------
(* The contents of the book *)

(* TypeOK, BookIsTheServers, NothingSkipped and NeverRewinds for every log, *)
(* every set of prices and every delivery of deltas.                       *)
(*                                                                         *)
(* The argument is about one applied delta.  Since it is not stale and not *)
(* refused, its span holds both the client's sequence and its own end.  A  *)
(* level it does not name is therefore the same in the server's book at    *)
(* both, and a level it names gets the quantity at the end.                *)

Inv == TypeOK /\ BookIsTheServers /\ NothingSkipped

\* Sequence numbers are naturals.
LEMMA SeqsAreNat == 0 \in Seqs /\ \A n \in Seqs : n \in Nat /\ n <= TopSeq
BY OrderBookAssumption DEF Seqs

\* What the type invariant says of the sequence numbers a step handles.
LEMMA ServerSeqs ==
  ASSUME TypeOK
  PROVE  /\ \A n \in Server : n \in Seqs /\ n \in Nat /\ log[n] \in Books
         /\ seq \in Server /\ seen \in Server
BY SeqsAreNat DEF TypeOK

\* Two books that agree on every level are the same book.
LEMMA SameBook ==
  ASSUME NEW a \in Books, NEW b \in Books,
         \A s \in Sides, p \in Prices : a[s][p] = b[s][p]
  PROVE  a = b
<1>1. \A s \in Sides : a[s] = b[s]
  <2>1. SUFFICES ASSUME NEW s \in Sides PROVE a[s] = b[s]
    OBVIOUS
  <2>2. a[s] \in [Prices -> Qtys] /\ b[s] \in [Prices -> Qtys]
    BY DEF Books
  <2> QED BY <2>2
<1> QED BY <1>1 DEF Books

\* Applying rows of a logged book to a book gives a book.
LEMMA ApplyRowsType ==
  ASSUME NEW b \in Books, NEW d \in Deltas, log \in [Server -> Books]
  PROVE  ApplyRows(b, d) \in Books
<1>1. log[d.end] \in Books
  BY DEF Deltas, Server
<1>2. ASSUME NEW s \in Sides
      PROVE  [p \in Prices |-> IF <<s, p>> \in Rows(d) THEN log[d.end][s][p]
                               ELSE b[s][p]] \in [Prices -> Qtys]
  BY <1>1 DEF Books
<1> QED BY <1>2 DEF ApplyRows, Books

\* A quantity of an applied book.
LEMMA ApplyRowsValue ==
  ASSUME NEW b, NEW d, NEW s \in Sides, NEW p \in Prices
  PROVE  ApplyRows(b, d)[s][p] =
           IF <<s, p>> \in Rows(d) THEN log[d.end][s][p] ELSE b[s][p]
BY DEF ApplyRows

\* A delta that apply_delta accepts and that is not stale turns the server's
\* book at the client's sequence into the server's book at the delta's end.
LEMMA AppliedIsTheServers ==
  ASSUME Inv, NEW d \in Deltas,
         ~Refused(d), ~Stale(d)
  PROVE  ApplyRows(Base(d), d) = log[d.end]
<1> DEFINE end == d.end
<1>1. /\ end \in Server /\ seq \in Server /\ end \in Nat /\ seq \in Nat
      /\ d.start \in Nat
      /\ log[end] \in Books /\ log[seq] \in Books
      /\ book = log[seq] /\ seq < end
  <2>1. end \in Server /\ d.start \in Nat
    BY SeqsAreNat DEF Deltas
  <2>2. seq \in Server /\ end \in Nat /\ seq \in Nat
    BY <2>1, ServerSeqs DEF Inv
  <2> QED BY <2>1, <2>2, ServerSeqs DEF Inv, BookIsTheServers, Stale
<1>2. d.start <= end
  BY <1>1 DEF Refused
<1>3. Empty \in Books
  BY OrderBookAssumption DEF Empty, Books, Qtys
<1>4. Base(d) \in Books
  BY <1>1, <1>3 DEF Base
<1>5. ApplyRows(Base(d), d) \in Books
  BY <1>4, ApplyRowsType DEF Inv, TypeOK
<1>6. ASSUME NEW s \in Sides, NEW p \in Prices
      PROVE  ApplyRows(Base(d), d)[s][p] = log[end][s][p]
  <2>1. CASE <<s, p>> \in Rows(d)
    BY <2>1, ApplyRowsValue
  <2>2. CASE <<s, p>> \notin Rows(d) /\ d.reset
    <3>1. log[end][s][p] = 0
      BY <2>2 DEF Rows
    <3>2. Base(d)[s][p] = 0
      BY <2>2 DEF Base, Empty
    <3> QED BY <2>2, <3>1, <3>2, ApplyRowsValue
  <2>3. CASE <<s, p>> \notin Rows(d) /\ ~d.reset
    <3>1. d.start <= Successor(seq) /\ Successor(seq) <= seq + 1
      BY <1>1, <2>3, OrderBookAssumption DEF Refused, Successor, Inv, TypeOK, Seqs
    <3>2. seq \in Span(d.start, d.end) /\ end \in Span(d.start, d.end)
      BY <1>1, <1>2, <3>1 DEF Span, Successor
    <3>3. <<s, p>> \notin Touched(d.start, d.end)
      BY <2>3 DEF Rows
    <3>4. log[seq][s][p] = log[end][s][p]
      BY <3>2, <3>3, Zenon DEF Touched
    <3> QED BY <1>1, <2>3, <3>4, ApplyRowsValue DEF Base
  <2> QED BY <2>1, <2>2, <2>3
<1> QED BY <1>1, <1>5, <1>6, SameBook

-----------------------------------------------------------------------------

\* An empty book of an empty log.
LEMMA InitInv == Init => Inv
<1> SUFFICES ASSUME Init PROVE Inv
  OBVIOUS
<1>1. Server = {0} /\ log[0] = Empty /\ Empty \in Books
  BY OrderBookAssumption DEF Init, Server, Empty, Books, Qtys
<1>2. TypeOK
  <2>1. log \in [Server -> Books]
    BY <1>1 DEF Init
  <2>2. \A m \in Seqs : ~(m < 0)
    BY SeqsAreNat
  <2> QED BY <1>1, <2>1, <2>2, SeqsAreNat DEF Init, TypeOK
<1> QED BY <1>1, <1>2 DEF Inv, Init, BookIsTheServers, NothingSkipped

\* A longer log leaves the client's book the server's at its sequence.
LEMMA PublishInv == Inv /\ Publish => Inv'
<1> SUFFICES ASSUME Inv, Publish PROVE Inv'
  OBVIOUS
<1>1. PICK b \in Books, n \in Seqs :
        /\ n \notin Server /\ \A m \in Seqs : m < n => m \in Server
        /\ log' = [m \in Server \cup {n} |-> IF m = n THEN b ELSE log[m]]
        /\ UNCHANGED <<book, seq, wanted, seen>>
  BY DEF Publish
<1>2. Server' = Server \cup {n}
  BY <1>1 DEF Server
<1>3. log' \in [Server' -> Books]
  BY <1>1, <1>2 DEF Inv, TypeOK
<1>4. ASSUME NEW j \in Server', NEW m \in Seqs, m < j PROVE m \in Server'
  BY <1>1, <1>2, <1>4 DEF Inv, TypeOK
<1>5. TypeOK'
  BY <1>1, <1>2, <1>3, <1>4 DEF Inv, TypeOK
<1>6. log'[seq] = log[seq]
  BY <1>1 DEF Inv, TypeOK
<1> QED BY <1>1, <1>5, <1>6 DEF Inv, BookIsTheServers, NothingSkipped

\* apply_delta, on every delta the network can deliver.
LEMMA DeliverInv ==
  ASSUME Inv, NEW d \in Deltas, Deliver(d)
  PROVE  Inv' /\ seq <= seq'
<1>1. /\ ApplyDelta(d)
      /\ seen' = IF d.end > seen THEN d.end ELSE seen
      /\ UNCHANGED log
  BY DEF Deliver
<1>2. /\ d.end \in Server /\ seq \in Server /\ seen \in Server
      /\ d.end \in Nat /\ seq \in Nat /\ seen \in Nat
  BY ServerSeqs DEF Inv, Deltas
<1>3. Server' = Server
  BY <1>1 DEF Server
<1>4. CASE Refused(d) /\ wanted' = TRUE /\ UNCHANGED <<book, seq>>
  BY <1>1, <1>2, <1>3, <1>4 DEF Inv, TypeOK, BookIsTheServers, NothingSkipped
<1>5. CASE ~Refused(d) /\ Stale(d) /\ UNCHANGED <<book, seq, wanted>>
  BY <1>1, <1>2, <1>3, <1>5
    DEF Inv, TypeOK, BookIsTheServers, NothingSkipped, Stale
<1>6. CASE /\ ~Refused(d) /\ ~Stale(d)
           /\ book' = ApplyRows(Base(d), d)
           /\ seq' = d.end
           /\ UNCHANGED wanted
  <2>1. book' = log[d.end]
    BY <1>1, <1>6, AppliedIsTheServers
  <2>2. book' \in Books
    BY <1>2, <2>1 DEF Inv, TypeOK
  <2>3. seq < d.end
    BY <1>2, <1>6 DEF Stale
  <2> QED BY <1>1, <1>2, <1>3, <1>6, <2>1, <2>2, <2>3
            DEF Inv, TypeOK, BookIsTheServers, NothingSkipped
<1> QED BY <1>1, <1>4, <1>5, <1>6 DEF ApplyDelta

\* apply_snapshot replaces the book with a logged one.
LEMMA SnapshotInv == Inv /\ Snapshot => Inv'
<1> SUFFICES ASSUME Inv, Snapshot PROVE Inv'
  OBVIOUS
<1>1. PICK n \in Server :
        /\ book' = log[n] /\ seq' = n
        /\ wanted' = FALSE /\ seen' = n
        /\ UNCHANGED log
  BY DEF Snapshot
<1>2. Server' = Server
  BY <1>1 DEF Server
<1>3. log[n] \in Books /\ n \in Nat
  BY ServerSeqs DEF Inv
<1>4. TypeOK'
  BY <1>1, <1>2, <1>3 DEF Inv, TypeOK
<1> QED BY <1>1, <1>3, <1>4 DEF Inv, BookIsTheServers, NothingSkipped

\* No step, no change.
LEMMA StutterInv == Inv /\ UNCHANGED vars => Inv'
BY DEF vars, Inv, TypeOK, BookIsTheServers, NothingSkipped, Server

\* The invariant is inductive.
LEMMA NextInv == Inv /\ [Next]_vars => Inv'
BY PublishInv, DeliverInv, SnapshotInv, StutterInv DEF Next

\* Every reachable book has the declared shape, and the log has no holes.
THEOREM BookTypeCorrect == Spec => []TypeOK
<1>1. Inv => TypeOK
  BY DEF Inv
<1> QED BY <1>1, InitInv, NextInv, PTL DEF Spec

\* apply_delta never leaves a book that differs from the server's book at the
\* sequence number the client reports, whatever is lost, repeated, reordered,
\* coalesced, reset or corrupted.
THEOREM BookCorrect == Spec => []BookIsTheServers
<1>1. Inv => BookIsTheServers
  BY DEF Inv
<1> QED BY <1>1, InitInv, NextInv, PTL DEF Spec

\* A gap never goes unnoticed: what a delta told of is in the book, or a
\* refresh was requested.
THEOREM GapsAreSeen == Spec => []NothingSkipped
<1>1. Inv => NothingSkipped
  BY DEF Inv
<1> QED BY <1>1, InitInv, NextInv, PTL DEF Spec

\* Only a snapshot moves the book back.
THEOREM DeltasNeverRewind == Spec => NeverRewinds
<1>1. Inv /\ [Next]_vars => [Snapshot \/ seq <= seq']_vars
  <2>1. Inv /\ Publish => seq <= seq'
    BY DEF Publish, Inv, TypeOK, Seqs
  <2> QED BY <2>1, DeliverInv DEF Next
<1> QED BY <1>1, InitInv, NextInv, PTL DEF Spec, NeverRewinds

-----------------------------------------------------------------------------
(* Its delivery *)

(* Proofs about BookDelivery: an unavailable book has a request that will  *)
(* ask for it again, and an available one has none that is not too late.   *)

\* Assigning a member of the range keeps a function in its function set.
LEMMA UpdateType ==
  ASSUME NEW D, NEW E, NEW f \in [D -> E], NEW d, NEW e \in E
  PROVE  [f EXCEPT ![d] = e] \in [D -> E]
OBVIOUS

\* The initial states satisfy the invariant.
LEMMA InitIInv == DeliveryInit => IInv
<1> SUFFICES ASSUME DeliveryInit PROVE IInv
  OBVIOUS
<1> USE DeliveryAssumption DEF DeliveryInit
<1>1. RecheckTypes
  <2>1. at \in [Tasks -> Places] /\ then \in [Tasks -> Places]
    BY DEF Places
  <2>2. left \in [Tasks -> Nat] /\ timers \in [0..MaxSnapshots -> Nat]
    OBVIOUS
  <2>5. asking \in [0..MaxSnapshots -> Nat]
    OBVIOUS
  <2>3. recheckGeneration \in Nat /\ snapshots \in 0..MaxSnapshots
    OBVIOUS
  <2>4. /\ available \in BOOLEAN /\ answer \in BOOLEAN
        /\ recheckPending \in BOOLEAN /\ requested \in BOOLEAN
    OBVIOUS
  <2> QED
    BY <2>1, <2>2, <2>3, <2>4, <2>5 DEF RecheckTypes
<1>2. RefreshEnds /\ PendingIsNeeded /\ RecheckScheduled
  BY DEF RefreshEnds, PendingIsNeeded, RecheckScheduled, Tasks
<1>3. OneTimer
  BY DEF OneTimer
<1> QED
  BY <1>1, <1>2, <1>3 DEF IInv

\* A live batch is the pump's.
LEMMA LiveBatchIInv ==
  ASSUME IInv, LiveBatch
  PROVE  IInv'
<1> USE DEF LiveBatch, Live, Goto, Running, bookVars, recheckVars, outVars, streamVars, batchVars
<1>0. RecheckTypes
  BY DEF IInv
<1>1. RecheckTypes'
  <2>1. at' \in [Tasks -> Places] /\ then' \in [Tasks -> Places]
    BY <1>0, UpdateType, DeliveryAssumption DEF RecheckTypes, Places, Tasks
  <2>2. left' \in [Tasks -> Nat]
    BY <1>0, UpdateType, DeliveryAssumption DEF RecheckTypes, Tasks
  <2>3. /\ available' \in BOOLEAN /\ answer' \in BOOLEAN
        /\ recheckPending' \in BOOLEAN /\ requested' \in BOOLEAN
    BY <1>0, UpdateType, DeliveryAssumption DEF RecheckTypes
  <2>4. /\ timers' \in [0..MaxSnapshots -> Nat]
        /\ asking' \in [0..MaxSnapshots -> Nat]
    BY <1>0, UpdateType, DeliveryAssumption DEF RecheckTypes
  <2>5. recheckGeneration' \in Nat /\ snapshots' \in 0..MaxSnapshots
    BY <1>0, UpdateType, DeliveryAssumption DEF RecheckTypes
  <2> QED
    BY <2>1, <2>2, <2>3, <2>4, <2>5 DEF RecheckTypes
<1>2. RefreshEnds'
  BY <1>0, DeliveryAssumption DEF IInv, RecheckTypes, RefreshEnds, Tasks
<1>3. OneTimer'
  BY <1>0, DeliveryAssumption DEF IInv, RecheckTypes, OneTimer, RefreshEnds, Tasks
<1>4. PendingIsNeeded'
  BY <1>0, DeliveryAssumption DEF IInv, RecheckTypes, PendingIsNeeded, OneTimer, RefreshEnds, Tasks
<1>5. RecheckScheduled'
  BY <1>0, DeliveryAssumption DEF IInv, RecheckTypes, RecheckScheduled, OneTimer, RefreshEnds, Tasks
<1> QED
  BY <1>1, <1>2, <1>3, <1>4, <1>5 DEF IInv

\* A snapshot makes the refresh busy, with the availability it says.
LEMMA InstallIInv ==
  ASSUME IInv, Install
  PROVE  IInv'
<1> USE DEF Install, Goto, Running, bookVars, recheckVars, outVars, streamVars, batchVars
<1>0. RecheckTypes
  BY DEF IInv
<1>1. RecheckTypes'
  <2>1. at' \in [Tasks -> Places] /\ then' \in [Tasks -> Places]
    BY <1>0, UpdateType, DeliveryAssumption DEF RecheckTypes, Places, Tasks
  <2>2. left' \in [Tasks -> Nat]
    BY <1>0, UpdateType, DeliveryAssumption DEF RecheckTypes, Tasks
  <2>3. /\ available' \in BOOLEAN /\ answer' \in BOOLEAN
        /\ recheckPending' \in BOOLEAN /\ requested' \in BOOLEAN
    BY <1>0, UpdateType, DeliveryAssumption DEF RecheckTypes
  <2>4. /\ timers' \in [0..MaxSnapshots -> Nat]
        /\ asking' \in [0..MaxSnapshots -> Nat]
    BY <1>0, UpdateType, DeliveryAssumption DEF RecheckTypes
  <2>5. recheckGeneration' \in Nat /\ snapshots' \in 0..MaxSnapshots
    BY <1>0, UpdateType, DeliveryAssumption DEF RecheckTypes
  <2> QED
    BY <2>1, <2>2, <2>3, <2>4, <2>5 DEF RecheckTypes
<1>2. RefreshEnds'
  BY <1>0, DeliveryAssumption DEF IInv, RecheckTypes, RefreshEnds, Tasks
<1>3. OneTimer'
  BY <1>0, DeliveryAssumption DEF IInv, RecheckTypes, OneTimer, RefreshEnds, Tasks
<1>4. PendingIsNeeded'
  BY <1>0, DeliveryAssumption DEF IInv, RecheckTypes, PendingIsNeeded, OneTimer, RefreshEnds, Tasks
<1>5. RecheckScheduled'
  BY <1>0, DeliveryAssumption DEF IInv, RecheckTypes, RecheckScheduled, OneTimer, RefreshEnds, Tasks
<1> QED
  BY <1>1, <1>2, <1>3, <1>4, <1>5 DEF IInv

\* A new bucket is the setter's.
LEMMA SetBucketIInv ==
  ASSUME IInv, SetBucketEmits
  PROVE  IInv'
<1> USE DEF SetBucketEmits, Show, Live, Goto, Running, bookVars, recheckVars, outVars, streamVars, batchVars
<1>0. RecheckTypes
  BY DEF IInv
<1>1. RecheckTypes'
  <2>1. at' \in [Tasks -> Places] /\ then' \in [Tasks -> Places]
    BY <1>0, UpdateType, DeliveryAssumption DEF RecheckTypes, Places, Tasks
  <2>2. left' \in [Tasks -> Nat]
    BY <1>0, UpdateType, DeliveryAssumption DEF RecheckTypes, Tasks
  <2>3. /\ available' \in BOOLEAN /\ answer' \in BOOLEAN
        /\ recheckPending' \in BOOLEAN /\ requested' \in BOOLEAN
    BY <1>0, UpdateType, DeliveryAssumption DEF RecheckTypes
  <2>4. /\ timers' \in [0..MaxSnapshots -> Nat]
        /\ asking' \in [0..MaxSnapshots -> Nat]
    BY <1>0, UpdateType, DeliveryAssumption DEF RecheckTypes
  <2>5. recheckGeneration' \in Nat /\ snapshots' \in 0..MaxSnapshots
    BY <1>0, UpdateType, DeliveryAssumption DEF RecheckTypes
  <2> QED
    BY <2>1, <2>2, <2>3, <2>4, <2>5 DEF RecheckTypes
<1>2. RefreshEnds'
  BY <1>0, DeliveryAssumption DEF IInv, RecheckTypes, RefreshEnds, Tasks
<1>3. OneTimer'
  BY <1>0, DeliveryAssumption DEF IInv, RecheckTypes, OneTimer, RefreshEnds, Tasks
<1>4. PendingIsNeeded'
  BY <1>0, DeliveryAssumption DEF IInv, RecheckTypes, PendingIsNeeded, OneTimer, RefreshEnds, Tasks
<1>5. RecheckScheduled'
  BY <1>0, DeliveryAssumption DEF IInv, RecheckTypes, RecheckScheduled, OneTimer, RefreshEnds, Tasks
<1> QED
  BY <1>1, <1>2, <1>3, <1>4, <1>5 DEF IInv

\* A refused delta ends the batch of its task.
LEMMA RefuseIInv ==
  ASSUME IInv, NEW t \in Tasks, Refuse(t)
  PROVE  IInv'
<1> USE DEF Refuse, Goto, Running, bookVars, recheckVars, outVars, streamVars, batchVars
<1>0. RecheckTypes
  BY DEF IInv
<1>1. RecheckTypes'
  <2>1. at' \in [Tasks -> Places] /\ then' \in [Tasks -> Places]
    BY <1>0, UpdateType, DeliveryAssumption DEF RecheckTypes, Places, Tasks
  <2>2. left' \in [Tasks -> Nat]
    BY <1>0, UpdateType, DeliveryAssumption DEF RecheckTypes, Tasks
  <2>3. /\ available' \in BOOLEAN /\ answer' \in BOOLEAN
        /\ recheckPending' \in BOOLEAN /\ requested' \in BOOLEAN
    BY <1>0, UpdateType, DeliveryAssumption DEF RecheckTypes
  <2>4. /\ timers' \in [0..MaxSnapshots -> Nat]
        /\ asking' \in [0..MaxSnapshots -> Nat]
    BY <1>0, UpdateType, DeliveryAssumption DEF RecheckTypes
  <2>5. recheckGeneration' \in Nat /\ snapshots' \in 0..MaxSnapshots
    BY <1>0, UpdateType, DeliveryAssumption DEF RecheckTypes
  <2> QED
    BY <2>1, <2>2, <2>3, <2>4, <2>5 DEF RecheckTypes
<1>2. RefreshEnds'
  BY <1>0, DeliveryAssumption DEF IInv, RecheckTypes, RefreshEnds, Tasks
<1>3. OneTimer'
  BY <1>0, DeliveryAssumption DEF IInv, RecheckTypes, OneTimer, RefreshEnds, Tasks
<1>4. PendingIsNeeded'
  BY <1>0, DeliveryAssumption DEF IInv, RecheckTypes, PendingIsNeeded, OneTimer, RefreshEnds, Tasks
<1>5. RecheckScheduled'
  BY <1>0, DeliveryAssumption DEF IInv, RecheckTypes, RecheckScheduled, OneTimer, RefreshEnds, Tasks
<1> QED
  BY <1>1, <1>2, <1>3, <1>4, <1>5 DEF IInv

\* An accepted delta shows a view before the next one.
LEMMA AcceptIInv ==
  ASSUME IInv, NEW t \in Tasks, Accept(t)
  PROVE  IInv'
<1> USE DEF Accept, Show, Goto, Running, bookVars, recheckVars, outVars, streamVars, batchVars
<1>0. RecheckTypes
  BY DEF IInv
<1>1. RecheckTypes'
  <2>1. at' \in [Tasks -> Places] /\ then' \in [Tasks -> Places]
    BY <1>0, UpdateType, DeliveryAssumption DEF RecheckTypes, Places, Tasks
  <2>2. left' \in [Tasks -> Nat]
    BY <1>0, UpdateType, DeliveryAssumption DEF RecheckTypes, Tasks
  <2>3. /\ available' \in BOOLEAN /\ answer' \in BOOLEAN
        /\ recheckPending' \in BOOLEAN /\ requested' \in BOOLEAN
    BY <1>0, UpdateType, DeliveryAssumption DEF RecheckTypes
  <2>4. /\ timers' \in [0..MaxSnapshots -> Nat]
        /\ asking' \in [0..MaxSnapshots -> Nat]
    BY <1>0, UpdateType, DeliveryAssumption DEF RecheckTypes
  <2>5. recheckGeneration' \in Nat /\ snapshots' \in 0..MaxSnapshots
    BY <1>0, UpdateType, DeliveryAssumption DEF RecheckTypes
  <2> QED
    BY <2>1, <2>2, <2>3, <2>4, <2>5 DEF RecheckTypes
<1>2. RefreshEnds'
  BY <1>0, DeliveryAssumption DEF IInv, RecheckTypes, RefreshEnds, Tasks
<1>3. OneTimer'
  BY <1>0, DeliveryAssumption DEF IInv, RecheckTypes, OneTimer, RefreshEnds, Tasks
<1>4. PendingIsNeeded'
  BY <1>0, DeliveryAssumption DEF IInv, RecheckTypes, PendingIsNeeded, OneTimer, RefreshEnds, Tasks
<1>5. RecheckScheduled'
  BY <1>0, DeliveryAssumption DEF IInv, RecheckTypes, RecheckScheduled, OneTimer, RefreshEnds, Tasks
<1> QED
  BY <1>1, <1>2, <1>3, <1>4, <1>5 DEF IInv

\* A snapshot that was applied goes on to its recheck.
LEMMA BatchDoneIInv ==
  ASSUME IInv, NEW t \in Tasks, BatchDone(t)
  PROVE  IInv'
<1> USE DEF BatchDone, Show, Goto, Running, bookVars, recheckVars, outVars, streamVars, batchVars
<1>0. RecheckTypes
  BY DEF IInv
<1>1. RecheckTypes'
  <2>1. at' \in [Tasks -> Places] /\ then' \in [Tasks -> Places]
    BY <1>0, UpdateType, DeliveryAssumption DEF RecheckTypes, Places, Tasks
  <2>2. left' \in [Tasks -> Nat]
    BY <1>0, UpdateType, DeliveryAssumption DEF RecheckTypes, Tasks
  <2>3. /\ available' \in BOOLEAN /\ answer' \in BOOLEAN
        /\ recheckPending' \in BOOLEAN /\ requested' \in BOOLEAN
    BY <1>0, UpdateType, DeliveryAssumption DEF RecheckTypes
  <2>4. /\ timers' \in [0..MaxSnapshots -> Nat]
        /\ asking' \in [0..MaxSnapshots -> Nat]
    BY <1>0, UpdateType, DeliveryAssumption DEF RecheckTypes
  <2>5. recheckGeneration' \in Nat /\ snapshots' \in 0..MaxSnapshots
    BY <1>0, UpdateType, DeliveryAssumption DEF RecheckTypes
  <2> QED
    BY <2>1, <2>2, <2>3, <2>4, <2>5 DEF RecheckTypes
<1>2. RefreshEnds'
  BY <1>0, DeliveryAssumption DEF IInv, RecheckTypes, RefreshEnds, Tasks
<1>3. OneTimer'
  BY <1>0, DeliveryAssumption DEF IInv, RecheckTypes, OneTimer, RefreshEnds, Tasks
<1>4. PendingIsNeeded'
  BY <1>0, DeliveryAssumption DEF IInv, RecheckTypes, PendingIsNeeded, OneTimer, RefreshEnds, Tasks
<1>5. RecheckScheduled'
  BY <1>0, DeliveryAssumption DEF IInv, RecheckTypes, RecheckScheduled, OneTimer, RefreshEnds, Tasks
<1> QED
  BY <1>1, <1>2, <1>3, <1>4, <1>5 DEF IInv

\* A view is cloned, or there is nobody to show it to.
LEMMA CloneIInv ==
  ASSUME IInv, NEW t \in Tasks, Clone(t)
  PROVE  IInv'
<1> USE DEF Clone, Goto, Running, bookVars, recheckVars, outVars, streamVars, batchVars
<1>0. RecheckTypes
  BY DEF IInv
<1>1. RecheckTypes'
  <2>1. at' \in [Tasks -> Places] /\ then' \in [Tasks -> Places]
    BY <1>0, UpdateType, DeliveryAssumption DEF RecheckTypes, Places, Tasks
  <2>2. left' \in [Tasks -> Nat]
    BY <1>0, UpdateType, DeliveryAssumption DEF RecheckTypes, Tasks
  <2>3. /\ available' \in BOOLEAN /\ answer' \in BOOLEAN
        /\ recheckPending' \in BOOLEAN /\ requested' \in BOOLEAN
    BY <1>0, UpdateType, DeliveryAssumption DEF RecheckTypes
  <2>4. /\ timers' \in [0..MaxSnapshots -> Nat]
        /\ asking' \in [0..MaxSnapshots -> Nat]
    BY <1>0, UpdateType, DeliveryAssumption DEF RecheckTypes
  <2>5. recheckGeneration' \in Nat /\ snapshots' \in 0..MaxSnapshots
    BY <1>0, UpdateType, DeliveryAssumption DEF RecheckTypes
  <2> QED
    BY <2>1, <2>2, <2>3, <2>4, <2>5 DEF RecheckTypes
<1>2. RefreshEnds'
  BY <1>0, DeliveryAssumption DEF IInv, RecheckTypes, RefreshEnds, Tasks
<1>3. OneTimer'
  BY <1>0, DeliveryAssumption DEF IInv, RecheckTypes, OneTimer, RefreshEnds, Tasks
<1>4. PendingIsNeeded'
  BY <1>0, DeliveryAssumption DEF IInv, RecheckTypes, PendingIsNeeded, OneTimer, RefreshEnds, Tasks
<1>5. RecheckScheduled'
  BY <1>0, DeliveryAssumption DEF IInv, RecheckTypes, RecheckScheduled, OneTimer, RefreshEnds, Tasks
<1> QED
  BY <1>1, <1>2, <1>3, <1>4, <1>5 DEF IInv

\* A view that cannot be rendered fails the stream after it.
LEMMA RenderFailsIInv ==
  ASSUME IInv, NEW t \in Tasks, RenderFails(t)
  PROVE  IInv'
<1> USE DEF RenderFails, Goto, Running, bookVars, recheckVars, outVars, streamVars, batchVars
<1>0. RecheckTypes
  BY DEF IInv
<1>1. RecheckTypes'
  <2>1. at' \in [Tasks -> Places] /\ then' \in [Tasks -> Places]
    BY <1>0, UpdateType, DeliveryAssumption DEF RecheckTypes, Places, Tasks
  <2>2. left' \in [Tasks -> Nat]
    BY <1>0, UpdateType, DeliveryAssumption DEF RecheckTypes, Tasks
  <2>3. /\ available' \in BOOLEAN /\ answer' \in BOOLEAN
        /\ recheckPending' \in BOOLEAN /\ requested' \in BOOLEAN
    BY <1>0, UpdateType, DeliveryAssumption DEF RecheckTypes
  <2>4. /\ timers' \in [0..MaxSnapshots -> Nat]
        /\ asking' \in [0..MaxSnapshots -> Nat]
    BY <1>0, UpdateType, DeliveryAssumption DEF RecheckTypes
  <2>5. recheckGeneration' \in Nat /\ snapshots' \in 0..MaxSnapshots
    BY <1>0, UpdateType, DeliveryAssumption DEF RecheckTypes
  <2> QED
    BY <2>1, <2>2, <2>3, <2>4, <2>5 DEF RecheckTypes
<1>2. RefreshEnds'
  BY <1>0, DeliveryAssumption DEF IInv, RecheckTypes, RefreshEnds, Tasks
<1>3. OneTimer'
  BY <1>0, DeliveryAssumption DEF IInv, RecheckTypes, OneTimer, RefreshEnds, Tasks
<1>4. PendingIsNeeded'
  BY <1>0, DeliveryAssumption DEF IInv, RecheckTypes, PendingIsNeeded, OneTimer, RefreshEnds, Tasks
<1>5. RecheckScheduled'
  BY <1>0, DeliveryAssumption DEF IInv, RecheckTypes, RecheckScheduled, OneTimer, RefreshEnds, Tasks
<1> QED
  BY <1>1, <1>2, <1>3, <1>4, <1>5 DEF IInv

\* A view is queued or not, and its task goes on.
LEMMA SendIInv ==
  ASSUME IInv, NEW t \in Tasks, Send(t)
  PROVE  IInv'
<1> USE DEF Send, Goto, Running, bookVars, recheckVars, outVars, streamVars, batchVars
<1>0. RecheckTypes
  BY DEF IInv
<1>1. RecheckTypes'
  <2>1. at' \in [Tasks -> Places] /\ then' \in [Tasks -> Places]
    BY <1>0, UpdateType, DeliveryAssumption DEF RecheckTypes, Places, Tasks
  <2>2. left' \in [Tasks -> Nat]
    BY <1>0, UpdateType, DeliveryAssumption DEF RecheckTypes, Tasks
  <2>3. /\ available' \in BOOLEAN /\ answer' \in BOOLEAN
        /\ recheckPending' \in BOOLEAN /\ requested' \in BOOLEAN
    BY <1>0, UpdateType, DeliveryAssumption DEF RecheckTypes
  <2>4. /\ timers' \in [0..MaxSnapshots -> Nat]
        /\ asking' \in [0..MaxSnapshots -> Nat]
    BY <1>0, UpdateType, DeliveryAssumption DEF RecheckTypes
  <2>5. recheckGeneration' \in Nat /\ snapshots' \in 0..MaxSnapshots
    BY <1>0, UpdateType, DeliveryAssumption DEF RecheckTypes
  <2> QED
    BY <2>1, <2>2, <2>3, <2>4, <2>5 DEF RecheckTypes
<1>2. RefreshEnds'
  BY <1>0, DeliveryAssumption DEF IInv, RecheckTypes, RefreshEnds, Tasks
<1>3. OneTimer'
  BY <1>0, DeliveryAssumption DEF IInv, RecheckTypes, OneTimer, RefreshEnds, Tasks
<1>4. PendingIsNeeded'
  BY <1>0, DeliveryAssumption DEF IInv, RecheckTypes, PendingIsNeeded, OneTimer, RefreshEnds, Tasks
<1>5. RecheckScheduled'
  BY <1>0, DeliveryAssumption DEF IInv, RecheckTypes, RecheckScheduled, OneTimer, RefreshEnds, Tasks
<1> QED
  BY <1>1, <1>2, <1>3, <1>4, <1>5 DEF IInv

\* A failed stream stays failed.
LEMMA FailIInv ==
  ASSUME IInv, NEW t \in Tasks, Fail(t)
  PROVE  IInv'
<1> USE DEF Fail, Goto, Running, bookVars, recheckVars, outVars, streamVars, batchVars
<1>0. RecheckTypes
  BY DEF IInv
<1>1. RecheckTypes'
  <2>1. at' \in [Tasks -> Places] /\ then' \in [Tasks -> Places]
    BY <1>0, UpdateType, DeliveryAssumption DEF RecheckTypes, Places, Tasks
  <2>2. left' \in [Tasks -> Nat]
    BY <1>0, UpdateType, DeliveryAssumption DEF RecheckTypes, Tasks
  <2>3. /\ available' \in BOOLEAN /\ answer' \in BOOLEAN
        /\ recheckPending' \in BOOLEAN /\ requested' \in BOOLEAN
    BY <1>0, UpdateType, DeliveryAssumption DEF RecheckTypes
  <2>4. /\ timers' \in [0..MaxSnapshots -> Nat]
        /\ asking' \in [0..MaxSnapshots -> Nat]
    BY <1>0, UpdateType, DeliveryAssumption DEF RecheckTypes
  <2>5. recheckGeneration' \in Nat /\ snapshots' \in 0..MaxSnapshots
    BY <1>0, UpdateType, DeliveryAssumption DEF RecheckTypes
  <2> QED
    BY <2>1, <2>2, <2>3, <2>4, <2>5 DEF RecheckTypes
<1>2. RefreshEnds'
  BY <1>0, DeliveryAssumption DEF IInv, RecheckTypes, RefreshEnds, Tasks
<1>3. OneTimer'
  BY <1>0, DeliveryAssumption DEF IInv, RecheckTypes, OneTimer, RefreshEnds, Tasks
<1>4. PendingIsNeeded'
  BY <1>0, DeliveryAssumption DEF IInv, RecheckTypes, PendingIsNeeded, OneTimer, RefreshEnds, Tasks
<1>5. RecheckScheduled'
  BY <1>0, DeliveryAssumption DEF IInv, RecheckTypes, RecheckScheduled, OneTimer, RefreshEnds, Tasks
<1> QED
  BY <1>1, <1>2, <1>3, <1>4, <1>5 DEF IInv

\* The recheck leaves a sleeping request exactly for an unavailable book.
LEMMA RecheckIInv ==
  ASSUME IInv, Recheck
  PROVE  IInv'
<1> USE DEF Recheck, Obsolete, Goto, Running, bookVars, recheckVars, outVars, streamVars, batchVars
<1>0. RecheckTypes
  BY DEF IInv
<1>1. RecheckTypes'
  <2>1. at' \in [Tasks -> Places] /\ then' \in [Tasks -> Places]
    BY <1>0, UpdateType, DeliveryAssumption DEF RecheckTypes, Places, Tasks
  <2>2. left' \in [Tasks -> Nat]
    BY <1>0, UpdateType, DeliveryAssumption DEF RecheckTypes, Tasks
  <2>3. /\ available' \in BOOLEAN /\ answer' \in BOOLEAN
        /\ recheckPending' \in BOOLEAN /\ requested' \in BOOLEAN
    BY <1>0, UpdateType, DeliveryAssumption DEF RecheckTypes
  <2>4. /\ timers' \in [0..MaxSnapshots -> Nat]
        /\ asking' \in [0..MaxSnapshots -> Nat]
    BY <1>0, UpdateType, DeliveryAssumption DEF RecheckTypes
  <2>5. recheckGeneration' \in Nat /\ snapshots' \in 0..MaxSnapshots
    BY <1>0, UpdateType, DeliveryAssumption DEF RecheckTypes
  <2> QED
    BY <2>1, <2>2, <2>3, <2>4, <2>5 DEF RecheckTypes
<1>2. RefreshEnds'
  BY <1>0, DeliveryAssumption DEF IInv, RecheckTypes, RefreshEnds, Tasks
<1>3. OneTimer'
  BY <1>0, DeliveryAssumption DEF IInv, RecheckTypes, OneTimer, RefreshEnds, Tasks
<1>4. PendingIsNeeded'
  BY <1>0, DeliveryAssumption DEF IInv, RecheckTypes, PendingIsNeeded, OneTimer, RefreshEnds, Tasks
<1>5. RecheckScheduled'
  <2>1. CASE answer
    <3>1. available' = TRUE
      BY <1>0, <2>1 DEF IInv, RecheckTypes, RefreshEnds
    <3> QED
      BY <3>1 DEF RecheckScheduled
  <2>2. CASE ~answer
    <3>1. recheckPending' = TRUE
      BY <1>0, <2>2 DEF RecheckTypes
    <3> QED
      BY <1>3, <3>1 DEF OneTimer, RecheckScheduled
  <2> QED
    BY <2>1, <2>2
<1> QED
  BY <1>1, <1>2, <1>3, <1>4, <1>5 DEF IInv

\* A request of the current generation is the pending one.
LEMMA FireIInv ==
  ASSUME IInv, NEW g \in 0..MaxSnapshots, Fire(g)
  PROVE  IInv'
<1> USE DEF Fire, StillWanted, Goto, Running, bookVars, recheckVars, outVars, streamVars, batchVars
<1>0. RecheckTypes
  BY DEF IInv
<1>1. RecheckTypes'
  <2>1. at' \in [Tasks -> Places] /\ then' \in [Tasks -> Places]
    BY <1>0, UpdateType, DeliveryAssumption DEF RecheckTypes, Places, Tasks
  <2>2. left' \in [Tasks -> Nat]
    BY <1>0, UpdateType, DeliveryAssumption DEF RecheckTypes, Tasks
  <2>3. /\ available' \in BOOLEAN /\ answer' \in BOOLEAN
        /\ recheckPending' \in BOOLEAN /\ requested' \in BOOLEAN
    BY <1>0, UpdateType, DeliveryAssumption DEF RecheckTypes
  <2>4. /\ timers' \in [0..MaxSnapshots -> Nat]
        /\ asking' \in [0..MaxSnapshots -> Nat]
    BY <1>0, UpdateType, DeliveryAssumption DEF RecheckTypes
  <2>5. recheckGeneration' \in Nat /\ snapshots' \in 0..MaxSnapshots
    BY <1>0, UpdateType, DeliveryAssumption DEF RecheckTypes
  <2> QED
    BY <2>1, <2>2, <2>3, <2>4, <2>5 DEF RecheckTypes
<1>2. RefreshEnds'
  BY <1>0, DeliveryAssumption DEF IInv, RecheckTypes, RefreshEnds, Tasks
<1>3. OneTimer'
  BY <1>0, DeliveryAssumption DEF IInv, RecheckTypes, OneTimer, RefreshEnds, Tasks
<1>4. PendingIsNeeded'
  <2>0. asking \in [0..MaxSnapshots -> Nat] /\ timers \in [0..MaxSnapshots -> Nat]
    BY <1>0 DEF RecheckTypes
  <2>1. CASE Running /\ StillWanted(g)
    <3>1. g = recheckGeneration /\ recheckPending
      BY <2>1 DEF IInv, OneTimer
    <3>2. ~(available /\ at["refresh"] = "idle")
      BY <2>1, <3>1 DEF IInv, PendingIsNeeded
    <3>3. asking' = [asking EXCEPT ![g] = @ + 1] /\ recheckGeneration' = recheckGeneration
      BY <2>1
    <3>4. \A k \in 0..MaxSnapshots : k > recheckGeneration' => asking'[k] = 0
      BY <1>0, <2>0, <3>1, <3>3 DEF IInv, RecheckTypes, PendingIsNeeded
    <3>5. ~(Running /\ available /\ at["refresh"] = "idle")'
      BY <3>2
    <3> QED
      BY <3>4, <3>5 DEF PendingIsNeeded
  <2>2. CASE ~(Running /\ StillWanted(g))
    <3>1. asking' = asking /\ recheckPending' = recheckPending
      BY <2>2
    <3>2. /\ recheckGeneration' = recheckGeneration
          /\ stream' = stream /\ available' = available /\ at' = at
      OBVIOUS
    <3> QED
      BY <3>1, <3>2 DEF IInv, PendingIsNeeded
  <2> QED
    BY <2>1, <2>2
<1>5. RecheckScheduled'
  <2>0. /\ asking \in [0..MaxSnapshots -> Nat] /\ timers \in [0..MaxSnapshots -> Nat]
        /\ recheckGeneration' = recheckGeneration /\ snapshots' = snapshots
        /\ available' = available /\ at' = at /\ requested' = requested /\ stream' = stream
    BY <1>0 DEF RecheckTypes
  <2>1. CASE Running /\ StillWanted(g)
    <3>1. g = recheckGeneration /\ asking' = [asking EXCEPT ![g] = @ + 1]
      BY <2>1
    <3>2. asking'[recheckGeneration'] > 0
      BY <2>0, <3>1
    <3> QED
      BY <3>2 DEF RecheckScheduled
  <2>2. CASE ~(Running /\ StillWanted(g))
    <3>1. asking' = asking /\ recheckPending' = recheckPending
      BY <2>2
    <3>2. Running => timers'[recheckGeneration] = timers[recheckGeneration]
      <4>1. Running => g # recheckGeneration
        BY <2>2
      <4>2. timers' = [timers EXCEPT ![g] = @ - 1]
        OBVIOUS
      <4> QED
        BY <2>0, <4>1, <4>2
    <3> QED
      BY <2>0, <3>1, <3>2 DEF IInv, RecheckScheduled
  <2> QED
    BY <2>1, <2>2
<1> QED
  BY <1>1, <1>2, <1>3, <1>4, <1>5 DEF IInv

\* The request that a task was let through to make is made.
LEMMA AskIInv ==
  ASSUME IInv, NEW g \in 0..MaxSnapshots, Ask(g)
  PROVE  IInv'
<1> USE DEF Ask, Goto, Running, bookVars, recheckVars, outVars, streamVars, batchVars
<1>0. RecheckTypes
  BY DEF IInv
<1>1. RecheckTypes'
  <2>1. at' \in [Tasks -> Places] /\ then' \in [Tasks -> Places]
    BY <1>0, UpdateType, DeliveryAssumption DEF RecheckTypes, Places, Tasks
  <2>2. left' \in [Tasks -> Nat]
    BY <1>0, UpdateType, DeliveryAssumption DEF RecheckTypes, Tasks
  <2>3. /\ available' \in BOOLEAN /\ answer' \in BOOLEAN
        /\ recheckPending' \in BOOLEAN /\ requested' \in BOOLEAN
    BY <1>0, UpdateType, DeliveryAssumption DEF RecheckTypes
  <2>4. /\ timers' \in [0..MaxSnapshots -> Nat]
        /\ asking' \in [0..MaxSnapshots -> Nat]
    BY <1>0, UpdateType, DeliveryAssumption DEF RecheckTypes
  <2>5. recheckGeneration' \in Nat /\ snapshots' \in 0..MaxSnapshots
    BY <1>0, UpdateType, DeliveryAssumption DEF RecheckTypes
  <2> QED
    BY <2>1, <2>2, <2>3, <2>4, <2>5 DEF RecheckTypes
<1>2. RefreshEnds'
  BY <1>0, DeliveryAssumption DEF IInv, RecheckTypes, RefreshEnds, Tasks
<1>3. OneTimer'
  BY <1>0, DeliveryAssumption DEF IInv, RecheckTypes, OneTimer, RefreshEnds, Tasks
<1>4. PendingIsNeeded'
  BY <1>0, DeliveryAssumption DEF IInv, RecheckTypes, PendingIsNeeded, OneTimer, RefreshEnds, Tasks
<1>5. RecheckScheduled'
  BY <1>0, DeliveryAssumption DEF IInv, RecheckTypes, RecheckScheduled, OneTimer, RefreshEnds, Tasks
<1> QED
  BY <1>1, <1>2, <1>3, <1>4, <1>5 DEF IInv

\* The rest of the world leaves the refresh and its requests alone.
LEMMA WorldIInv ==
  ASSUME IInv, Receive \/ AskRefresh \/ Close \/ Closing \/ StreamFails \/ OnTerminalError
  PROVE  IInv'
<1> USE DEF Receive, AskRefresh, Close, Closing, StreamFails, OnTerminalError, Goto, Running, bookVars, recheckVars, outVars, streamVars, batchVars
<1>0. RecheckTypes
  BY DEF IInv
<1>1. RecheckTypes'
  <2>1. at' \in [Tasks -> Places] /\ then' \in [Tasks -> Places]
    BY <1>0, UpdateType, DeliveryAssumption DEF RecheckTypes, Places, Tasks
  <2>2. left' \in [Tasks -> Nat]
    BY <1>0, UpdateType, DeliveryAssumption DEF RecheckTypes, Tasks
  <2>3. /\ available' \in BOOLEAN /\ answer' \in BOOLEAN
        /\ recheckPending' \in BOOLEAN /\ requested' \in BOOLEAN
    BY <1>0, UpdateType, DeliveryAssumption DEF RecheckTypes
  <2>4. /\ timers' \in [0..MaxSnapshots -> Nat]
        /\ asking' \in [0..MaxSnapshots -> Nat]
    BY <1>0, UpdateType, DeliveryAssumption DEF RecheckTypes
  <2>5. recheckGeneration' \in Nat /\ snapshots' \in 0..MaxSnapshots
    BY <1>0, UpdateType, DeliveryAssumption DEF RecheckTypes
  <2> QED
    BY <2>1, <2>2, <2>3, <2>4, <2>5 DEF RecheckTypes
<1>2. RefreshEnds'
  BY <1>0, DeliveryAssumption DEF IInv, RecheckTypes, RefreshEnds, Tasks
<1>3. OneTimer'
  BY <1>0, DeliveryAssumption DEF IInv, RecheckTypes, OneTimer, RefreshEnds, Tasks
<1>4. PendingIsNeeded'
  BY <1>0, DeliveryAssumption DEF IInv, RecheckTypes, PendingIsNeeded, OneTimer, RefreshEnds, Tasks
<1>5. RecheckScheduled'
  BY <1>0, DeliveryAssumption DEF IInv, RecheckTypes, RecheckScheduled, OneTimer, RefreshEnds, Tasks
<1> QED
  BY <1>1, <1>2, <1>3, <1>4, <1>5 DEF IInv

\* Every step keeps the invariant.
LEMMA NextIInv ==
  ASSUME IInv, [DeliveryNext]_deliveryVars
  PROVE  IInv'
<1>1. ASSUME NEW t \in Tasks, Step(t) PROVE IInv'
  BY <1>1, RefuseIInv, AcceptIInv, BatchDoneIInv, CloneIInv, RenderFailsIInv, SendIInv, FailIInv
     DEF Step
<1>2. ASSUME NEW g \in 0..MaxSnapshots, Fire(g) \/ Ask(g) PROVE IInv'
  BY <1>2, FireIInv, AskIInv
<1>3. CASE LiveBatch \/ Install \/ SetBucketEmits \/ Recheck
  BY <1>3, LiveBatchIInv, InstallIInv, SetBucketIInv, RecheckIInv
<1>4. CASE Receive \/ AskRefresh \/ Close \/ Closing \/ StreamFails \/ OnTerminalError
  BY <1>4, WorldIInv
<1>5. CASE UNCHANGED deliveryVars
  BY <1>5 DEF IInv, RecheckTypes, RefreshEnds, OneTimer, PendingIsNeeded, RecheckScheduled,
              Running, deliveryVars, bookVars, recheckVars, outVars, streamVars, batchVars
<1> QED
  BY <1>1, <1>2, <1>3, <1>4, <1>5 DEF DeliveryNext

\* The invariant of the sleeping requests holds for every bound.
THEOREM Invariance == DeliverySpec => []IInv
BY InitIInv, NextIInv, PTL DEF DeliverySpec

\* A book that is not available is never forgotten: a refresh is wanted, or a
\* task is about to ask for one, or one sleeping task will (market_data.rs:986).
THEOREM ScheduledTheorem == DeliverySpec => []RecheckScheduled
<1>1. IInv => RecheckScheduled
  BY DEF IInv
<1> QED
  BY <1>1, Invariance, PTL

\* A delay that ends while the book is available lets no request through, and
\* the request that reaches an available book is of an earlier generation
\* (market_data.rs:994).
THEOREM NoObsoleteTheorem == DeliverySpec => NoObsoleteRecheck
<1> DEFINE Settled == Running /\ available /\ at["refresh"] = "idle"
           Keeps(g) == /\ asking'[g] <= asking[g]
                       /\ asking'[g] < asking[g] => g < recheckGeneration
<1>1. ASSUME IInv, DeliveryNext, Settled, NEW g \in 0..MaxSnapshots
      PROVE  Keeps(g)
  <2>0. asking \in [0..MaxSnapshots -> Nat] /\ recheckGeneration \in 0..MaxSnapshots
    BY <1>1, DeliveryAssumption DEF IInv, RecheckTypes, RefreshEnds
  <2>1. ASSUME NEW h \in 0..MaxSnapshots, Fire(h) PROVE Keeps(g)
    <3>1. ~(Running /\ StillWanted(h))
      <4>1. timers[recheckGeneration] = 0
        BY <1>1 DEF IInv, OneTimer, PendingIsNeeded
      <4> QED
        BY <2>1, <4>1 DEF Fire, StillWanted
    <3>2. asking' = asking
      BY <2>1, <3>1 DEF Fire
    <3> QED
      BY <2>0, <3>2
  <2>2. ASSUME NEW h \in 0..MaxSnapshots, Ask(h) PROVE Keeps(g)
    <3>1. h < recheckGeneration
      BY <1>1, <2>0, <2>2 DEF IInv, PendingIsNeeded, Ask
    <3> QED
      BY <2>0, <2>2, <3>1 DEF Ask
  <2>3. CASE UNCHANGED asking
    BY <2>0, <2>3
  <2>4. ASSUME NEW t \in Tasks, Step(t) PROVE UNCHANGED asking
    BY <2>4 DEF Step, Refuse, Accept, BatchDone, Clone, RenderFails, Send, Fail, recheckVars
  <2>5. CASE LiveBatch \/ Install \/ SetBucketEmits \/ Recheck
    BY <2>3, <2>5 DEF LiveBatch, Install, SetBucketEmits, Recheck, recheckVars
  <2>6. CASE Receive \/ AskRefresh \/ Close \/ Closing \/ StreamFails \/ OnTerminalError
    BY <2>3, <2>6 DEF Receive, AskRefresh, Close, Closing, StreamFails, OnTerminalError,
                      recheckVars
  <2> QED
    BY <1>1, <2>1, <2>2, <2>3, <2>4, <2>5, <2>6 DEF DeliveryNext
<1>2. ASSUME IInv, [DeliveryNext]_deliveryVars
      PROVE  [\A g \in 0..MaxSnapshots : Settled => Keeps(g)]_deliveryVars
  BY <1>1, <1>2
<1> QED
  BY <1>2, Invariance, PTL DEF DeliverySpec, NoObsoleteRecheck

-----------------------------------------------------------------------------
(* What the consumer is shown *)

(* ViewIsExecutable for every log, every set of prices, every bucket size  *)
(* and every depth.  A view shows the levels of the server's book at the   *)
(* number it names (ViewIsOfTheLog), so the property is one of Levels: the *)
(* prices that round to a bucket at b or better are those at b or better   *)
(* (BucketKeepsOrder), the levels shown hold every bucket better than one  *)
(* of them (BestPrices), and a sum of sums by bucket is the sum            *)
(* (TotalOfTotals, by FoldInduction).                                      *)

\* The sum of levels is a loop over them.
Any(s) == CHOOSE x \in s : TRUE
AddAt(f, p, n) == f[p] + n
NoInvariant(e, s, b) == TRUE
Sum == INSTANCE FoldInduction WITH Step <- AddAt, Pick <- Any, Inv <- NoInvariant

\* The induction of FoldInduction over finite sets.
LEMMA FiniteSetInduction ==
  ASSUME NEW S, IsFiniteSet(S), NEW G, {} \in G,
         \A s \in SUBSET S : \A x \in S \ s : s \in G => s \cup {x} \in G
  PROVE  S \in G
<1>1. Sum!IsFiniteSet(S)
  BY Zenon DEF IsFiniteSet, Sum!IsFiniteSet
<1> QED
  BY <1>1, Sum!SetInduction

\* A sum that is not empty is one level and the sum of the others.
LEMMA TotalUnroll ==
  ASSUME NEW f, NEW S, IsFiniteSet(S)
  PROVE  /\ S = {} => Total(f, S) = 0
         /\ S # {} => \E x \in S : Total(f, S) = f[x] + Total(f, S \ {x})
<1>1. \A s : Total(f, s) = Sum!Over(f, 0, s)
  BY Zenon DEF Total, MapThenSumSet, MapThenFoldSet, Sum!Over, Sum!MapThenFoldSet, AddAt, Any
<1>2. Sum!IsFiniteSet(S)
  BY Zenon DEF IsFiniteSet, Sum!IsFiniteSet
<1>3. Sum!Picks(S)
  BY Zenon DEF Sum!Picks, Any
<1>4. Sum!Over(f, 0, S) = IF S = {} THEN 0 ELSE AddAt(f, Any(S), Sum!Over(f, 0, S \ {Any(S)}))
  BY <1>2, <1>3, Sum!FoldUnroll, Zenon
<1>5. S # {} => Any(S) \in S
  BY Zenon DEF Any
<1> QED
  BY <1>1, <1>4, <1>5, Zenon DEF AddAt

\* Any level of a sum can be taken out.
LEMMA TotalTake ==
  ASSUME NEW f, NEW S, IsFiniteSet(S), \A x \in S : f[x] \in Nat
  PROVE  /\ Total(f, S) \in Nat
         /\ \A x \in S : Total(f, S) = f[x] + Total(f, S \ {x})
<1> DEFINE P(s) == /\ Total(f, s) \in Nat
                   /\ \A x \in s : Total(f, s) = f[x] + Total(f, s \ {x})
           Bad == {n \in Nat : \E s \in SUBSET S : Cardinality(s) = n /\ ~P(s)}
<1>1. ASSUME NEW s \in SUBSET S, \A t \in SUBSET s : Cardinality(t) < Cardinality(s) => P(t)
      PROVE  P(s)
  <2>1. CASE s = {}
    BY <2>1, TotalUnroll, FS_EmptySet
  <2>2. CASE s # {}
    <3> HIDE DEF P
    <3>1. IsFiniteSet(s) /\ Cardinality(s) \in Nat
      BY FS_Subset, FS_CardinalityType
    <3>2. ASSUME NEW x \in s PROVE P(s \ {x})
      <4>1. IsFiniteSet(s \ {x}) /\ Cardinality(s \ {x}) = Cardinality(s) - 1
        BY <3>1, FS_RemoveElement, Zenon
      <4>2. Cardinality(s \ {x}) < Cardinality(s)
        BY <3>1, <4>1
      <4> QED
        BY <1>1, <4>2
    <3>3. PICK y \in s : Total(f, s) = f[y] + Total(f, s \ {y})
      BY <2>2, <3>1, TotalUnroll
    <3>4. Total(f, s) \in Nat
      BY <3>2, <3>3 DEF P
    <3>5. ASSUME NEW x \in s, x # y PROVE Total(f, s) = f[x] + Total(f, s \ {x})
      <4>1. (s \ {x}) \ {y} = (s \ {y}) \ {x}
        OBVIOUS
      <4>2. Total(f, s \ {x}) = f[y] + Total(f, (s \ {x}) \ {y})
        <5>1. y \in s \ {x}
          BY <3>5
        <5> QED
          BY <3>2, <5>1 DEF P
      <4>3. Total(f, s \ {y}) = f[x] + Total(f, (s \ {y}) \ {x})
        BY <3>2, <3>5 DEF P
      <4>4. Total(f, (s \ {x}) \ {y}) \in Nat
        <5>1. IsFiniteSet(s \ {x}) /\ Cardinality(s \ {x}) = Cardinality(s) - 1
          BY <3>1, FS_RemoveElement, Zenon
        <5>2. y \in s \ {x}
          BY <3>5
        <5>3. Cardinality((s \ {x}) \ {y}) = Cardinality(s \ {x}) - 1
          BY <5>1, <5>2, FS_RemoveElement, Zenon
        <5>4. Cardinality((s \ {x}) \ {y}) < Cardinality(s)
          BY <3>1, <5>1, <5>3
        <5> QED
          BY <1>1, <5>4 DEF P
      <4>5. f[x] \in Nat /\ f[y] \in Nat
        OBVIOUS
      <4>6. Total(f, s) = f[y] + (f[x] + Total(f, (s \ {x}) \ {y}))
        BY <3>3, <4>1, <4>3, Zenon
      <4> QED
        BY <4>2, <4>4, <4>5, <4>6
    <3> QED
      BY <3>3, <3>4, <3>5 DEF P
  <2> QED
    BY <2>1, <2>2
<1>2. Bad = {}
  <2>1. SUFFICES ASSUME Bad # {} PROVE FALSE
    OBVIOUS
  <2>2. PICK n \in Bad : \A m \in 0..n-1 : m \notin Bad
    <3>1. Bad \subseteq Nat
      OBVIOUS
    <3> HIDE DEF Bad
    <3> QED
      BY <2>1, <3>1, Sum!LeastMember
  <2>3. PICK s \in SUBSET S : Cardinality(s) = n /\ ~P(s)
    BY <2>2
  <2>4. PICK t \in SUBSET s : Cardinality(t) < Cardinality(s) /\ ~P(t)
    BY <1>1, <2>3
  <2>5. Cardinality(t) \in Nat /\ t \in SUBSET S
    BY FS_Subset, FS_CardinalityType
  <2> QED
    BY <2>2, <2>3, <2>4, <2>5
<1>3. Cardinality(S) \in Nat
  BY FS_CardinalityType
<1> QED
  BY <1>2, <1>3

\* A level is added to a sum.
LEMMA TotalAdd ==
  ASSUME NEW f, NEW S, IsFiniteSet(S), NEW x, x \notin S, \A y \in S \cup {x} : f[y] \in Nat
  PROVE  Total(f, S \cup {x}) = f[x] + Total(f, S)
<1>1. IsFiniteSet(S \cup {x}) /\ (S \cup {x}) \ {x} = S /\ x \in S \cup {x}
  BY FS_AddElement
<1> QED
  BY <1>1, TotalTake

\* The sum of disjoint sets of levels.
LEMMA TotalUnion ==
  ASSUME NEW f, NEW S, IsFiniteSet(S), NEW T, IsFiniteSet(T), S \cap T = {},
         \A x \in S \cup T : f[x] \in Nat
  PROVE  Total(f, S \cup T) = Total(f, S) + Total(f, T)
<1> DEFINE G == {t \in SUBSET T : Total(f, S \cup t) = Total(f, S) + Total(f, t)}
<1>1. Total(f, S) \in Nat /\ Total(f, {}) = 0
  BY TotalTake, TotalUnroll, FS_EmptySet
<1>2. {} \in G
  <2>1. S \cup {} = S
    OBVIOUS
  <2> QED
    BY <1>1, <2>1
<1>3. ASSUME NEW t \in SUBSET T, NEW x \in T \ t, t \in G PROVE t \cup {x} \in G
  <2>1. IsFiniteSet(t) /\ IsFiniteSet(S \cup t)
    BY FS_Subset, FS_Union
  <2>2. Total(f, t \cup {x}) = f[x] + Total(f, t)
    BY <2>1, TotalAdd
  <2>3. Total(f, (S \cup t) \cup {x}) = f[x] + Total(f, S \cup t)
    BY <2>1, TotalAdd
  <2>4. (S \cup t) \cup {x} = S \cup (t \cup {x}) /\ t \cup {x} \in SUBSET T
    OBVIOUS
  <2>5. f[x] \in Nat /\ Total(f, t) \in Nat
    BY <2>1, TotalTake
  <2>6. Total(f, S \cup t) = Total(f, S) + Total(f, t)
    BY <1>3
  <2>7. Total(f, S \cup (t \cup {x})) = f[x] + (Total(f, S) + Total(f, t))
    BY <2>3, <2>4, <2>6, Zenon
  <2>8. Total(f, S \cup (t \cup {x})) = Total(f, S) + Total(f, t \cup {x})
    BY <1>1, <2>2, <2>5, <2>7
  <2> QED
    BY <2>4, <2>8
<1>4. T \in G
  <2> HIDE DEF G
  <2> QED
    BY <1>2, <1>3, FiniteSetInduction
<1> QED
  BY <1>4

\* A sum of empty levels is none.
LEMMA TotalOfNothing ==
  ASSUME NEW f, NEW S, IsFiniteSet(S), \A x \in S : f[x] = 0
  PROVE  Total(f, S) = 0
<1> DEFINE G == {t \in SUBSET S : Total(f, t) = 0}
<1>1. {} \in G
  BY TotalUnroll, FS_EmptySet
<1>2. ASSUME NEW t \in SUBSET S, NEW x \in S \ t, t \in G PROVE t \cup {x} \in G
  <2>1. IsFiniteSet(t)
    BY FS_Subset
  <2>2. \A y \in t \cup {x} : f[y] \in Nat
    OBVIOUS
  <2>3. Total(f, t \cup {x}) = f[x] + Total(f, t)
    BY <2>1, <2>2, TotalAdd
  <2> QED
    BY <1>2, <2>3
<1>3. S \in G
  <2> HIDE DEF G
  <2> QED
    BY <1>1, <1>2, FiniteSetInduction
<1> QED
  BY <1>3

\* Levels are summed by bucket: the sum of the sums is the sum.
LEMMA TotalOfTotals ==
  ASSUME NEW f, NEW S, IsFiniteSet(S), \A x \in S : f[x] \in Nat, NEW B,
         NEW A, IsFiniteSet(A), NEW Of, NEW L,
         \A a \in A : Of[a] \in SUBSET S,
         \A a \in A : \A x \in S : x \in Of[a] <=> B[x] = a,
         \A a \in A : L[a] = Total(f, Of[a]),
         NEW U \in SUBSET S, \A x \in S : x \in U <=> B[x] \in A
  PROVE  Total(L, A) = Total(f, U)
<1> DEFINE In(s) == {x \in S : B[x] \in s}
           G == {s \in SUBSET A : Total(L, s) = Total(f, In(s))}
<1>1. {} \in G
  <2>1. In({}) = {}
    OBVIOUS
  <2> QED
    <3>1. Total(L, {}) = 0 /\ Total(f, {}) = 0
      BY TotalUnroll, FS_EmptySet
    <3>2. {} \in G <=> Total(L, {}) = Total(f, In({}))
      OBVIOUS
    <3> HIDE DEF G, In
    <3> QED
      BY <2>1, <3>1, <3>2, Zenon
<1>2. ASSUME NEW a \in A PROVE L[a] \in Nat /\ L[a] = Total(f, Of[a]) /\ IsFiniteSet(Of[a])
  <2>1. Of[a] \in SUBSET S /\ L[a] = Total(f, Of[a])
    OBVIOUS
  <2>2. IsFiniteSet(Of[a]) /\ \A x \in Of[a] : f[x] \in Nat
    BY <2>1, FS_Subset
  <2> HIDE DEF G
  <2> QED
    BY <2>1, <2>2, TotalTake
<1>3. ASSUME NEW s \in SUBSET A, NEW a \in A \ s, s \in G PROVE s \cup {a} \in G
  <2>1. IsFiniteSet(s) /\ \A x \in s \cup {a} : L[x] \in Nat
    BY <1>2, FS_Subset
  <2>2. Total(L, s \cup {a}) = L[a] + Total(L, s)
    BY <2>1, TotalAdd
  <2>3. /\ In(s) \in SUBSET S /\ Of[a] \in SUBSET S
        /\ In(s) \cap Of[a] = {} /\ In(s \cup {a}) = In(s) \cup Of[a]
    BY <1>3
  <2>4. L[a] = Total(f, Of[a]) /\ Total(L, s) = Total(f, In(s)) /\ s \cup {a} \in SUBSET A
    BY <1>2, <1>3
  <2>5. s \cup {a} \in G <=> Total(L, s \cup {a}) = Total(f, In(s \cup {a}))
    BY <2>4
  <2> HIDE DEF In, G
  <2>6. IsFiniteSet(In(s)) /\ IsFiniteSet(Of[a])
    BY <2>3, FS_Subset
  <2>7. Total(f, In(s) \cup Of[a]) = Total(f, In(s)) + Total(f, Of[a])
    BY <2>3, <2>6, TotalUnion
  <2>8. Total(f, In(s)) \in Nat /\ Total(f, Of[a]) \in Nat
    BY <2>3, <2>6, TotalTake
  <2>9. Total(L, s \cup {a}) = Total(f, Of[a]) + Total(f, In(s))
    BY <2>2, <2>4, Zenon
  <2>10. Total(L, s \cup {a}) = Total(f, In(s)) + Total(f, Of[a])
    BY <2>8, <2>9
  <2> QED
    BY <2>3, <2>5, <2>7, <2>10, Zenon
<1>4. A \in G
  <2> HIDE DEF G
  <2> QED
    BY <1>1, <1>3, FiniteSetInduction
<1>5. In(A) = U
  OBVIOUS
<1> QED
  BY <1>4, <1>5

\* Bids and asks are ordered, from the best price on.
LEMMA BetterPrices ==
  ASSUME NEW s \in Sides, NEW a \in Nat, NEW b \in Nat, NEW c \in Nat
  PROVE  /\ AtLeastAsGood(a, a, s)
         /\ AtLeastAsGood(a, b, s) \/ AtLeastAsGood(b, a, s)
         /\ AtLeastAsGood(a, b, s) /\ AtLeastAsGood(b, a, s) => a = b
         /\ AtLeastAsGood(a, b, s) /\ AtLeastAsGood(b, c, s) => AtLeastAsGood(a, c, s)
BY DEF AtLeastAsGood, Sides

\* The prices of S at b or better.
UpTo(S, b, s) == {a \in S : AtLeastAsGood(a, b, s)}

\* A price has fewer at its level or better than a worse one.
LEMMA RankGrows ==
  ASSUME NEW s \in Sides, NEW S \in SUBSET Nat, IsFiniteSet(S), NEW a \in S, NEW b \in S,
         AtLeastAsGood(a, b, s)
  PROVE  /\ UpTo(S, a, s) \subseteq UpTo(S, b, s)
         /\ Cardinality(UpTo(S, a, s)) \in Nat /\ Cardinality(UpTo(S, b, s)) \in Nat
         /\ Cardinality(UpTo(S, a, s)) <= Cardinality(UpTo(S, b, s))
         /\ a # b => Cardinality(UpTo(S, a, s)) < Cardinality(UpTo(S, b, s))
<1>1. UpTo(S, a, s) \in SUBSET UpTo(S, b, s)
  BY BetterPrices DEF UpTo
<1>2. IsFiniteSet(UpTo(S, a, s)) /\ IsFiniteSet(UpTo(S, b, s))
  <2>1. UpTo(S, a, s) \in SUBSET S /\ UpTo(S, b, s) \in SUBSET S
    BY DEF UpTo
  <2> QED
    BY <2>1, FS_Subset
<1>3. a # b => UpTo(S, a, s) # UpTo(S, b, s)
  <2>1. b \in UpTo(S, b, s)
    BY BetterPrices DEF UpTo
  <2>2. b \in UpTo(S, a, s) => AtLeastAsGood(b, a, s)
    BY DEF UpTo
  <2>3. a # b => ~AtLeastAsGood(b, a, s)
    BY BetterPrices
  <2> QED
    BY <2>1, <2>2, <2>3
<1>4. Cardinality(UpTo(S, a, s)) \in Nat /\ Cardinality(UpTo(S, b, s)) \in Nat
  BY <1>2, FS_CardinalityType
<1>5. /\ Cardinality(UpTo(S, a, s)) <= Cardinality(UpTo(S, b, s))
      /\ Cardinality(UpTo(S, a, s)) = Cardinality(UpTo(S, b, s))
           => UpTo(S, a, s) = UpTo(S, b, s)
  BY <1>1, <1>2, FS_Subset, Zenon
<1> QED
  BY <1>1, <1>3, <1>4, <1>5

\* The best prices of S, as Levels chooses them.
Best(S, s) == {b \in S : Cardinality(UpTo(S, b, s)) <= Depth}

\* With a price all better ones are among the best; there are as many of them as
\* fit, or none is left out.
LEMMA BestPrices ==
  ASSUME NEW s \in Sides, NEW S \in SUBSET Nat, IsFiniteSet(S)
  PROVE  /\ \A b \in Best(S, s) : UpTo(Best(S, s), b, s) = UpTo(S, b, s)
         /\ Cardinality(Best(S, s)) = Depth \/ Best(S, s) = S
<1> DEFINE T == Best(S, s)
           rank == [b \in S |-> Cardinality(UpTo(S, b, s))]
<1>1. T \in SUBSET S /\ T = {b \in S : rank[b] <= Depth} /\ rank \in [S -> Nat]
  <2>1. \A b \in S : Cardinality(UpTo(S, b, s)) \in Nat
    BY RankGrows, BetterPrices
  <2> QED
    BY <2>1 DEF Best
<1>2. ASSUME NEW a \in S, NEW b \in S, AtLeastAsGood(a, b, s)
      PROVE  rank[a] <= rank[b] /\ (a # b => rank[a] < rank[b])
  BY <1>2, RankGrows
<1>3. Depth \in Nat \ {0}
  BY DisplayAssumption
<1>4. IsFiniteSet(T) /\ Cardinality(T) \in Nat
  BY <1>1, FS_Subset, FS_CardinalityType
<1>5. \A b \in S : rank[b] = Cardinality(UpTo(S, b, s))
  OBVIOUS
<1> HIDE DEF T, rank
<1>6. ASSUME NEW b \in T, NEW a \in S, AtLeastAsGood(a, b, s) PROVE a \in T
  BY <1>1, <1>2, <1>3, <1>6
<1>7. ASSUME NEW b \in T PROVE UpTo(T, b, s) = UpTo(S, b, s)
  BY <1>1, <1>6 DEF UpTo
<1>8. Cardinality(T) <= Depth
  <2>1. CASE T = {}
    BY <1>3, <2>1, FS_EmptySet
  <2>2. CASE T # {}
    \* the worst of the best has all of them at its level or better
    <3> DEFINE D == {Depth - rank[b] : b \in T}
    <3>1. D \subseteq Nat /\ D # {}
      <4>1. \A b \in T : rank[b] \in Nat /\ rank[b] <= Depth
        BY <1>1
      <4>2. \A b \in T : Depth - rank[b] \in Nat
        BY <1>3, <4>1
      <4> QED
        BY <2>2, <4>2
    <3>2. PICK n \in D : \A m \in 0..n-1 : m \notin D
      <4> HIDE DEF D
      <4> QED
        BY <3>1, Sum!LeastMember
    <3>3. PICK w \in T : n = Depth - rank[w]
      BY <3>2
    <3>4. \A b \in T : rank[b] <= rank[w]
      <4>1. SUFFICES ASSUME NEW b \in T, ~(rank[b] <= rank[w]) PROVE FALSE
        OBVIOUS
      <4>2. rank[b] \in Nat /\ rank[w] \in Nat /\ rank[b] <= Depth /\ rank[w] <= Depth
        BY <1>1
      <4>3. Depth - rank[b] \in 0..n-1
        BY <1>3, <3>3, <4>1, <4>2
      <4>4. Depth - rank[b] \in D
        OBVIOUS
      <4> HIDE DEF D
      <4> QED
        BY <3>2, <4>3, <4>4, Zenon
    <3>5. \A b \in T : AtLeastAsGood(b, w, s)
      <4>1. SUFFICES ASSUME NEW b \in T, ~AtLeastAsGood(b, w, s) PROVE FALSE
        OBVIOUS
      <4>2. AtLeastAsGood(w, b, s) /\ w # b /\ w \in S /\ b \in S
        BY <1>1, <4>1, BetterPrices
      <4>3. rank[w] < rank[b] /\ rank[w] \in Nat /\ rank[b] \in Nat
        BY <1>1, <1>2, <4>2
      <4> QED
        BY <3>4, <4>3
    <3>6. T \in SUBSET UpTo(S, w, s)
      BY <1>1, <3>5 DEF UpTo
    <3>7. IsFiniteSet(UpTo(S, w, s))
      <4>1. UpTo(S, w, s) \in SUBSET S
        BY DEF UpTo
      <4> QED
        BY <4>1, FS_Subset
    <3>8. Cardinality(T) <= Cardinality(UpTo(S, w, s))
      BY <3>6, <3>7, FS_Subset
    <3>9. rank[w] \in Nat /\ rank[w] <= Depth /\ rank[w] = Cardinality(UpTo(S, w, s))
      BY <1>1, <1>5
    <3> QED
      BY <1>3, <1>4, <3>8, <3>9
  <2> QED
    BY <2>1, <2>2
<1>9. ASSUME T # S PROVE Cardinality(T) >= Depth
  \* the best of the others has only the best ones before it
  <2> DEFINE D == {rank[b] : b \in S \ T}
  <2>1. D \subseteq Nat /\ D # {}
    BY <1>1, <1>9
  <2>2. PICK n \in D : \A m \in 0..n-1 : m \notin D
    <3> HIDE DEF D
    <3> QED
      BY <2>1, Sum!LeastMember
  <2>3. PICK w \in S \ T : n = rank[w]
    BY <2>2
  <2>4. ASSUME NEW a \in S, AtLeastAsGood(a, w, s), a # w PROVE a \in T
    <3>1. SUFFICES ASSUME a \notin T PROVE FALSE
      OBVIOUS
    <3>2. rank[a] < rank[w] /\ rank[a] \in Nat /\ rank[w] \in Nat
      BY <1>1, <1>2, <2>4
    <3>3. rank[a] \in D
      BY <3>1
    <3>4. rank[a] \in 0..n-1
      BY <2>3, <3>2
    <3> HIDE DEF D
    <3> QED
      BY <2>2, <3>3, <3>4, Zenon
  <2>5. UpTo(S, w, s) \in SUBSET (T \cup {w})
    BY <2>4 DEF UpTo
  <2>6. IsFiniteSet(T \cup {w}) /\ Cardinality(T \cup {w}) = Cardinality(T) + 1
    BY <1>4, FS_AddElement, Zenon
  <2>7. rank[w] <= Cardinality(T) + 1
    BY <1>5, <2>5, <2>6, FS_Subset
  <2>8. rank[w] > Depth /\ rank[w] \in Nat
    BY <1>1, <1>3
  <2> QED
    BY <1>3, <1>4, <2>7, <2>8
<1>10. Cardinality(T) = Depth \/ T = S
  BY <1>3, <1>4, <1>8, <1>9
<1> QED
  BY <1>7, <1>10 DEF T

\* Rounding to a multiple, down or up, keeps the order to a multiple.
LEMMA Rounding ==
  ASSUME NEW p \in Nat, NEW q \in Nat, NEW t \in Nat \ {0}
  PROVE  LET floor == (p \div t) * t
             ceil  == IF p % t # 0 THEN floor + t ELSE floor
             m     == (q \div t) * t
         IN  /\ floor \in Nat /\ ceil \in Nat /\ m \in Nat
             /\ floor >= m <=> p >= m
             /\ ceil <= m <=> p <= m
             /\ floor >= m + t <=> p >= m + t
             /\ ceil <= m + t <=> p <= m + t
<1> DEFINE i == p \div t
           r == p % t
           j == q \div t
<1>1. i \in Nat /\ r \in Nat /\ r < t /\ p = i * t + r
  OBVIOUS
<1>2. j \in Nat
  OBVIOUS
<1> HIDE DEF i, r, j
<1>3. \A k \in Nat : /\ i * t \in Nat /\ k * t \in Nat /\ (i + 1) * t = i * t + t
                     /\ i < k => (i + 1) * t <= k * t
                     /\ k <= i => k * t <= i * t
  <2>1. \A k \in Nat : i < k => i + 1 <= k
    BY <1>1
  <2>2. \A x, y \in Nat : x <= y => x * t <= y * t
    OBVIOUS
  <2>3. i * t \in Nat /\ (i + 1) * t = i * t + t /\ i + 1 \in Nat
    BY <1>1
  <2>4. \A k \in Nat : k * t \in Nat
    OBVIOUS
  <2> QED
    BY <1>1, <2>1, <2>2, <2>3, <2>4
<1>4. ASSUME NEW k \in Nat
      PROVE  /\ i * t >= k * t <=> p >= k * t
             /\ (IF r # 0 THEN i * t + t ELSE i * t) <= k * t <=> p <= k * t
  <2>1. CASE i < k
    <3>1. i * t + t <= k * t /\ i * t \in Nat /\ k * t \in Nat
      BY <1>3, <2>1
    <3> QED
      BY <1>1, <3>1
  <2>2. CASE k <= i
    <3>1. k * t <= i * t /\ i * t \in Nat /\ k * t \in Nat
      BY <1>3, <2>2
    <3> QED
      BY <1>1, <3>1
  <2> QED
    BY <1>1, <2>1, <2>2
<1>5. (j + 1) * t = j * t + t /\ j + 1 \in Nat /\ j * t \in Nat
  BY <1>2
<1>6. /\ i * t >= j * t <=> p >= j * t
      /\ (IF r # 0 THEN i * t + t ELSE i * t) <= j * t <=> p <= j * t
  BY <1>2, <1>4
<1>7. /\ i * t >= j * t + t <=> p >= j * t + t
      /\ (IF r # 0 THEN i * t + t ELSE i * t) <= j * t + t <=> p <= j * t + t
  <2>1. /\ i * t >= (j + 1) * t <=> p >= (j + 1) * t
        /\ (IF r # 0 THEN i * t + t ELSE i * t) <= (j + 1) * t <=> p <= (j + 1) * t
    BY <1>4, <1>5, Zenon
  <2> QED
    BY <1>5, <2>1, Zenon
<1>8. i * t \in Nat /\ i * t + t \in Nat
  BY <1>1, <1>3
<1> QED
  BY <1>5, <1>6, <1>7, <1>8 DEF i, j, r

\* A price is at a bucket or better when its own bucket is.
LEMMA BucketKeepsOrder ==
  ASSUME NEW s \in Sides, NEW t \in Nat, NEW p \in Nat, NEW q \in Nat
  PROVE  /\ BucketOf(p, t, s) \in Nat
         /\ AtLeastAsGood(BucketOf(p, t, s), BucketOf(q, t, s), s)
              <=> AtLeastAsGood(p, BucketOf(q, t, s), s)
<1>1. CASE t = 0
  BY <1>1 DEF BucketOf
<1>2. CASE t # 0
  <2> DEFINE floor == (p \div t) * t
             m     == (q \div t) * t
             ceil  == IF p % t # 0 THEN floor + t ELSE floor
  <2>1. /\ floor \in Nat /\ ceil \in Nat /\ m \in Nat
        /\ floor >= m <=> p >= m
        /\ ceil <= m <=> p <= m
        /\ floor >= m + t <=> p >= m + t
        /\ ceil <= m + t <=> p <= m + t
    BY <1>2, Rounding, Zenon
  <2>2. /\ BucketOf(p, t, s) = IF s = "asks" THEN ceil ELSE floor
        /\ BucketOf(q, t, s) = m \/ (s = "asks" /\ BucketOf(q, t, s) = m + t)
    BY <1>2, Zenon DEF BucketOf
  <2>3. s = "asks" \/ s = "bids"
    BY DEF Sides
  <2> HIDE DEF floor, m, ceil
  <2> QED
    BY <2>1, <2>2, <2>3 DEF AtLeastAsGood
<1> QED
  BY <1>1, <1>2

\* What the levels of a side show: down to each of them the quantity that the side
\* has there, and of the rest something only when there is no room.
LEMMA LevelsAreExecutable ==
  ASSUME NEW s \in Sides, NEW t \in Nat, NEW side \in [Prices -> Qtys]
  PROVE  LET L == Levels(side, t, s)
         IN  /\ \A b \in DOMAIN L :
                  Total(L, {a \in DOMAIN L : AtLeastAsGood(a, b, s)})
                    = Total(side, {p \in Prices : AtLeastAsGood(p, b, s)})
             /\ \/ Cardinality(DOMAIN L) = Depth
                \/ Total(L, DOMAIN L) = Total(side, Prices)
<1> DEFINE H == Held(side)
           B == [p \in H |-> BucketOf(p, t, s)]
           all == Buckets(side, t, s)
           L == Levels(side, t, s)
<1>1. /\ H \in SUBSET Prices /\ IsFiniteSet(Prices) /\ Prices \in SUBSET Nat
      /\ \A p \in Prices : side[p] \in Nat /\ (p \notin H => side[p] = 0)
  BY DisplayAssumption, OrderBookAssumption DEF Held, Qtys
<1>2. IsFiniteSet(H)
  BY <1>1, FS_Subset
<1>3. all = {B[p] : p \in H} /\ \A p \in H : B[p] = BucketOf(p, t, s)
  BY DEF Buckets
<1>4. all \in SUBSET Nat
  BY <1>1, BucketKeepsOrder DEF Buckets
<1>5. IsFiniteSet(all)
  <2>1. B \in Surjection(H, all)
    BY <1>3 DEF Surjection
  <2> QED
    BY <1>2, <2>1, FS_Surjection
<1>6. /\ DOMAIN L = Best(all, s)
      /\ \A b \in Best(all, s) : L[b] = Total(side, {p \in H : B[p] = b})
  <2>1. L = [b \in Best(all, s) |-> InBucket(side, t, s, b)]
    BY Zenon DEF Levels, Best, UpTo
  <2>2. \A b : InBucket(side, t, s, b) = Total(side, {p \in H : BucketOf(p, t, s) = b})
    BY Zenon DEF InBucket, Total
  <2>3. \A b : {p \in H : B[p] = b} = {p \in H : BucketOf(p, t, s) = b}
    OBVIOUS
  <2> HIDE DEF L, H, B
  <2> QED
    BY <2>1, <2>2, <2>3, Zenon
<1>7. Best(all, s) \in SUBSET all
  BY DEF Best
<1> HIDE DEF H, B, all, L
<1>8. ASSUME NEW A \in SUBSET Best(all, s)
      PROVE  Total(L, A) = Total(side, {p \in H : B[p] \in A})
  <2>1. IsFiniteSet(A)
    BY <1>5, <1>7, FS_Subset
  <2>2. \A p \in H : side[p] \in Nat
    BY <1>1
  <2> DEFINE Of == [b \in A |-> {p \in H : B[p] = b}]
             U  == {p \in H : B[p] \in A}
  <2>3. /\ \A b \in A : Of[b] \in SUBSET H
        /\ \A b \in A : \A p \in H : p \in Of[b] <=> B[p] = b
    OBVIOUS
  <2>4. \A b \in A : Of[b] = {p \in H : B[p] = b}
    OBVIOUS
  <2>5. U \in SUBSET H /\ \A p \in H : p \in U <=> B[p] \in A
    OBVIOUS
  <2> HIDE DEF Of, U
  <2>6. \A b \in A : L[b] = Total(side, Of[b])
    BY <1>6, <2>4, Zenon
  <2>7. Total(L, A) = Total(side, U)
    <3> HIDE DEF Best
    <3> QED
      BY <1>2, <2>1, <2>2, <2>3, <2>5, <2>6, TotalOfTotals
  <2> QED
    BY <2>7 DEF U
<1>9. ASSUME NEW P \in SUBSET Prices PROVE Total(side, P) = Total(side, P \cap H)
  <2>1. IsFiniteSet(P \cap H) /\ IsFiniteSet(P \ H) /\ P = (P \cap H) \cup (P \ H)
    BY <1>1, FS_Subset
  <2>2. Total(side, P \ H) = 0
    BY <1>1, <2>1, TotalOfNothing
  <2>3. Total(side, P \cap H) \in Nat
    BY <1>1, <2>1, TotalTake
  <2>4. Total(side, (P \cap H) \cup (P \ H)) = Total(side, P \cap H) + Total(side, P \ H)
    <3>1. (P \cap H) \cap (P \ H) = {} /\ \A p \in (P \cap H) \cup (P \ H) : side[p] \in Nat
      BY <1>1
    <3> QED
      BY <2>1, <3>1, TotalUnion, Zenon
  <2> QED
    BY <2>1, <2>2, <2>3, <2>4
<1>10. ASSUME NEW b \in Best(all, s)
       PROVE  Total(L, {a \in Best(all, s) : AtLeastAsGood(a, b, s)})
                = Total(side, {p \in Prices : AtLeastAsGood(p, b, s)})
  <2>1. {a \in Best(all, s) : AtLeastAsGood(a, b, s)} = UpTo(all, b, s)
    <3>1. UpTo(Best(all, s), b, s) = UpTo(all, b, s)
      BY <1>4, <1>5, BestPrices
    <3> QED
      BY <3>1 DEF UpTo
  <2>2. PICK q \in H : b = BucketOf(q, t, s)
    BY <1>3, <1>7
  <2>3. \A p \in H : B[p] \in UpTo(all, b, s) <=> AtLeastAsGood(p, b, s)
    <3>1. \A p \in H : p \in Nat
      BY <1>1
    <3>2. \A p \in H : AtLeastAsGood(BucketOf(p, t, s), b, s) <=> AtLeastAsGood(p, b, s)
      BY <2>2, <3>1, BucketKeepsOrder
    <3> QED
      BY <1>3, <3>2 DEF UpTo
  <2>4. {p \in H : B[p] \in UpTo(all, b, s)} = {p \in Prices : AtLeastAsGood(p, b, s)} \cap H
    BY <1>1, <2>3
  <2>5. UpTo(all, b, s) \in SUBSET Best(all, s)
    BY <2>1
  <2>6. Total(L, UpTo(all, b, s)) = Total(side, {p \in H : B[p] \in UpTo(all, b, s)})
    BY <1>8, <2>5
  <2>7. Total(side, {p \in Prices : AtLeastAsGood(p, b, s)})
          = Total(side, {p \in Prices : AtLeastAsGood(p, b, s)} \cap H)
    BY <1>9
  <2> QED
    BY <2>1, <2>4, <2>6, <2>7, Zenon
<1>11. ASSUME Best(all, s) = all PROVE Total(L, Best(all, s)) = Total(side, Prices)
  <2>1. Total(L, Best(all, s)) = Total(side, {p \in H : B[p] \in Best(all, s)})
    BY <1>8
  <2>2. {p \in H : B[p] \in Best(all, s)} = Prices \cap H
    BY <1>1, <1>3, <1>11
  <2>3. Total(side, Prices) = Total(side, Prices \cap H)
    BY <1>9
  <2> QED
    BY <2>1, <2>2, <2>3, Zenon
<1>12. Cardinality(Best(all, s)) = Depth \/ Best(all, s) = all
  BY <1>4, <1>5, BestPrices
<1> QED
  BY <1>6, <1>10, <1>11, <1>12, Zenon DEF L

\* A view shows the levels of the server's book at the sequence number it names.
ViewIsOfTheLog ==
  /\ bucket \in Ticks
  /\ shown.seq \in Server
  /\ \E t \in Ticks : \A s \in Sides : shown.sides[s] = Levels(log[shown.seq][s], t, s)

\* Nothing is shown before the first delta, and the log begins with nothing.
LEMMA ViewInit == DisplayInit => Inv /\ ViewIsOfTheLog
<1> SUFFICES ASSUME DisplayInit PROVE Inv /\ ViewIsOfTheLog
  OBVIOUS
<1>1. Inv
  BY InitInv DEF DisplayInit
<1>2. /\ bucket \in Ticks /\ shown.seq = 0 /\ \A s \in Sides : shown.sides[s] = <<>>
      /\ Server = {0} /\ \A s \in Sides, p \in Prices : log[0][s][p] = 0
  BY DEF DisplayInit, Init, Server, Empty
<1>3. ASSUME NEW s \in Sides PROVE Levels(log[0][s], bucket, s) = <<>>
  <2> DEFINE L == Levels(log[0][s], bucket, s)
  <2>1. Buckets(log[0][s], bucket, s) = {}
    BY <1>2 DEF Buckets, Held
  <2>2. L = [b \in Best({}, s) |-> InBucket(log[0][s], bucket, s, b)]
    BY <2>1, Zenon DEF Levels, Best, UpTo
  <2>3. Best({}, s) = {}
    BY DEF Best
  <2> HIDE DEF L
  <2>4. L = [b \in {} |-> InBucket(log[0][s], bucket, s, b)]
    BY <2>2, <2>3, Zenon
  <2>5. \A f : f = [b \in {} |-> InBucket(log[0][s], bucket, s, b)] => f = <<>>
    OBVIOUS
  <2> QED
    BY <2>4, <2>5 DEF L
<1> QED
  BY <1>1, <1>2, <1>3 DEF ViewIsOfTheLog

\* A view that is emitted shows the book as it is after the step.
LEMMA EmitView ==
  ASSUME Inv', ViewIsOfTheLog, bucket' \in Ticks, Emit,
         Server \subseteq Server', \A n \in Server : log'[n] = log[n]
  PROVE  ViewIsOfTheLog'
<1>1. CASE UNCHANGED shown
  BY <1>1 DEF ViewIsOfTheLog
<1>2. CASE shown' = [seq |-> seq', sides |-> [s \in Sides |-> Levels(book'[s], bucket', s)]]
  <2>1. seq' \in Server' /\ book' = log'[seq']
    BY DEF Inv, TypeOK, BookIsTheServers
  <2>2. shown'.seq = seq' /\ \A s \in Sides : shown'.sides[s] = Levels(book'[s], bucket', s)
    BY <1>2, Zenon
  <2> QED
    BY <2>1, <2>2, Zenon DEF ViewIsOfTheLog
<1> QED
  BY <1>1, <1>2 DEF Emit

\* Every step keeps what the views show.
LEMMA ViewNext == Inv /\ ViewIsOfTheLog /\ [DisplayNext]_displayVars => Inv' /\ ViewIsOfTheLog'
<1> SUFFICES ASSUME Inv, ViewIsOfTheLog, [DisplayNext]_displayVars
             PROVE  Inv' /\ ViewIsOfTheLog'
  OBVIOUS
<1>1. [Next]_vars
  BY DEF DisplayNext, Published, Delivered, Snapshotted, SetBucket, displayVars, Next
<1>2. Inv'
  BY <1>1, NextInv
<1>3. Server \subseteq Server' /\ \A n \in Server : log'[n] = log[n]
  <2>1. CASE Publish
    BY <2>1 DEF Publish, Server
  <2>2. CASE UNCHANGED log
    BY <2>2 DEF Server
  <2>3. Publish \/ UNCHANGED log
    BY <1>1 DEF Next, Snapshot, Deliver, vars
  <2> QED
    BY <2>1, <2>2, <2>3
<1>4. ASSUME UNCHANGED <<shown, bucket>> PROVE ViewIsOfTheLog'
  BY <1>3, <1>4 DEF ViewIsOfTheLog
<1>5. CASE Published
  BY <1>2, <1>4, <1>5 DEF Published
<1>6. CASE Delivered
  <2>1. UNCHANGED shown \/ Emit
    BY <1>6 DEF Delivered
  <2>2. UNCHANGED bucket /\ bucket' \in Ticks
    BY <1>6 DEF Delivered, ViewIsOfTheLog
  <2> QED
    BY <1>2, <1>3, <1>4, <2>1, <2>2, EmitView
<1>7. CASE Snapshotted
  <2>1. Emit /\ bucket' \in Ticks
    BY <1>7 DEF Snapshotted, ViewIsOfTheLog
  <2> QED
    BY <1>2, <1>3, <2>1, EmitView
<1>8. CASE SetBucket
  <2>1. (UNCHANGED shown \/ Emit) /\ bucket' \in Ticks
    BY <1>8 DEF SetBucket
  <2>2. ASSUME UNCHANGED shown PROVE ViewIsOfTheLog'
    BY <1>3, <2>1, <2>2 DEF ViewIsOfTheLog
  <2> QED
    BY <1>2, <1>3, <2>1, <2>2, EmitView
<1>9. CASE UNCHANGED displayVars
  BY <1>2, <1>4, <1>9 DEF displayVars
<1> QED
  BY <1>2, <1>5, <1>6, <1>7, <1>8, <1>9 DEF DisplayNext

\* For any prices, quantities, bucket sizes and depth, every view can be traded
\* on: bucket_side and side_to_levels neither invent nor hide quantity.
THEOREM ViewTheorem == DisplaySpec => []ViewIsExecutable
<1>1. Inv /\ ViewIsOfTheLog => ViewIsExecutable
  <2> SUFFICES ASSUME Inv, ViewIsOfTheLog, NEW s \in Sides
               PROVE  LET offered == shown.sides[s]
                          real    == log[shown.seq][s]
                      IN  /\ \A b \in DOMAIN offered :
                               Total(offered, {a \in DOMAIN offered : AtLeastAsGood(a, b, s)})
                                 = Total(real, {p \in Prices : IF s = "bids" THEN p >= b ELSE p <= b})
                          /\ \/ Cardinality(DOMAIN offered) = Depth
                             \/ Total(offered, DOMAIN offered) = Total(real, Prices)
    BY Zenon DEF ViewIsExecutable
  <2> DEFINE real == log[shown.seq][s]
  <2>1. PICK t \in Ticks : shown.sides[s] = Levels(real, t, s)
    BY DEF ViewIsOfTheLog
  <2>2. t \in Nat
    BY DisplayAssumption
  <2>3. real \in [Prices -> Qtys]
    BY DEF Inv, TypeOK, ViewIsOfTheLog, Books
  <2>4. \A b : {p \in Prices : AtLeastAsGood(p, b, s)}
                 = {p \in Prices : IF s = "bids" THEN p >= b ELSE p <= b}
    BY Zenon DEF AtLeastAsGood
  <2> DEFINE L == Levels(real, t, s)
  <2> HIDE DEF real
  <2>5. /\ \A b \in DOMAIN L :
              Total(L, {a \in DOMAIN L : AtLeastAsGood(a, b, s)})
                = Total(real, {p \in Prices : AtLeastAsGood(p, b, s)})
        /\ \/ Cardinality(DOMAIN L) = Depth
           \/ Total(L, DOMAIN L) = Total(real, Prices)
    BY <2>2, <2>3, LevelsAreExecutable, Zenon
  <2>6. shown.sides[s] = L
    BY <2>1
  <2> HIDE DEF L
  <2> QED
    BY <2>4, <2>5, <2>6, Zenon DEF real
<1> QED
  BY <1>1, ViewInit, ViewNext, PTL DEF DisplaySpec
=============================================================================
