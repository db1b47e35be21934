----------------------------- MODULE OrderBook -----------------------------
(***************************************************************************)
(* The local order book and its sequence check: apply_delta and its        *)
(* helpers (src/orderbook/mod.rs), driven as handle_delta and              *)
(* apply_snapshot in src/services/market_data.rs drive it.                 *)
(*                                                                         *)
(* A side is a BTreeMap from price to quantity that never stores a zero;   *)
(* here it is the function that gives an absent price the quantity 0.  The *)
(* publication stream may lose, repeat, delay and reorder deltas, coalesce *)
(* several updates into one, send a reset, or corrupt a delta: any delta   *)
(* about the server's log may arrive at any moment.                        *)
(***************************************************************************)
EXTENDS Naturals

CONSTANTS
  Prices,  \* prices a level may have
  MaxQty,  \* largest quantity of a level
  Spare,   \* levels a delta may name although it did not change them
  TopSeq   \* u64::MAX; the server's log ends there

ASSUME OrderBookAssumption ==
  MaxQty \in Nat /\ TopSeq \in Nat /\ Spare \subseteq {"bids", "asks"} \X Prices

Sides == {"bids", "asks"}
Qtys == 0..MaxQty
Books == [Sides -> [Prices -> Qtys]]
Seqs == 0..TopSeq

Empty == [s \in Sides |-> [p \in Prices |-> 0]]

VARIABLES
  log,      \* the server's book after each of its updates
  book,     \* BookState::bids and BookState::asks
  seq,      \* BookState::book_seq
  wanted,   \* a refresh was requested and no snapshot came since
  seen      \* history: last update any delta since the snapshot told of

vars == <<log, book, seq, wanted, seen>>

Server == DOMAIN log

Init ==
  /\ log = [n \in {0} |-> Empty]
  /\ book = Empty /\ seq = 0 /\ wanted = FALSE /\ seen = 0

-----------------------------------------------------------------------------
(* Deltas, as the server makes them and as the network may garble them *)

\* The sequences a delta from `start` to `end` tells about, with the state
\* before the first of them.
Span(start, end) == {n \in Server : n <= end /\ n + 1 >= start}

\* The levels whose quantity differs anywhere in the span.
Touched(start, end) ==
  {l \in Sides \X Prices :
     \E m, n \in Span(start, end) : log[m][l[1]][l[2]] # log[n][l[1]][l[2]]}

\* A delta names absolute quantities at its end: of every level of the book if
\* it is a reset, else of every level its span touched; of others it may.
Deltas == [start : Seqs, end : Server, reset : BOOLEAN, corrupt : BOOLEAN,
           spare : SUBSET Spare]

Rows(d) ==
  d.spare \cup
    IF d.reset
    THEN {l \in Sides \X Prices : log[d.end][l[1]][l[2]] # 0}
    ELSE Touched(d.start, d.end)

-----------------------------------------------------------------------------
(* apply_side_delta and apply_delta *)

\* Each row replaces the quantity of its level; quantity 0 removes it.
ApplyRows(b, d) ==
  [s \in Sides |-> [p \in Prices |->
     IF <<s, p>> \in Rows(d) THEN log[d.end][s][p] ELSE b[s][p]]]

\* current_seq.saturating_add(1)
Successor(n) == IF n = TopSeq THEN TopSeq ELSE n + 1

\* The update is refused whole and the caller must refresh.
Refused(d) ==
  \/ d.corrupt
  \/ d.end < d.start
  \/ ~d.reset /\ d.start > Successor(seq)

\* Nothing new: an old delta, or a replacement state that is not newer.
MutantStale(d) == ~d.reset /\ d.end <= seq
Stale(d) == d.end <= seq

\* What the delta is applied to: a reset clears both sides first.
MutantBase(d) == book
Base(d) == IF d.reset THEN Empty ELSE book

MutantApplyDelta(d) ==
  \/ (Refused(d) \/ Stale(d)) /\ UNCHANGED <<book, seq, wanted>>
  \/ /\ ~Refused(d) /\ ~Stale(d)
     /\ book' = ApplyRows(Base(d), d) /\ seq' = d.end
     /\ UNCHANGED wanted
ApplyDelta(d) ==
  \/ Refused(d) /\ wanted' = TRUE /\ UNCHANGED <<book, seq>>
  \/ ~Refused(d) /\ Stale(d) /\ UNCHANGED <<book, seq, wanted>>
  \/ /\ ~Refused(d) /\ ~Stale(d)
     /\ book' = ApplyRows(Base(d), d)
     /\ seq' = d.end
     /\ UNCHANGED wanted

-----------------------------------------------------------------------------
(* Actions *)

\* The server changes any number of levels.
Publish ==
  \E b \in Books, n \in Seqs :
    /\ n \notin Server /\ \A m \in Seqs : m < n => m \in Server
    /\ log' = [m \in Server \cup {n} |-> IF m = n THEN b ELSE log[m]]
    /\ UNCHANGED <<book, seq, wanted, seen>>

\* handle_delta
Deliver(d) ==
  /\ ApplyDelta(d)
  /\ seen' = IF d.end > seen THEN d.end ELSE seen
  /\ UNCHANGED log

\* apply_snapshot: the state of any update of the log, a stale one included.
Snapshot ==
  \E n \in Server :
    /\ book' = log[n] /\ seq' = n
    /\ wanted' = FALSE /\ seen' = n
    /\ UNCHANGED log

Next == Publish \/ Snapshot \/ \E d \in Deltas : Deliver(d)

Spec == Init /\ [][Next]_vars

-----------------------------------------------------------------------------
(* Properties *)

\* The type invariant; the log has no holes.
TypeOK ==
  /\ Server \subseteq Seqs /\ 0 \in Server
  /\ \A n \in Server : \A m \in Seqs : m < n => m \in Server
  /\ log \in [Server -> Books]
  /\ book \in Books
  /\ seq \in Server /\ seen \in Server
  /\ wanted \in BOOLEAN

\* Whatever deltas arrive in whatever order, the book is exactly the server's
\* book at the sequence number the client claims for it.
BookIsTheServers == book = log[seq]

\* No update is skipped in silence: as long as apply_delta has not asked for a
\* refresh, the book is at or past everything that a delta told of.
NothingSkipped == wanted \/ seen <= seq

\* Only a snapshot may move the book back: a reset that was delayed behind a
\* newer snapshot does not rewind it.
NeverRewinds == [][Snapshot \/ seq <= seq']_vars
=============================================================================
