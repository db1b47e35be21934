------------------------ MODULE MarketOverviewProofs ------------------------
(***************************************************************************)
(* Proofs about MarketOverview: the rows converge, for any markets, limit, *)
(* sizes of the queues and number of losses, changes and calls.            *)
(*                                                                         *)
(* The argument follows what is still to be applied: the batches the pump  *)
(* holds, those the refresh holds, the buffer and the wire, in this order  *)
(* (Pending).  While the connection stands, what they tell of a market     *)
(* last is the market as it is (NewsFresh); so a row is the market as it   *)
(* is, or some pending batch names the market (RowsKnown), and an overview *)
(* that has caught up has nothing pending.  The control of the two tasks   *)
(* (GateHeld, Queues) is what makes the order of the four queues the order *)
(* in which they are applied: while the pump still holds a batch, the      *)
(* refresh that overtook it has none, nor has the buffer.                  *)
(***************************************************************************)
EXTENDS MarketOverview, SequenceTheorems, TLAPS

\* The tasks that apply and refresh.
Refreshers == {"run", "caller"}

\* What the connection tells of some markets.
Batch == UNION {[changed -> Nat] : changed \in SUBSET Markets}

\* The places of the tasks.
Labels == {"down", "start", "idle", "gate", "fetch", "take", "clear", "rows", "apply", "emit",
           "send", "full", "fail", "tell", "drain", "clearError", "pump", "failed", "slot",
           "stream", "done"}

DataTypes ==
  /\ now \in [Markets -> Nat] /\ rows \in [Markets -> Nat]
  /\ wire \in Seq(Batch) /\ buffer \in Seq(Batch)
  /\ batches \in [Tasks -> Seq(Batch)]
  /\ snapshot \in [Tasks -> [Markets -> Nat]]
  /\ gate \in {"free", "run", "caller"}
  /\ at \in [Tasks -> Labels] /\ then \in [Tasks -> Labels]

FlagTypes ==
  /\ up \in BOOLEAN /\ survivors \in BOOLEAN /\ buffering \in BOOLEAN
  /\ disposed \in BOOLEAN /\ streamError \in BOOLEAN
  /\ sender \in BOOLEAN /\ closed \in BOOLEAN /\ lastError \in {"none", "overflow"}
  /\ first \in BOOLEAN /\ starting \in BOOLEAN

CountTypes ==
  /\ queued \in 0..QueueSize /\ losses \in 0..MaxLosses
  /\ tries \in {0, 1} /\ calls \in 0..MaxCalls

TypeOK == DataTypes /\ FlagTypes /\ CountTypes

\* The places of a refresh that only its task is at; those of an update that is
\* shown, by a refresh or by the pump.
Refreshing == {"fetch", "take", "clear", "rows", "drain", "clearError"}
Showing == {"emit", "send", "full", "fail", "tell"}

\* Only who refreshes under the gate is at the places of a refresh, and shows
\* what it applied before it drains.
GateHeld ==
  /\ \A t \in Refreshers : at[t] \in Refreshing => gate = t
  /\ \A t \in Refreshers :
       gate = t => at[t] \in Refreshing \cup {"apply"} \/ (at[t] \in Showing /\ then[t] = "drain")
  /\ \A t \in Refreshers : at[t] \in Showing /\ then[t] = "drain" => gate = t
  /\ at["caller"] = "apply" => gate = "caller"
  /\ at["caller"] \in Showing => then["caller"] \in {"drain", "failed"}
  /\ at["run"] \in Showing => then["run"] \in {"drain", "pump", "done"}
  /\ at["caller"] \notin {"down", "pump"}

\* Before the first connection stands nothing was received, and start waits.
FirstRefreshToCome ==
  /\ at["run"] = "down" => ~up
  /\ first => /\ at["run"] \in {"down", "done"} /\ buffering /\ buffer = <<>>
              /\ at["caller"] \in {"start", "fail", "tell", "failed", "done"}
              /\ then["caller"] # "drain"

\* A batch that is held is about to be applied; nothing is buffered but for a
\* refresh; while the pump holds a batch, nothing newer waits but on the wire.
Queues ==
  /\ \A t \in Refreshers : batches[t] # <<>> => at[t] \in {"clear", "rows", "apply"}
  /\ ~disposed /\ ~buffering =>
       /\ buffer = <<>>
       /\ \A t \in Refreshers : gate = t => at[t] = "clearError"
  /\ ~disposed /\ gate # "run" /\ batches["run"] # <<>> =>
       buffer = <<>> /\ batches["caller"] = <<>>

\* Some batch of the sequence is about the market.
Names(s, m) == \E i \in 1..Len(s) : m \in DOMAIN s[i]

\* What the sequence tells of each market last is its row in n.
Fresh(n, s) ==
  \A i \in 1..Len(s) : \A m \in DOMAIN s[i] :
    s[i][m] = n[m] \/ \E j \in i + 1..Len(s) : m \in DOMAIN s[j]

\* What is still to be applied, in the order in which it will be.
Pending == batches["run"] \o (batches["caller"] \o (buffer \o wire))

\* A stream on a connection, without batches of an earlier one, whose run owes
\* it no refresh and does not end it.
Connected == up /\ ~disposed
Clean == Connected /\ ~survivors
Sound == Clean /\ at["run"] \notin {"gate", "fail"}

\* The wire tells the news of the connection; so does the buffer before it
\* unless it survived an earlier connection, and so do the batches held before
\* both unless a reconnect is still to be followed by its refresh.
NewsFresh ==
  /\ Connected => Fresh(now, wire) /\ (gate # "run" => Fresh(now, batches["run"] \o wire))
  /\ Clean => Fresh(now, buffer \o wire)
  /\ Sound => Fresh(now, Pending)

\* The row is the market as it is, or will be.
RowKnown(m) == rows[m] = now[m] \/ Names(Pending, m) \/ (m \notin Listed /\ rows[m] = 0)

\* No snapshot is still to replace the rows.
RowsInUse ==
  \/ gate = "free" /\ ~buffering
  \/ \E t \in Refreshers :
       gate = t /\ at[t] \in {"apply", "drain", "clearError"} \cup Showing

\* The rows are known, or those a snapshot leaves alone and the snapshot's with
\* what was buffered since.
RowsKnown ==
  /\ Sound /\ RowsInUse => \A m \in Markets : RowKnown(m)
  /\ \A t \in Refreshers :
       Sound /\ at[t] = "rows" => \A m \in Markets \ Listed : RowKnown(m)
  /\ \A t \in Refreshers :
       Sound /\ at[t] \in {"take", "clear", "rows"} =>
         \A m \in Markets :
           snapshot[t][m] = now[m] \/ Names(batches[t] \o (buffer \o wire), m)

IInv == DataTypes /\ GateHeld /\ FirstRefreshToCome /\ Queues /\ NewsFresh /\ RowsKnown

-----------------------------------------------------------------------------
(* Types and control *)

\* The rows after some changes, and the batch that tells of them.
LEMMA ChangedRows ==
  ASSUME NEW n \in [Markets -> Nat], NEW changed \in SUBSET Markets,
         NEW later, later = [m \in Markets |-> IF m \in changed THEN n[m] + 1 ELSE n[m]]
  PROVE  later \in [Markets -> Nat] /\ [m \in changed |-> later[m]] \in Batch
<1>1. later \in [Markets -> Nat]
  OBVIOUS
<1>2. [m \in changed |-> later[m]] \in [changed -> Nat]
  BY <1>1
<1> QED
  BY <1>1, <1>2 DEF Batch

\* What Publish does to the rows and to the wire.
LEMMA PublishStep ==
  ASSUME NEW changed \in SUBSET Markets, Publish(changed)
  PROVE  /\ now' = [m \in Markets |-> IF m \in changed THEN now[m] + 1 ELSE now[m]]
         /\ up => wire' = Append(wire, [m \in changed |-> now'[m]])
         /\ ~up => wire' = wire
         /\ UNCHANGED <<up, losses, survivors, rows, stream, out, at, then, locals, counts>>
BY Zenon DEF Publish

\* No batch at all is a sequence of batches.
LEMMA EmptyType == <<>> \in Seq(Batch)
BY EmptySeq

\* No rows at all are rows.
LEMMA AbsentType == Absent \in [Markets -> Nat]
BY DEF Absent

\* Merging a batch gives rows.
LEMMA MergeType ==
  ASSUME rows \in [Markets -> Nat], NEW batch \in Batch
  PROVE  Merge(batch) \in [Markets -> Nat]
<1>1. PICK changed \in SUBSET Markets : batch \in [changed -> Nat]
  BY DEF Batch
<1> QED
  BY <1>1 DEF Merge

\* What is published is a batch, and leaves rows.
LEMMA NewsIsBatch ==
  ASSUME DataTypes, NEW changed \in SUBSET Markets, Publish(changed)
  PROVE  now' \in [Markets -> Nat] /\ [m \in changed |-> now'[m]] \in Batch
<1>1. now' = [m \in Markets |-> IF m \in changed THEN now[m] + 1 ELSE now[m]]
  BY PublishStep, Zenon
<1>2. now \in [Markets -> Nat]
  BY DEF DataTypes
<1>3. \A later : later = [m \in Markets |-> IF m \in changed THEN now[m] + 1 ELSE now[m]] =>
        later \in [Markets -> Nat] /\ [m \in changed |-> later[m]] \in Batch
  BY <1>2, ChangedRows
<1> QED
  BY <1>1, <1>3, Zenon

\* A change keeps the types.
LEMMA PublishTypes ==
  ASSUME DataTypes, NEW changed \in SUBSET Markets, Publish(changed)
  PROVE  DataTypes'
<1>1. (up => wire' = Append(wire, [m \in changed |-> now'[m]])) /\ (~up => wire' = wire)
  BY PublishStep, Zenon
<1>2. wire \in Seq(Batch)
  BY DEF DataTypes
<1>3. now' \in [Markets -> Nat] /\ [m \in changed |-> now'[m]] \in Batch
  BY NewsIsBatch
<1>4. Append(wire, [m \in changed |-> now'[m]]) \in Seq(Batch)
  BY <1>2, <1>3, AppendProperties, Zenon
<1>5. wire' \in Seq(Batch)
  BY <1>1, <1>2, <1>4, Zenon
<1> QED
  BY <1>3, <1>5, PublishStep, Zenon DEF DataTypes, stream, out, locals

\* Every step keeps the types of rows, queues and places.
LEMMA DataNext ==
  ASSUME DataTypes, [Next]_vars
  PROVE  DataTypes'
<1> USE OverviewAssumption
    DEF DataTypes, Tasks, Refreshers, Labels, link, stream, out, locals, counts
<1>1. ASSUME NEW t \in Refreshers, Clear(t) PROVE DataTypes'
  BY <1>1, AbsentType DEF Clear, Goto
<1>2. ASSUME NEW t \in Refreshers, ApplySnapshot(t) PROVE DataTypes'
  <2>1. [m \in Listed |-> snapshot[t][m]] \in Batch
    BY SMT DEF Batch
  <2>2. rows' \in [Markets -> Nat]
    BY <1>2, <2>1, MergeType DEF ApplySnapshot
  <2>3. snapshot' \in [Tasks -> [Markets -> Nat]]
    BY <1>2, AbsentType, Zenon DEF ApplySnapshot
  <2> QED
    BY <1>2, <2>2, <2>3 DEF ApplySnapshot, Goto
<1>3. ASSUME NEW t \in Refreshers, ApplyBatch(t) PROVE DataTypes'
  <2>1. batches[t] \in Seq(Batch)
    OBVIOUS
  <2>2. Head(batches[t]) \in Batch /\ Tail(batches[t]) \in Seq(Batch)
    BY <1>3, <2>1, HeadTailProperties DEF ApplyBatch
  <2>3. rows' \in [Markets -> Nat]
    BY <1>3, <2>2, MergeType DEF ApplyBatch
  <2>4. batches' \in [Tasks -> Seq(Batch)]
    BY <1>3, <2>2, Zenon DEF ApplyBatch
  <2> QED
    BY <1>3, <2>3, <2>4 DEF ApplyBatch
<1>4. ASSUME NEW t \in Refreshers, Applied(t) PROVE DataTypes'
  BY <1>4 DEF Applied, Goto, Show
<1>5. ASSUME NEW t \in Refreshers, Clone(t) PROVE DataTypes'
  BY <1>5 DEF Clone, Goto, Resume
<1>6. ASSUME NEW t \in Refreshers, Send(t) PROVE DataTypes'
  BY <1>6 DEF Send, Goto, Resume
<1>7. ASSUME NEW t \in Refreshers, Full(t) PROVE DataTypes'
  BY <1>7 DEF Full, Goto
<1>8. ASSUME NEW t \in Refreshers, Fail(t) PROVE DataTypes'
  BY <1>8 DEF Fail, Goto, Dispose
<1>9. ASSUME NEW t \in Refreshers, Tell(t) PROVE DataTypes'
  BY <1>9 DEF Tell, Goto, Resume
<1>10. ASSUME NEW t \in Refreshers, Begin(t) PROVE DataTypes'
  BY <1>10 DEF Begin, Return, Goto
<1>11. ASSUME NEW t \in Refreshers, FetchAnswered(t) PROVE DataTypes'
  BY <1>11 DEF FetchAnswered, Goto
<1>12. ASSUME NEW t \in Refreshers, FetchFails(t) PROVE DataTypes'
  BY <1>12 DEF FetchFails, Return, Goto
<1>13. ASSUME NEW t \in Refreshers, FetchStopped(t) PROVE DataTypes'
  BY <1>13 DEF FetchStopped, Return, Goto
<1>14. ASSUME NEW t \in Refreshers, TakeBuffered(t) PROVE DataTypes'
  <2>1. batches' \in [Tasks -> Seq(Batch)] /\ buffer' \in Seq(Batch)
    BY <1>14, EmptyType, Zenon DEF TakeBuffered
  <2>2. snapshot' \in [Tasks -> [Markets -> Nat]]
    BY <1>14, AbsentType, Zenon DEF TakeBuffered
  <2>3. /\ at' \in [Tasks -> Labels] /\ then' \in [Tasks -> Labels]
        /\ gate' \in {"free", "run", "caller"}
    BY <1>14 DEF TakeBuffered, Return, Goto
  <2> QED
    BY <1>14, <2>1, <2>2, <2>3, Zenon DEF TakeBuffered
<1>15. ASSUME NEW t \in Refreshers, DrainOrReady(t) PROVE DataTypes'
  <2>1. batches' \in [Tasks -> Seq(Batch)] /\ buffer' \in Seq(Batch)
    BY <1>15, EmptyType, Zenon DEF DrainOrReady
  <2>2. /\ at' \in [Tasks -> Labels] /\ then' \in [Tasks -> Labels]
        /\ gate' \in {"free", "run", "caller"}
    BY <1>15 DEF DrainOrReady, Return, Goto
  <2> QED
    BY <1>15, <2>1, <2>2, Zenon DEF DrainOrReady
<1>16. ASSUME NEW t \in Refreshers, ClearError(t) PROVE DataTypes'
  BY <1>16 DEF ClearError, Return, Goto
<1>17. CASE CloseSlot
  BY <1>17 DEF CloseSlot, Goto
<1>18. CASE CloseStream
  BY <1>18, EmptyType DEF CloseStream, Goto, Dispose
<1>19. CASE StartFailed
  BY <1>19, EmptyType DEF StartFailed, Goto, Dispose
<1>20. CASE Handle
  <2>1. Head(wire) \in Batch /\ Tail(wire) \in Seq(Batch)
    BY <1>20, HeadTailProperties DEF Handle
  <2>2. <<Head(wire)>> \in Seq(Batch) /\ Append(buffer, Head(wire)) \in Seq(Batch)
    BY <2>1
  <2>3. batches' \in [Tasks -> Seq(Batch)]
    BY <1>20, <2>2, Zenon DEF Handle
  <2>4. buffer' \in Seq(Batch) /\ wire' \in Seq(Batch)
    BY <1>20, <2>1, <2>2, EmptyType, Zenon DEF Handle
  <2>5. at' \in [Tasks -> Labels] /\ then' \in [Tasks -> Labels]
    BY <1>20 DEF Handle, Goto
  <2> QED
    BY <1>20, <2>3, <2>4, <2>5, Zenon DEF Handle
<1>21. CASE RunStops
  BY <1>21 DEF RunStops, Goto
<1>22. CASE Connect
  BY <1>22 DEF Connect, Goto
<1>23. CASE LossSeen
  BY <1>23 DEF LossSeen, Goto
<1>24. CASE ChannelEnded
  BY <1>24 DEF ChannelEnded, Goto
<1>25. CASE Start
  BY <1>25 DEF Start, Goto
<1>26. CASE Refused
  BY <1>26 DEF Refused, Goto
<1>27. CASE StartTimedOut
  BY <1>27 DEF StartTimedOut, Goto
<1>28. CASE Call
  BY <1>28 DEF Call, Goto
<1>29. CASE Cancel
  BY <1>29 DEF Cancel, Goto
<1>30. CASE Close
  BY <1>30 DEF Close, Goto
<1>31. CASE Receive
  BY <1>31 DEF Receive
<1>32. ASSUME NEW changed \in SUBSET Markets, Publish(changed) PROVE DataTypes'
  BY <1>32, PublishTypes
<1>33. CASE ConnectionLost
  BY <1>33 DEF ConnectionLost
<1>34. CASE UNCHANGED vars
  BY <1>34 DEF vars, link, stream, out, locals, counts
<1> QED
  BY <1>1, <1>2, <1>3, <1>4, <1>5, <1>6, <1>7, <1>8, <1>9, <1>10, <1>11, <1>12, <1>13,
     <1>14, <1>15, <1>16, <1>17, <1>18, <1>19, <1>20, <1>21, <1>22, <1>23, <1>24, <1>25,
     <1>26, <1>27, <1>28, <1>29, <1>30, <1>31, <1>32, <1>33, <1>34
     DEF Next, Applies, Emits, Refreshes, FetchEnds, Closes, Pumps, Refreshers

\* Every step keeps the flags and what they may be.
LEMMA FlagNext ==
  ASSUME FlagTypes, [Next]_vars
  PROVE  FlagTypes'
<1> USE DEF FlagTypes, Refreshers, link, stream, out, locals, counts
<1>1. ASSUME NEW t \in Refreshers, Clear(t) PROVE FlagTypes'
  BY <1>1, Zenon DEF Clear, Goto
<1>2. ASSUME NEW t \in Refreshers, ApplySnapshot(t) PROVE FlagTypes'
  BY <1>2, Zenon DEF ApplySnapshot, Goto, Merge
<1>3. ASSUME NEW t \in Refreshers, ApplyBatch(t) PROVE FlagTypes'
  BY <1>3, Zenon DEF ApplyBatch, Merge
<1>4. ASSUME NEW t \in Refreshers, Applied(t) PROVE FlagTypes'
  BY <1>4, Zenon DEF Applied, Goto, Show
<1>5. ASSUME NEW t \in Refreshers, Clone(t) PROVE FlagTypes'
  BY <1>5, Zenon DEF Clone, Goto, Resume
<1>6. ASSUME NEW t \in Refreshers, Send(t) PROVE FlagTypes'
  BY <1>6, Zenon DEF Send, Goto, Resume
<1>7. ASSUME NEW t \in Refreshers, Full(t) PROVE FlagTypes'
  BY <1>7, Zenon DEF Full, Goto
<1>8. ASSUME NEW t \in Refreshers, Fail(t) PROVE FlagTypes'
  BY <1>8, Zenon DEF Fail, Goto, Dispose
<1>9. ASSUME NEW t \in Refreshers, Tell(t) PROVE FlagTypes'
  BY <1>9, Zenon DEF Tell, Goto, Resume
<1>10. ASSUME NEW t \in Refreshers, Begin(t) PROVE FlagTypes'
  BY <1>10, Zenon DEF Begin, Return, Goto
<1>11. ASSUME NEW t \in Refreshers, FetchAnswered(t) PROVE FlagTypes'
  BY <1>11, Zenon DEF FetchAnswered, Goto
<1>12. ASSUME NEW t \in Refreshers, FetchFails(t) PROVE FlagTypes'
  BY <1>12, Zenon DEF FetchFails, Return, Goto
<1>13. ASSUME NEW t \in Refreshers, FetchStopped(t) PROVE FlagTypes'
  BY <1>13, Zenon DEF FetchStopped, Return, Goto
<1>14. ASSUME NEW t \in Refreshers, TakeBuffered(t) PROVE FlagTypes'
  BY <1>14, Zenon DEF TakeBuffered, Return, Goto
<1>15. ASSUME NEW t \in Refreshers, DrainOrReady(t) PROVE FlagTypes'
  BY <1>15, Zenon DEF DrainOrReady, Return, Goto, Drained
<1>16. ASSUME NEW t \in Refreshers, ClearError(t) PROVE FlagTypes'
  BY <1>16, Zenon DEF ClearError, Return, Goto
<1>17. CASE CloseSlot
  BY <1>17, Zenon DEF CloseSlot, Goto
<1>18. CASE CloseStream
  BY <1>18, Zenon DEF CloseStream, Goto, Dispose
<1>19. CASE StartFailed
  BY <1>19, Zenon DEF StartFailed, Goto, Dispose
<1>20. CASE Handle
  BY <1>20, Zenon DEF Handle, Goto
<1>21. CASE RunStops
  BY <1>21, Zenon DEF RunStops, Goto
<1>22. CASE Connect
  BY <1>22, Zenon DEF Connect, Goto
<1>23. CASE LossSeen
  BY <1>23, Zenon DEF LossSeen, Goto
<1>24. CASE ChannelEnded
  BY <1>24, Zenon DEF ChannelEnded, Goto
<1>25. CASE Start
  BY <1>25, Zenon DEF Start, Goto
<1>26. CASE Refused
  BY <1>26, Zenon DEF Refused, Goto
<1>27. CASE StartTimedOut
  BY <1>27, Zenon DEF StartTimedOut, Goto
<1>28. CASE Call
  BY <1>28, Zenon DEF Call, Goto
<1>29. CASE Cancel
  BY <1>29, Zenon DEF Cancel, Goto
<1>30. CASE Close
  BY <1>30, Zenon DEF Close, Goto
<1>31. CASE Receive
  BY <1>31, Zenon DEF Receive
<1>32. ASSUME NEW changed \in SUBSET Markets, Publish(changed) PROVE FlagTypes'
  BY <1>32, Zenon DEF Publish
<1>33. CASE ConnectionLost
  BY <1>33, Zenon DEF ConnectionLost
<1>34. CASE UNCHANGED vars
  BY <1>34, Zenon DEF vars, link, stream, out, locals, counts
<1> QED
  BY <1>1, <1>2, <1>3, <1>4, <1>5, <1>6, <1>7, <1>8, <1>9, <1>10, <1>11, <1>12, <1>13,
     <1>14, <1>15, <1>16, <1>17, <1>18, <1>19, <1>20, <1>21, <1>22, <1>23, <1>24, <1>25,
     <1>26, <1>27, <1>28, <1>29, <1>30, <1>31, <1>32, <1>33, <1>34
     DEF Next, Applies, Emits, Refreshes, FetchEnds, Closes, Pumps, Refreshers

\* Every step keeps the counters within their bounds.
LEMMA CountNext ==
  ASSUME CountTypes, [Next]_vars
  PROVE  CountTypes'
<1> USE OverviewAssumption DEF CountTypes, Refreshers, link, stream, out, locals, counts
<1>1. ASSUME NEW t \in Refreshers, Clear(t) PROVE CountTypes'
  BY <1>1, SMT DEF Clear, Goto
<1>2. ASSUME NEW t \in Refreshers, ApplySnapshot(t) PROVE CountTypes'
  BY <1>2, SMT DEF ApplySnapshot, Goto, Merge
<1>3. ASSUME NEW t \in Refreshers, ApplyBatch(t) PROVE CountTypes'
  BY <1>3, SMT DEF ApplyBatch, Merge
<1>4. ASSUME NEW t \in Refreshers, Applied(t) PROVE CountTypes'
  BY <1>4, SMT DEF Applied, Goto, Show
<1>5. ASSUME NEW t \in Refreshers, Clone(t) PROVE CountTypes'
  BY <1>5, SMT DEF Clone, Goto, Resume
<1>6. ASSUME NEW t \in Refreshers, Send(t) PROVE CountTypes'
  BY <1>6, SMT DEF Send, Goto, Resume
<1>7. ASSUME NEW t \in Refreshers, Full(t) PROVE CountTypes'
  BY <1>7, SMT DEF Full, Goto
<1>8. ASSUME NEW t \in Refreshers, Fail(t) PROVE CountTypes'
  BY <1>8, SMT DEF Fail, Goto, Dispose
<1>9. ASSUME NEW t \in Refreshers, Tell(t) PROVE CountTypes'
  BY <1>9, SMT DEF Tell, Goto, Resume
<1>10. ASSUME NEW t \in Refreshers, Begin(t) PROVE CountTypes'
  BY <1>10, SMT DEF Begin, Return, Goto
<1>11. ASSUME NEW t \in Refreshers, FetchAnswered(t) PROVE CountTypes'
  BY <1>11, SMT DEF FetchAnswered, Goto
<1>12. ASSUME NEW t \in Refreshers, FetchFails(t) PROVE CountTypes'
  BY <1>12, SMT DEF FetchFails, Return, Goto
<1>13. ASSUME NEW t \in Refreshers, FetchStopped(t) PROVE CountTypes'
  BY <1>13, SMT DEF FetchStopped, Return, Goto
<1>14. ASSUME NEW t \in Refreshers, TakeBuffered(t) PROVE CountTypes'
  BY <1>14, SMT DEF TakeBuffered, Return, Goto
<1>15. ASSUME NEW t \in Refreshers, DrainOrReady(t) PROVE CountTypes'
  BY <1>15, SMT DEF DrainOrReady, Return, Goto, Drained
<1>16. ASSUME NEW t \in Refreshers, ClearError(t) PROVE CountTypes'
  BY <1>16, SMT DEF ClearError, Return, Goto
<1>17. CASE CloseSlot
  BY <1>17, SMT DEF CloseSlot, Goto
<1>18. CASE CloseStream
  BY <1>18, SMT DEF CloseStream, Goto, Dispose
<1>19. CASE StartFailed
  BY <1>19, SMT DEF StartFailed, Goto, Dispose
<1>20. CASE Handle
  BY <1>20, SMT DEF Handle, Goto
<1>21. CASE RunStops
  BY <1>21, SMT DEF RunStops, Goto
<1>22. CASE Connect
  BY <1>22, SMT DEF Connect, Goto
<1>23. CASE LossSeen
  BY <1>23, SMT DEF LossSeen, Goto
<1>24. CASE ChannelEnded
  BY <1>24, SMT DEF ChannelEnded, Goto
<1>25. CASE Start
  BY <1>25, SMT DEF Start, Goto
<1>26. CASE Refused
  BY <1>26, SMT DEF Refused, Goto
<1>27. CASE StartTimedOut
  BY <1>27, SMT DEF StartTimedOut, Goto
<1>28. CASE Call
  BY <1>28, SMT DEF Call, Goto
<1>29. CASE Cancel
  BY <1>29, SMT DEF Cancel, Goto
<1>30. CASE Close
  BY <1>30, SMT DEF Close, Goto
<1>31. CASE Receive
  BY <1>31, SMT DEF Receive
<1>32. ASSUME NEW changed \in SUBSET Markets, Publish(changed) PROVE CountTypes'
  BY <1>32 DEF Publish
<1>33. CASE ConnectionLost
  BY <1>33, SMT DEF ConnectionLost
<1>34. CASE UNCHANGED vars
  BY <1>34, SMT DEF vars, link, stream, out, locals, counts
<1> QED
  BY <1>1, <1>2, <1>3, <1>4, <1>5, <1>6, <1>7, <1>8, <1>9, <1>10, <1>11, <1>12, <1>13,
     <1>14, <1>15, <1>16, <1>17, <1>18, <1>19, <1>20, <1>21, <1>22, <1>23, <1>24, <1>25,
     <1>26, <1>27, <1>28, <1>29, <1>30, <1>31, <1>32, <1>33, <1>34
     DEF Next, Applies, Emits, Refreshes, FetchEnds, Closes, Pumps, Refreshers

\* The gate excludes: every step leaves a refresh to its holder.
LEMMA GateNext ==
  ASSUME DataTypes, GateHeld, FirstRefreshToCome, [Next]_vars
  PROVE  GateHeld'
<1> USE DEF DataTypes, GateHeld, FirstRefreshToCome, Tasks, Refreshers,
            Refreshing, Showing, link, stream, out, locals, counts
<1>1. ASSUME NEW t \in Refreshers, Clear(t) PROVE GateHeld'
  BY <1>1 DEF Clear, Goto
<1>2. ASSUME NEW t \in Refreshers, ApplySnapshot(t) PROVE GateHeld'
  BY <1>2 DEF ApplySnapshot, Goto, Merge
<1>3. ASSUME NEW t \in Refreshers, ApplyBatch(t) PROVE GateHeld'
  BY <1>3 DEF ApplyBatch, Merge
<1>4. ASSUME NEW t \in Refreshers, Applied(t) PROVE GateHeld'
  BY <1>4 DEF Applied, Goto, Show
<1>5. ASSUME NEW t \in Refreshers, Clone(t) PROVE GateHeld'
  BY <1>5 DEF Clone, Goto, Resume
<1>6. ASSUME NEW t \in Refreshers, Send(t) PROVE GateHeld'
  BY <1>6 DEF Send, Goto, Resume
<1>7. ASSUME NEW t \in Refreshers, Full(t) PROVE GateHeld'
  BY <1>7 DEF Full, Goto
<1>8. ASSUME NEW t \in Refreshers, Fail(t) PROVE GateHeld'
  BY <1>8 DEF Fail, Goto, Dispose
<1>9. ASSUME NEW t \in Refreshers, Tell(t) PROVE GateHeld'
  BY <1>9 DEF Tell, Goto, Resume
<1>10. ASSUME NEW t \in Refreshers, Begin(t) PROVE GateHeld'
  BY <1>10 DEF Begin, Return, Goto
<1>11. ASSUME NEW t \in Refreshers, FetchAnswered(t) PROVE GateHeld'
  BY <1>11 DEF FetchAnswered, Goto
<1>12. ASSUME NEW t \in Refreshers, FetchFails(t) PROVE GateHeld'
  BY <1>12 DEF FetchFails, Return, Goto
<1>13. ASSUME NEW t \in Refreshers, FetchStopped(t) PROVE GateHeld'
  BY <1>13 DEF FetchStopped, Return, Goto
<1>14. ASSUME NEW t \in Refreshers, TakeBuffered(t) PROVE GateHeld'
  BY <1>14 DEF TakeBuffered, Return, Goto
<1>15. ASSUME NEW t \in Refreshers, DrainOrReady(t) PROVE GateHeld'
  BY <1>15 DEF DrainOrReady, Return, Goto, Drained
<1>16. ASSUME NEW t \in Refreshers, ClearError(t) PROVE GateHeld'
  BY <1>16 DEF ClearError, Return, Goto
<1>17. CASE CloseSlot
  BY <1>17 DEF CloseSlot, Goto
<1>18. CASE CloseStream
  BY <1>18 DEF CloseStream, Goto, Dispose
<1>19. CASE StartFailed
  BY <1>19 DEF StartFailed, Goto, Dispose
<1>20. CASE Handle
  BY <1>20 DEF Handle, Goto
<1>21. CASE RunStops
  BY <1>21 DEF RunStops, Goto
<1>22. CASE Connect
  BY <1>22 DEF Connect, Goto
<1>23. CASE LossSeen
  BY <1>23 DEF LossSeen, Goto
<1>24. CASE ChannelEnded
  BY <1>24 DEF ChannelEnded, Goto
<1>25. CASE Start
  BY <1>25 DEF Start, Goto
<1>26. CASE Refused
  BY <1>26 DEF Refused, Goto
<1>27. CASE StartTimedOut
  BY <1>27 DEF StartTimedOut, Goto
<1>28. CASE Call
  BY <1>28 DEF Call, Goto
<1>29. CASE Cancel
  BY <1>29 DEF Cancel, Goto
<1>30. CASE Close
  BY <1>30 DEF Close, Goto
<1>31. CASE Receive
  BY <1>31 DEF Receive
<1>32. ASSUME NEW changed \in SUBSET Markets, Publish(changed) PROVE GateHeld'
  BY <1>32 DEF Publish
<1>33. CASE ConnectionLost
  BY <1>33 DEF ConnectionLost
<1>34. CASE UNCHANGED vars
  BY <1>34 DEF vars, link, stream, out, locals, counts
<1> QED
  BY <1>1, <1>2, <1>3, <1>4, <1>5, <1>6, <1>7, <1>8, <1>9, <1>10, <1>11, <1>12, <1>13,
     <1>14, <1>15, <1>16, <1>17, <1>18, <1>19, <1>20, <1>21, <1>22, <1>23, <1>24, <1>25,
     <1>26, <1>27, <1>28, <1>29, <1>30, <1>31, <1>32, <1>33, <1>34
     DEF Next, Applies, Emits, Refreshes, FetchEnds, Closes, Pumps, Refreshers

\* Every step leaves the first refresh to start.
LEMMA FirstNext ==
  ASSUME DataTypes, GateHeld, FirstRefreshToCome, [Next]_vars
  PROVE  FirstRefreshToCome'
<1> USE DEF DataTypes, GateHeld, FirstRefreshToCome, Tasks, Refreshers,
            Refreshing, Showing, link, stream, out, locals, counts
<1>1. ASSUME NEW t \in Refreshers, Clear(t) PROVE FirstRefreshToCome'
  BY <1>1 DEF Clear, Goto
<1>2. ASSUME NEW t \in Refreshers, ApplySnapshot(t) PROVE FirstRefreshToCome'
  BY <1>2 DEF ApplySnapshot, Goto, Merge
<1>3. ASSUME NEW t \in Refreshers, ApplyBatch(t) PROVE FirstRefreshToCome'
  BY <1>3 DEF ApplyBatch, Merge
<1>4. ASSUME NEW t \in Refreshers, Applied(t) PROVE FirstRefreshToCome'
  BY <1>4 DEF Applied, Goto, Show
<1>5. ASSUME NEW t \in Refreshers, Clone(t) PROVE FirstRefreshToCome'
  BY <1>5 DEF Clone, Goto, Resume
<1>6. ASSUME NEW t \in Refreshers, Send(t) PROVE FirstRefreshToCome'
  BY <1>6 DEF Send, Goto, Resume
<1>7. ASSUME NEW t \in Refreshers, Full(t) PROVE FirstRefreshToCome'
  BY <1>7 DEF Full, Goto
<1>8. ASSUME NEW t \in Refreshers, Fail(t) PROVE FirstRefreshToCome'
  BY <1>8 DEF Fail, Goto, Dispose
<1>9. ASSUME NEW t \in Refreshers, Tell(t) PROVE FirstRefreshToCome'
  BY <1>9 DEF Tell, Goto, Resume
<1>10. ASSUME NEW t \in Refreshers, Begin(t) PROVE FirstRefreshToCome'
  BY <1>10 DEF Begin, Return, Goto
<1>11. ASSUME NEW t \in Refreshers, FetchAnswered(t) PROVE FirstRefreshToCome'
  BY <1>11 DEF FetchAnswered, Goto
<1>12. ASSUME NEW t \in Refreshers, FetchFails(t) PROVE FirstRefreshToCome'
  BY <1>12 DEF FetchFails, Return, Goto
<1>13. ASSUME NEW t \in Refreshers, FetchStopped(t) PROVE FirstRefreshToCome'
  BY <1>13 DEF FetchStopped, Return, Goto
<1>14. ASSUME NEW t \in Refreshers, TakeBuffered(t) PROVE FirstRefreshToCome'
  BY <1>14 DEF TakeBuffered, Return, Goto
<1>15. ASSUME NEW t \in Refreshers, DrainOrReady(t) PROVE FirstRefreshToCome'
  BY <1>15 DEF DrainOrReady, Return, Goto, Drained
<1>16. ASSUME NEW t \in Refreshers, ClearError(t) PROVE FirstRefreshToCome'
  BY <1>16 DEF ClearError, Return, Goto
<1>17. CASE CloseSlot
  BY <1>17 DEF CloseSlot, Goto
<1>18. CASE CloseStream
  BY <1>18 DEF CloseStream, Goto, Dispose
<1>19. CASE StartFailed
  BY <1>19 DEF StartFailed, Goto, Dispose
<1>20. CASE Handle
  BY <1>20 DEF Handle, Goto
<1>21. CASE RunStops
  BY <1>21 DEF RunStops, Goto
<1>22. CASE Connect
  BY <1>22 DEF Connect, Goto
<1>23. CASE LossSeen
  BY <1>23 DEF LossSeen, Goto
<1>24. CASE ChannelEnded
  BY <1>24 DEF ChannelEnded, Goto
<1>25. CASE Start
  BY <1>25 DEF Start, Goto
<1>26. CASE Refused
  BY <1>26 DEF Refused, Goto
<1>27. CASE StartTimedOut
  BY <1>27 DEF StartTimedOut, Goto
<1>28. CASE Call
  BY <1>28 DEF Call, Goto
<1>29. CASE Cancel
  BY <1>29 DEF Cancel, Goto
<1>30. CASE Close
  BY <1>30 DEF Close, Goto
<1>31. CASE Receive
  BY <1>31 DEF Receive
<1>32. ASSUME NEW changed \in SUBSET Markets, Publish(changed) PROVE FirstRefreshToCome'
  BY <1>32 DEF Publish
<1>33. CASE ConnectionLost
  BY <1>33 DEF ConnectionLost
<1>34. CASE UNCHANGED vars
  BY <1>34 DEF vars, link, stream, out, locals, counts
<1> QED
  BY <1>1, <1>2, <1>3, <1>4, <1>5, <1>6, <1>7, <1>8, <1>9, <1>10, <1>11, <1>12, <1>13,
     <1>14, <1>15, <1>16, <1>17, <1>18, <1>19, <1>20, <1>21, <1>22, <1>23, <1>24, <1>25,
     <1>26, <1>27, <1>28, <1>29, <1>30, <1>31, <1>32, <1>33, <1>34
     DEF Next, Applies, Emits, Refreshes, FetchEnds, Closes, Pumps, Refreshers

\* Every step keeps the queues apart.
LEMMA QueuesNext ==
  ASSUME DataTypes, GateHeld, FirstRefreshToCome, Queues, [Next]_vars
  PROVE  Queues'
<1> USE DEF DataTypes, GateHeld, FirstRefreshToCome, Queues, Tasks, Refreshers,
            Refreshing, Showing, link, stream, out, locals, counts
<1>1. ASSUME NEW t \in Refreshers, Clear(t) PROVE Queues'
  BY <1>1 DEF Clear, Goto
<1>2. ASSUME NEW t \in Refreshers, ApplySnapshot(t) PROVE Queues'
  BY <1>2 DEF ApplySnapshot, Goto, Merge
<1>3. ASSUME NEW t \in Refreshers, ApplyBatch(t) PROVE Queues'
  BY <1>3 DEF ApplyBatch, Merge
<1>4. ASSUME NEW t \in Refreshers, Applied(t) PROVE Queues'
  BY <1>4 DEF Applied, Goto, Show
<1>5. ASSUME NEW t \in Refreshers, Clone(t) PROVE Queues'
  BY <1>5 DEF Clone, Goto, Resume
<1>6. ASSUME NEW t \in Refreshers, Send(t) PROVE Queues'
  BY <1>6 DEF Send, Goto, Resume
<1>7. ASSUME NEW t \in Refreshers, Full(t) PROVE Queues'
  BY <1>7 DEF Full, Goto
<1>8. ASSUME NEW t \in Refreshers, Fail(t) PROVE Queues'
  BY <1>8 DEF Fail, Goto, Dispose
<1>9. ASSUME NEW t \in Refreshers, Tell(t) PROVE Queues'
  BY <1>9 DEF Tell, Goto, Resume
<1>10. ASSUME NEW t \in Refreshers, Begin(t) PROVE Queues'
  BY <1>10 DEF Begin, Return, Goto
<1>11. ASSUME NEW t \in Refreshers, FetchAnswered(t) PROVE Queues'
  BY <1>11 DEF FetchAnswered, Goto
<1>12. ASSUME NEW t \in Refreshers, FetchFails(t) PROVE Queues'
  BY <1>12 DEF FetchFails, Return, Goto
<1>13. ASSUME NEW t \in Refreshers, FetchStopped(t) PROVE Queues'
  BY <1>13 DEF FetchStopped, Return, Goto
<1>14. ASSUME NEW t \in Refreshers, TakeBuffered(t) PROVE Queues'
  BY <1>14 DEF TakeBuffered, Return, Goto
<1>15. ASSUME NEW t \in Refreshers, DrainOrReady(t) PROVE Queues'
  BY <1>15 DEF DrainOrReady, Return, Goto, Drained
<1>16. ASSUME NEW t \in Refreshers, ClearError(t) PROVE Queues'
  BY <1>16 DEF ClearError, Return, Goto
<1>17. CASE CloseSlot
  BY <1>17 DEF CloseSlot, Goto
<1>18. CASE CloseStream
  BY <1>18 DEF CloseStream, Goto, Dispose
<1>19. CASE StartFailed
  BY <1>19 DEF StartFailed, Goto, Dispose
<1>20. CASE Handle
  BY <1>20 DEF Handle, Goto
<1>21. CASE RunStops
  BY <1>21 DEF RunStops, Goto
<1>22. CASE Connect
  BY <1>22 DEF Connect, Goto
<1>23. CASE LossSeen
  BY <1>23 DEF LossSeen, Goto
<1>24. CASE ChannelEnded
  BY <1>24 DEF ChannelEnded, Goto
<1>25. CASE Start
  BY <1>25 DEF Start, Goto
<1>26. CASE Refused
  BY <1>26 DEF Refused, Goto
<1>27. CASE StartTimedOut
  BY <1>27 DEF StartTimedOut, Goto
<1>28. CASE Call
  BY <1>28 DEF Call, Goto
<1>29. CASE Cancel
  BY <1>29 DEF Cancel, Goto
<1>30. CASE Close
  BY <1>30 DEF Close, Goto
<1>31. CASE Receive
  BY <1>31 DEF Receive
<1>32. ASSUME NEW changed \in SUBSET Markets, Publish(changed) PROVE Queues'
  BY <1>32 DEF Publish
<1>33. CASE ConnectionLost
  BY <1>33 DEF ConnectionLost
<1>34. CASE UNCHANGED vars
  BY <1>34 DEF vars, link, stream, out, locals, counts
<1> QED
  BY <1>1, <1>2, <1>3, <1>4, <1>5, <1>6, <1>7, <1>8, <1>9, <1>10, <1>11, <1>12, <1>13,
     <1>14, <1>15, <1>16, <1>17, <1>18, <1>19, <1>20, <1>21, <1>22, <1>23, <1>24, <1>25,
     <1>26, <1>27, <1>28, <1>29, <1>30, <1>31, <1>32, <1>33, <1>34
     DEF Next, Applies, Emits, Refreshes, FetchEnds, Closes, Pumps, Refreshers
-----------------------------------------------------------------------------
(* What a sequence of batches tells *)

\* The first batch of two sequences is taken from the first of them.
LEMMA TailOfConcat ==
  ASSUME NEW s \in Seq(Batch), NEW t \in Seq(Batch), s # <<>>
  PROVE  /\ s \o t \in Seq(Batch) /\ s \o t # <<>>
         /\ Head(s \o t) = Head(s) /\ Tail(s \o t) = Tail(s) \o t
<1>1. Len(s) \in Nat \ {0} /\ Len(t) \in Nat
  BY EmptySeq
<1>2. /\ s \o t \in Seq(Batch) /\ Len(s \o t) = Len(s) + Len(t)
      /\ \A i \in 1..Len(s) + Len(t) : (s \o t)[i] = IF i <= Len(s) THEN s[i] ELSE t[i - Len(s)]
  BY ConcatProperties
<1>3. s \o t # <<>>
  BY <1>1, <1>2
<1>4. /\ Tail(s) \in Seq(Batch) /\ Len(Tail(s)) = Len(s) - 1
      /\ \A i \in 1..Len(Tail(s)) : Tail(s)[i] = s[i + 1]
  BY HeadTailProperties
<1>5. /\ Tail(s \o t) \in Seq(Batch) /\ Len(Tail(s \o t)) = Len(s) + Len(t) - 1
      /\ \A i \in 1..Len(Tail(s \o t)) : Tail(s \o t)[i] = (s \o t)[i + 1]
  BY <1>2, <1>3, HeadTailProperties
<1>6. /\ Tail(s) \o t \in Seq(Batch) /\ Len(Tail(s) \o t) = Len(s) - 1 + Len(t)
      /\ \A i \in 1..Len(s) - 1 + Len(t) :
           (Tail(s) \o t)[i] = IF i <= Len(s) - 1 THEN Tail(s)[i] ELSE t[i - (Len(s) - 1)]
  BY <1>4, ConcatProperties
<1>7. \A i \in 1..Len(s) + Len(t) - 1 : Tail(s \o t)[i] = (Tail(s) \o t)[i]
  <2> SUFFICES ASSUME NEW i \in 1..Len(s) + Len(t) - 1
               PROVE  Tail(s \o t)[i] = (Tail(s) \o t)[i]
    OBVIOUS
  <2>1. Tail(s \o t)[i] = IF i + 1 <= Len(s) THEN s[i + 1] ELSE t[i + 1 - Len(s)]
    BY <1>1, <1>2, <1>5
  <2>2. CASE i + 1 <= Len(s)
    BY <1>1, <1>4, <1>6, <2>1, <2>2
  <2>3. CASE ~(i + 1 <= Len(s))
    <3>1. i + 1 - Len(s) = i - (Len(s) - 1) /\ ~(i <= Len(s) - 1)
      BY <1>1, <2>3
    <3> QED
      BY <1>1, <1>6, <2>1, <2>3, <3>1
  <2> QED
    BY <2>2, <2>3
<1>8. Tail(s \o t) = Tail(s) \o t
  BY <1>1, <1>5, <1>6, <1>7, SeqEqual
<1>9. Head(s \o t) = Head(s)
  BY <1>1, <1>2, <1>3
<1> QED
  BY <1>2, <1>3, <1>8, <1>9

\* The first batch is the rest's predecessor.
LEMMA HeadThenTail ==
  ASSUME NEW s \in Seq(Batch), s # <<>>
  PROVE  <<Head(s)>> \in Seq(Batch) /\ Tail(s) \in Seq(Batch) /\ <<Head(s)>> \o Tail(s) = s
<1>1. Head(s) \in Batch /\ Tail(s) \in Seq(Batch)
  BY HeadTailProperties
<1>2. <<Head(s)>> \in Seq(Batch)
  BY <1>1
<1>3. Len(s) \in Nat \ {0}
  BY EmptySeq
<1>4. SubSeq(s, 1, Len(s)) = <<s[1]>> \o SubSeq(s, 2, Len(s))
  BY <1>3, SubSeqRecursiveFirst
<1>5. s[1] = Head(s)
  BY <1>3
<1> QED
  BY <1>1, <1>2, <1>4, <1>5, SubSeqFull, TailIsSubSeq

\* A batch moved from the front of one queue to the end of the one before it.
LEMMA MoveOver ==
  ASSUME NEW s \in Seq(Batch), NEW t \in Seq(Batch), t # <<>>
  PROVE  Append(s, Head(t)) \in Seq(Batch) /\ Append(s, Head(t)) \o Tail(t) = s \o t
<1>1. Head(t) \in Batch /\ <<Head(t)>> \in Seq(Batch) /\ Tail(t) \in Seq(Batch)
  BY HeadTailProperties, HeadThenTail
<1>2. Append(s, Head(t)) \in Seq(Batch) /\ Append(s, Head(t)) = s \o <<Head(t)>>
  BY <1>1, AppendProperties, AppendIsConcat
<1>3. (s \o <<Head(t)>>) \o Tail(t) = s \o (<<Head(t)>> \o Tail(t))
  BY <1>1, ConcatAssociative
<1> QED
  BY <1>2, <1>3, HeadThenTail

\* A batch that joins the last of two queues.
LEMMA AppendToConcat ==
  ASSUME NEW s \in Seq(Batch), NEW t \in Seq(Batch), NEW news \in Batch
  PROVE  s \o Append(t, news) = Append(s \o t, news)
<1>1. <<news>> \in Seq(Batch) /\ s \o t \in Seq(Batch)
  BY ConcatProperties
<1>2. (s \o t) \o <<news>> = s \o (t \o <<news>>)
  BY <1>1, ConcatAssociative
<1> QED
  BY <1>1, <1>2, AppendIsConcat

\* Two sequences name what either of them names.
LEMMA NamesConcat ==
  ASSUME NEW s \in Seq(Batch), NEW t \in Seq(Batch), NEW m
  PROVE  Names(s \o t, m) <=> Names(s, m) \/ Names(t, m)
<1>1. Len(s) \in Nat /\ Len(t) \in Nat
  BY LenProperties
<1>2. /\ Len(s \o t) = Len(s) + Len(t)
      /\ \A i \in 1..Len(s) + Len(t) : (s \o t)[i] = IF i <= Len(s) THEN s[i] ELSE t[i - Len(s)]
  BY ConcatProperties
<1>3. ASSUME Names(s \o t, m) PROVE Names(s, m) \/ Names(t, m)
  <2>1. PICK i \in 1..Len(s) + Len(t) : m \in DOMAIN (s \o t)[i]
    BY <1>2, <1>3, Zenon DEF Names
  <2>2. CASE i <= Len(s)
    BY <1>1, <1>2, <2>1, <2>2 DEF Names
  <2>3. CASE ~(i <= Len(s))
    <3>1. i - Len(s) \in 1..Len(t)
      BY <1>1, <2>3
    <3> QED
      BY <1>2, <2>1, <2>3, <3>1 DEF Names
  <2> QED
    BY <2>2, <2>3
<1>4. ASSUME Names(s, m) PROVE Names(s \o t, m)
  <2>1. PICK i \in 1..Len(s) : m \in DOMAIN s[i]
    BY <1>4 DEF Names
  <2>2. i \in 1..Len(s) + Len(t) /\ i <= Len(s)
    BY <1>1
  <2> QED
    BY <1>2, <2>1, <2>2 DEF Names
<1>5. ASSUME Names(t, m) PROVE Names(s \o t, m)
  <2>1. PICK i \in 1..Len(t) : m \in DOMAIN t[i]
    BY <1>5 DEF Names
  <2>2. i + Len(s) \in 1..Len(s) + Len(t) /\ ~(i + Len(s) <= Len(s)) /\ i + Len(s) - Len(s) = i
    BY <1>1
  <2>3. (s \o t)[i + Len(s)] = t[i]
    BY <1>2, <2>2
  <2> QED
    BY <1>2, <2>1, <2>2, <2>3 DEF Names
<1> QED
  BY <1>3, <1>4, <1>5

\* No batch names no market.
LEMMA NamesEmpty == \A m : ~Names(<<>>, m)
BY DEF Names

\* A sequence names what its first batch or the rest names.
LEMMA NamesTail ==
  ASSUME NEW s \in Seq(Batch), s # <<>>, NEW m
  PROVE  Names(s, m) <=> m \in DOMAIN Head(s) \/ Names(Tail(s), m)
<1>1. Names(<<Head(s)>>, m) <=> m \in DOMAIN Head(s)
  BY DEF Names
<1>2. Names(<<Head(s)>> \o Tail(s), m) <=> Names(<<Head(s)>>, m) \/ Names(Tail(s), m)
  BY HeadThenTail, NamesConcat
<1> QED
  BY <1>1, <1>2, HeadThenTail

\* A batch adds its markets to what is named.
LEMMA NamesAppend ==
  ASSUME NEW s \in Seq(Batch), NEW news \in Batch, NEW m
  PROVE  Names(Append(s, news), m) <=> Names(s, m) \/ m \in DOMAIN news
<1>1. <<news>> \in Seq(Batch) /\ (Names(<<news>>, m) <=> m \in DOMAIN news)
  BY DEF Names
<1>2. Names(s \o <<news>>, m) <=> Names(s, m) \/ Names(<<news>>, m)
  BY <1>1, NamesConcat
<1> QED
  BY <1>1, <1>2, AppendIsConcat

\* What was taken from the front does not tell of a market last, or is fresh.
LEMMA FreshTail ==
  ASSUME NEW n, NEW s \in Seq(Batch), s # <<>>, Fresh(n, s)
  PROVE  /\ Fresh(n, Tail(s))
         /\ \A m \in DOMAIN Head(s) : Head(s)[m] = n[m] \/ Names(Tail(s), m)
<1>1. /\ Len(s) \in Nat \ {0} /\ Tail(s) \in Seq(Batch) /\ Len(Tail(s)) = Len(s) - 1
      /\ \A i \in 1..Len(Tail(s)) : Tail(s)[i] = s[i + 1]
  BY EmptySeq, HeadTailProperties
<1>2. ASSUME NEW i \in 1..Len(s), NEW m \in DOMAIN s[i], s[i][m] # n[m]
      PROVE  \E j \in i..Len(Tail(s)) : m \in DOMAIN Tail(s)[j]
  <2>1. PICK j \in i + 1..Len(s) : m \in DOMAIN s[j]
    BY <1>2 DEF Fresh
  <2>2. j - 1 \in i..Len(Tail(s)) /\ j - 1 \in 1..Len(Tail(s)) /\ (j - 1) + 1 = j
    BY <1>1
  <2>3. Tail(s)[j - 1] = s[j]
    BY <1>1, <2>2
  <2> QED
    BY <2>1, <2>2, <2>3
<1>3. ASSUME NEW i \in 1..Len(Tail(s)), NEW m \in DOMAIN Tail(s)[i], Tail(s)[i][m] # n[m]
      PROVE  \E j \in i + 1..Len(Tail(s)) : m \in DOMAIN Tail(s)[j]
  <2>1. i + 1 \in 1..Len(s) /\ Tail(s)[i] = s[i + 1]
    BY <1>1
  <2> QED
    BY <1>2, <1>3, <2>1
<1>4. ASSUME NEW m \in DOMAIN Head(s), Head(s)[m] # n[m]
      PROVE  Names(Tail(s), m)
  <2>1. 1 \in 1..Len(s) /\ s[1] = Head(s)
    BY <1>1
  <2> QED
    BY <1>2, <1>4, <2>1 DEF Names
<1> QED
  BY <1>3, <1>4, Zenon DEF Fresh

\* Nothing told is fresh.
LEMMA FreshEmpty == \A n : Fresh(n, <<>>)
BY DEF Fresh

\* A change of some markets keeps fresh what ends with the batch that tells of
\* it.
LEMMA FreshAppend ==
  ASSUME NEW n, NEW later, NEW s \in Seq(Batch), NEW news \in Batch, Fresh(n, s),
         \A m \in DOMAIN news : news[m] = later[m],
         \A i \in 1..Len(s) : \A m \in DOMAIN s[i] : m \in DOMAIN news \/ later[m] = n[m]
  PROVE  Fresh(later, Append(s, news))
<1>1. Len(s) \in Nat
  BY LenProperties
<1>2. /\ Len(Append(s, news)) = Len(s) + 1 /\ Append(s, news)[Len(s) + 1] = news
      /\ \A i \in 1..Len(s) : Append(s, news)[i] = s[i]
  BY AppendProperties
<1>3. ASSUME NEW i \in 1..Len(s) + 1, NEW m \in DOMAIN Append(s, news)[i],
             Append(s, news)[i][m] # later[m]
      PROVE  \E j \in i + 1..Len(s) + 1 : m \in DOMAIN Append(s, news)[j]
  <2>1. i # Len(s) + 1
    BY <1>2, <1>3
  <2>2. i \in 1..Len(s) /\ Len(s) + 1 \in i + 1..Len(s) + 1 /\ Append(s, news)[i] = s[i]
    BY <1>1, <1>2, <2>1
  <2>3. CASE m \in DOMAIN news
    BY <1>2, <2>2, <2>3
  <2>4. CASE m \notin DOMAIN news
    <3>1. s[i][m] # n[m]
      BY <1>3, <2>2, <2>4
    <3>2. PICK j \in i + 1..Len(s) : m \in DOMAIN s[j]
      BY <2>2, <3>1, <1>3 DEF Fresh
    <3>3. j \in 1..Len(s) /\ j \in i + 1..Len(s) + 1
      BY <1>1, <2>2
    <3> QED
      BY <1>2, <3>2, <3>3
  <2> QED
    BY <2>3, <2>4
<1> QED
  BY <1>2, <1>3, Zenon DEF Fresh

-----------------------------------------------------------------------------
(* What is still to be applied *)

\* The queues are sequences of batches, one after the other or alone.
LEMMA PendingType ==
  ASSUME DataTypes
  PROVE  /\ wire \in Seq(Batch) /\ buffer \in Seq(Batch) /\ buffer \o wire \in Seq(Batch)
         /\ batches["run"] \in Seq(Batch) /\ batches["caller"] \in Seq(Batch)
         /\ batches["run"] \o wire \in Seq(Batch)
         /\ batches["caller"] \o (buffer \o wire) \in Seq(Batch)
         /\ Pending \in Seq(Batch)
<1>1. /\ wire \in Seq(Batch) /\ buffer \in Seq(Batch)
      /\ batches["run"] \in Seq(Batch) /\ batches["caller"] \in Seq(Batch)
  BY DEF DataTypes, Tasks
<1>2. buffer \o wire \in Seq(Batch) /\ batches["run"] \o wire \in Seq(Batch)
  BY <1>1, ConcatProperties
<1>3. batches["caller"] \o (buffer \o wire) \in Seq(Batch)
  BY <1>1, <1>2, ConcatProperties
<1>4. Pending \in Seq(Batch)
  BY <1>1, <1>3, ConcatProperties DEF Pending
<1> QED
  BY <1>1, <1>2, <1>3, <1>4

\* An empty sequence before another one.
LEMMA NothingBefore == \A s \in Seq(Batch) : <<>> \o s = s
BY ConcatEmptySeq

\* Who holds no batch while the gate is free or another's.
LEMMA HeldBatches ==
  ASSUME DataTypes, GateHeld, Queues
  PROVE  /\ gate # "caller" => batches["caller"] = <<>>
         /\ \A t \in Refreshers : at[t] \notin {"clear", "rows", "apply"} => batches[t] = <<>>
         /\ ~disposed /\ ~buffering => buffer = <<>> /\ batches["caller"] = <<>>
         /\ ~disposed /\ gate = "caller" /\ batches["caller"] # <<>> => batches["run"] = <<>>
<1>1. \A t \in Refreshers : at[t] \notin {"clear", "rows", "apply"} => batches[t] = <<>>
  BY DEF Queues
<1>2. gate # "caller" => at["caller"] \notin {"clear", "rows", "apply"}
  BY DEF GateHeld, Refreshers, Refreshing
<1>3. gate # "caller" => batches["caller"] = <<>>
  BY <1>1, <1>2 DEF Refreshers
<1>4. ~disposed /\ ~buffering => buffer = <<>> /\ (gate = "caller" => at["caller"] = "clearError")
  BY DEF Queues, Refreshers
<1>5. ~disposed /\ ~buffering => buffer = <<>> /\ batches["caller"] = <<>>
  BY <1>1, <1>3, <1>4 DEF Refreshers
<1>6. ~disposed /\ gate = "caller" /\ batches["caller"] # <<>> => batches["run"] = <<>>
  BY DEF Queues
<1> QED
  BY <1>1, <1>3, <1>5, <1>6

\* A batch that is applied is the first of those pending.
LEMMA PendingApplied ==
  ASSUME DataTypes, GateHeld, Queues, ~disposed, NEW t \in Refreshers, ApplyBatch(t)
  PROVE  /\ Pending # <<>> /\ Head(Pending) = Head(batches[t])
         /\ Pending' = Tail(Pending)
         /\ t = "run" => (batches["run"] \o wire)' = Tail(batches["run"] \o wire)
                         /\ batches["run"] \o wire # <<>>
         /\ t = "caller" => batches["run"]' = batches["run"]
<1>1. batches' = [batches EXCEPT ![t] = Tail(@)] /\ batches[t] # <<>> /\ at[t] = "apply"
  BY Zenon DEF ApplyBatch
<1>2. UNCHANGED <<buffer, wire>>
  BY DEF ApplyBatch, link, stream
<1>3. batches["run"] \in Seq(Batch) /\ batches["caller"] \in Seq(Batch)
      /\ batches["caller"] \o (buffer \o wire) \in Seq(Batch) /\ wire \in Seq(Batch)
      /\ buffer \o wire \in Seq(Batch)
  BY PendingType
<1>4. CASE t = "run"
  <2>1. batches'["run"] = Tail(batches["run"]) /\ batches'["caller"] = batches["caller"]
    BY <1>1, <1>4 DEF DataTypes, Tasks
  <2>2. /\ Head(Pending) = Head(batches["run"]) /\ Pending # <<>>
        /\ Tail(Pending) = Tail(batches["run"]) \o (batches["caller"] \o (buffer \o wire))
    BY <1>1, <1>3, <1>4, TailOfConcat DEF Pending
  <2>3. /\ Tail(batches["run"] \o wire) = Tail(batches["run"]) \o wire
        /\ batches["run"] \o wire # <<>>
    BY <1>1, <1>3, <1>4, TailOfConcat
  <2> QED
    BY <1>2, <1>4, <2>1, <2>2, <2>3 DEF Pending
<1>5. CASE t = "caller"
  <2>1. batches'["caller"] = Tail(batches["caller"]) /\ batches'["run"] = batches["run"]
    BY <1>1, <1>5 DEF DataTypes, Tasks
  <2>2. gate = "caller"
    BY <1>1, <1>5 DEF GateHeld
  <2>3. batches["run"] = <<>>
    BY <1>1, <1>5, <2>2, HeldBatches
  <2>4. Pending = batches["caller"] \o (buffer \o wire)
    BY <1>3, <2>3, NothingBefore DEF Pending
  <2>5. /\ Head(Pending) = Head(batches["caller"]) /\ Pending # <<>>
        /\ Tail(Pending) = Tail(batches["caller"]) \o (buffer \o wire)
    BY <1>1, <1>3, <1>5, <2>4, TailOfConcat
  <2>6. Tail(batches["caller"]) \o (buffer \o wire) \in Seq(Batch)
    BY <1>1, <1>3, <1>5, HeadTailProperties, ConcatProperties
  <2>7. Pending' = Tail(batches["caller"]) \o (buffer \o wire)
    BY <1>2, <2>1, <2>3, <2>6, NothingBefore DEF Pending
  <2> QED
    BY <1>5, <2>1, <2>5, <2>7
<1> QED
  BY <1>4, <1>5 DEF Refreshers

\* A task that has applied its batches takes those buffered since.
LEMMA PendingTaken ==
  ASSUME DataTypes, GateHeld, Queues, NEW t \in Refreshers, gate = t, batches[t] = <<>>,
         batches' = [batches EXCEPT ![t] = buffer], buffer' = <<>>, wire' = wire
  PROVE  /\ Pending' = Pending
         /\ (batches[t] \o (buffer \o wire))' = batches[t] \o (buffer \o wire)
         /\ t # "run" => batches["run"]' = batches["run"]
<1>1. batches["run"] \in Seq(Batch) /\ batches["caller"] \in Seq(Batch)
      /\ batches["caller"] \o (buffer \o wire) \in Seq(Batch) /\ wire \in Seq(Batch)
      /\ buffer \o wire \in Seq(Batch) /\ buffer \in Seq(Batch)
  BY PendingType
<1>2. <<>> \o (buffer \o wire) = buffer \o wire /\ <<>> \o wire = wire
  BY <1>1, NothingBefore
<1>3. batches'[t] = buffer
  BY DEF DataTypes, Tasks, Refreshers
<1>4. CASE t = "run"
  <2>1. batches["caller"] = <<>> /\ batches'["caller"] = <<>>
    BY <1>4, HeldBatches DEF DataTypes, Tasks
  <2> QED
    BY <1>2, <1>3, <1>4, <2>1 DEF Pending
<1>5. CASE t = "caller"
  <2>1. batches'["run"] = batches["run"]
    BY <1>5 DEF DataTypes, Tasks
  <2> QED
    BY <1>2, <1>3, <1>5, <2>1 DEF Pending
<1> QED
  BY <1>4, <1>5 DEF Refreshers

\* What the pump takes from the wire joins a queue that is empty, or the buffer.
LEMMA PendingHandled ==
  ASSUME DataTypes, GateHeld, Queues, ~disposed, Handle, at'["run"] # "fail"
  PROVE  /\ Pending' = Pending /\ wire # <<>> /\ wire' = Tail(wire) /\ batches["run"] = <<>>
         /\ \/ /\ ~buffering /\ buffer' = buffer
               /\ (batches["run"] \o wire)' = wire
               /\ (buffer \o wire)' = Tail(wire)
            \/ /\ buffering /\ batches' = batches
               /\ (buffer \o wire)' = buffer \o wire
<1>1. at["run"] = "pump" /\ wire # <<>> /\ wire' = Tail(wire)
  BY DEF Handle
<1>2. batches["run"] = <<>>
  BY <1>1, HeldBatches DEF Refreshers
<1>3. wire \in Seq(Batch) /\ Tail(wire) \in Seq(Batch) /\ <<Head(wire)>> \in Seq(Batch)
      /\ <<Head(wire)>> \o Tail(wire) = wire
  BY <1>1, PendingType, HeadThenTail
<1>4. <<>> \o wire = wire /\ <<>> \o Tail(wire) = Tail(wire)
  BY <1>3, NothingBefore
<1>5. CASE ~buffering
  <2>1. buffer = <<>> /\ batches["caller"] = <<>>
    BY <1>5, HeldBatches
  <2>2. batches' = [batches EXCEPT !["run"] = <<Head(wire)>>] /\ buffer' = buffer
    BY <1>5, Zenon DEF Handle
  <2>3. batches'["run"] = <<Head(wire)>> /\ batches'["caller"] = <<>>
    BY <2>1, <2>2 DEF DataTypes, Tasks
  <2>4. Pending = wire
    BY <1>2, <1>4, <2>1 DEF Pending
  <2>5. Pending' = wire
    BY <1>1, <1>3, <1>4, <2>1, <2>2, <2>3 DEF Pending
  <2>6. (batches["run"] \o wire)' = wire /\ (buffer \o wire)' = Tail(wire)
    BY <1>1, <1>3, <1>4, <2>1, <2>2, <2>3
  <2> QED
    BY <1>1, <1>2, <1>5, <2>2, <2>4, <2>5, <2>6
<1>6. CASE buffering
  <2>1. batches' = batches
    BY <1>6, Zenon DEF Handle
  <2>2. "run" \in DOMAIN at
    BY DEF DataTypes, Tasks
  <2>3. buffer' = Append(buffer, Head(wire))
    BY <1>6, <2>2 DEF Handle, Goto
  <2>4. buffer' \o Tail(wire) = buffer \o wire
    BY <1>1, <2>3, MoveOver, PendingType
  <2>5. (buffer \o wire)' = buffer \o wire
    BY <1>1, <2>4
  <2>6. Pending' = Pending
    BY <2>1, <2>5, Zenon DEF Pending
  <2> QED
    BY <1>1, <1>2, <1>6, <2>1, <2>5, <2>6
<1> QED
  BY <1>5, <1>6

\* What is published while the connection stands joins what is pending.
LEMMA PendingPublished ==
  ASSUME DataTypes, NEW changed \in SUBSET Markets, Publish(changed), up
  PROVE  /\ [m \in changed |-> now'[m]] \in Batch
         /\ wire' = Append(wire, [m \in changed |-> now'[m]])
         /\ (batches["run"] \o wire)' = Append(batches["run"] \o wire, [m \in changed |-> now'[m]])
         /\ (buffer \o wire)' = Append(buffer \o wire, [m \in changed |-> now'[m]])
         /\ Pending' = Append(Pending, [m \in changed |-> now'[m]])
         /\ \A t \in Refreshers : (batches[t] \o (buffer \o wire))' =
              Append(batches[t] \o (buffer \o wire), [m \in changed |-> now'[m]])
<1> DEFINE news == [m \in changed |-> now'[m]]
<1>1. wire' = Append(wire, news) /\ UNCHANGED <<buffer, batches>>
  BY PublishStep, Zenon DEF stream, locals
<1>2. news \in Batch
  BY NewsIsBatch
<1> HIDE DEF news
<1>3. batches["run"] \in Seq(Batch) /\ batches["caller"] \in Seq(Batch)
      /\ batches["caller"] \o (buffer \o wire) \in Seq(Batch) /\ wire \in Seq(Batch)
      /\ buffer \o wire \in Seq(Batch) /\ buffer \in Seq(Batch)
  BY PendingType
<1>4. (batches["run"] \o wire)' = Append(batches["run"] \o wire, news)
  BY <1>1, <1>2, <1>3, AppendToConcat
<1>5. (buffer \o wire)' = Append(buffer \o wire, news)
  BY <1>1, <1>2, <1>3, AppendToConcat
<1>6. \A t \in Refreshers : (batches[t] \o (buffer \o wire))' =
        Append(batches[t] \o (buffer \o wire), news)
  <2> SUFFICES ASSUME NEW t \in Refreshers
               PROVE  batches'[t] \o (buffer \o wire)' =
                        Append(batches[t] \o (buffer \o wire), news)
    OBVIOUS
  <2>1. batches[t] \in Seq(Batch)
    BY <1>3 DEF Refreshers
  <2>2. batches[t] \o Append(buffer \o wire, news) = Append(batches[t] \o (buffer \o wire), news)
    BY <1>2, <1>3, <2>1, AppendToConcat
  <2> QED
    BY <1>1, <1>5, <2>2
<1>7. Pending' = Append(Pending, news)
  <2>1. (batches["caller"] \o (buffer \o wire))' =
          Append(batches["caller"] \o (buffer \o wire), news)
    BY <1>6 DEF Refreshers
  <2>2. batches["run"] \o Append(batches["caller"] \o (buffer \o wire), news) =
          Append(Pending, news)
    BY <1>2, <1>3, AppendToConcat DEF Pending
  <2> QED
    BY <1>1, <2>1, <2>2 DEF Pending
<1> QED
  BY <1>1, <1>2, <1>4, <1>5, <1>6, <1>7 DEF news

\* What is fresh stays so when the batch of a change joins it.
LEMMA PublishFresh ==
  ASSUME DataTypes, NEW changed \in SUBSET Markets, Publish(changed),
         NEW s \in Seq(Batch), Fresh(now, s)
  PROVE  Fresh(now', Append(s, [m \in changed |-> now'[m]]))
<1>1. now' = [m \in Markets |-> IF m \in changed THEN now[m] + 1 ELSE now[m]]
  BY PublishStep, Zenon
<1>2. [m \in changed |-> now'[m]] \in Batch
  BY NewsIsBatch
<1>3. \A i \in 1..Len(s) : DOMAIN s[i] \subseteq Markets
  <2> SUFFICES ASSUME NEW i \in 1..Len(s) PROVE DOMAIN s[i] \subseteq Markets
    OBVIOUS
  <2>1. s[i] \in Batch
    BY ElementOfSeq
  <2> QED
    BY <2>1 DEF Batch
<1>4. \A i \in 1..Len(s) : \A m \in DOMAIN s[i] :
        m \in DOMAIN [k \in changed |-> now'[k]] \/ now'[m] = now[m]
  BY <1>1, <1>3
<1>5. \A m \in DOMAIN [k \in changed |-> now'[k]] : [k \in changed |-> now'[k]][m] = now'[m]
  OBVIOUS
<1> QED
  BY <1>2, <1>4, <1>5, FreshAppend

-----------------------------------------------------------------------------
(* The news and the rows, step by step *)

\* A stream that has ended owes nothing.
LEMMA EndedStep ==
  ASSUME disposed'
  PROVE  NewsFresh' /\ RowsKnown'
BY DEF NewsFresh, RowsKnown, Connected, Clean, Sound

\* So does a connection that is lost.
LEMMA LostStep ==
  ASSUME ~up'
  PROVE  NewsFresh' /\ RowsKnown'
BY DEF NewsFresh, RowsKnown, Connected, Clean, Sound

\* A step that leaves the queues alone keeps the news fresh, unless the pump
\* is back from a place where it owed a refresh.
LEMMA QuietNews ==
  ASSUME DataTypes, NewsFresh,
         UNCHANGED <<now, up, survivors, disposed, wire, buffer, batches>>,
         at["run"] \in {"gate", "fail"} => at'["run"] \in {"gate", "fail"},
         gate = "run" => gate' = "run" \/ batches["run"] = <<>>
  PROVE  NewsFresh'
<1>1. batches["run"] = <<>> => batches["run"] \o wire = wire
  BY PendingType, NothingBefore
<1>2. Pending' = Pending
  BY DEF Pending
<1> QED
  BY <1>1, <1>2 DEF NewsFresh, Connected, Clean, Sound

\* A step that leaves the queues and the rows alone and begins no use of them.
LEMMA QuietRows ==
  ASSUME RowsKnown,
         UNCHANGED <<now, up, survivors, disposed, wire, buffer, batches, rows>>,
         at["run"] \in {"gate", "fail"} => at'["run"] \in {"gate", "fail"},
         ~disposed /\ RowsInUse' => RowsInUse,
         \A t \in Refreshers : at'[t] = "rows" => at[t] = "rows",
         \A t \in Refreshers : at'[t] \in {"take", "clear", "rows"} =>
           at[t] \in {"take", "clear", "rows"} /\ snapshot'[t] = snapshot[t]
  PROVE  RowsKnown'
<1>1. Sound' => Sound
  BY DEF Sound, Clean, Connected
<1>2. \A m : RowKnown(m) => RowKnown(m)'
  BY DEF RowKnown, Pending, Names
<1>3. Sound' /\ RowsInUse' => \A m \in Markets : RowKnown(m)'
  BY <1>1, <1>2 DEF RowsKnown, Sound, Clean, Connected
<1>4. \A t \in Refreshers : Sound' /\ at'[t] = "rows" => \A m \in Markets \ Listed : RowKnown(m)'
  BY <1>1, <1>2 DEF RowsKnown
<1>5. \A t \in Refreshers : Sound' /\ at'[t] \in {"take", "clear", "rows"} =>
        \A m \in Markets :
          snapshot'[t][m] = now'[m] \/ Names(batches'[t] \o (buffer' \o wire'), m)
  BY <1>1 DEF RowsKnown
<1> QED
  BY <1>3, <1>4, <1>5, Zenon DEF RowsKnown

\* What a task that refreshes has still to apply is pending.
LEMMA HeldIsPending ==
  ASSUME DataTypes, GateHeld, Queues, NEW t \in Refreshers, gate = t, NEW m,
         Names(batches[t] \o (buffer \o wire), m)
  PROVE  Names(Pending, m)
<1>1. batches["run"] \in Seq(Batch) /\ batches["caller"] \in Seq(Batch)
      /\ batches["caller"] \o (buffer \o wire) \in Seq(Batch) /\ buffer \o wire \in Seq(Batch)
  BY PendingType
<1>2. CASE t = "run"
  <2>1. batches["caller"] = <<>>
    BY <1>2, HeldBatches
  <2>2. <<>> \o (buffer \o wire) = buffer \o wire
    BY <1>1, NothingBefore
  <2> QED
    BY <1>2, <2>1, <2>2 DEF Pending
<1>3. CASE t = "caller"
  <2>1. Names(Pending, m) <=>
          Names(batches["run"], m) \/ Names(batches["caller"] \o (buffer \o wire), m)
    BY <1>1, NamesConcat DEF Pending
  <2> QED
    BY <1>3, <2>1
<1> QED
  BY <1>2, <1>3 DEF Refreshers

\* A row known before a batch is applied is known after it.
LEMMA RowApplied ==
  ASSUME DataTypes, GateHeld, Queues, ~disposed, Fresh(now, Pending),
         NEW t \in Refreshers, ApplyBatch(t), NEW m \in Markets, RowKnown(m)
  PROVE  RowKnown(m)'
<1>1. /\ Pending # <<>> /\ Head(Pending) = Head(batches[t]) /\ Pending' = Tail(Pending)
      /\ Pending \in Seq(Batch)
  BY PendingApplied, PendingType
<1>2. rows' = Merge(Head(Pending)) /\ now' = now
  BY <1>1 DEF ApplyBatch
<1>3. Names(Pending, m) <=> m \in DOMAIN Head(Pending) \/ Names(Tail(Pending), m)
  BY <1>1, NamesTail
<1>4. m \in DOMAIN Head(Pending) => Head(Pending)[m] = now[m] \/ Names(Tail(Pending), m)
  BY <1>1, FreshTail
<1>5. rows'[m] = IF m \in DOMAIN Head(Pending) THEN Head(Pending)[m] ELSE rows[m]
  BY <1>2 DEF Merge
<1> QED
  BY <1>1, <1>2, <1>3, <1>4, <1>5 DEF RowKnown

\* Who holds the gate is alone at the places of a refresh.
LEMMA Alone ==
  ASSUME DataTypes, GateHeld, NEW t \in Refreshers, gate = t, NEW o \in Refreshers, o # t
  PROVE  at[o] \notin Refreshing
BY DEF GateHeld, Refreshing

\* A task that takes what was buffered has it to apply.
LEMMA TakenNews ==
  ASSUME DataTypes, GateHeld, Queues, NewsFresh, NEW t \in Refreshers,
         at[t] \in {"take", "drain"},
         at' = [at EXCEPT ![t] = "clear"] \/ at' = [at EXCEPT ![t] = "apply"],
         UNCHANGED <<now, up, survivors, disposed, wire, gate>>,
         batches' = [batches EXCEPT ![t] = buffer], buffer' = <<>>
  PROVE  NewsFresh'
<1>1. gate = t /\ batches[t] = <<>>
  BY HeldBatches DEF GateHeld, Refreshing
<1>2. Pending' = Pending /\ (t # "run" => batches["run"]' = batches["run"])
  BY <1>1, PendingTaken
<1>3. Connected' => Fresh(now, wire) /\ (gate # "run" => Fresh(now, (batches["run"] \o wire)'))
  BY <1>1, <1>2 DEF NewsFresh, Connected
<1>4. (buffer \o wire)' = wire
  BY PendingType, NothingBefore
<1>5. Sound' => Sound
  BY DEF Sound, Clean, Connected, DataTypes, Tasks, Refreshers
<1> QED
  BY <1>2, <1>3, <1>4, <1>5 DEF NewsFresh, Clean

\* Every step keeps what is pending fresh.
LEMMA NewsNext ==
  ASSUME DataTypes, GateHeld, FirstRefreshToCome, Queues, NewsFresh, [Next]_vars
  PROVE  NewsFresh'
<1>1. ASSUME NEW t \in Refreshers, Clear(t) PROVE NewsFresh'
  BY <1>1, QuietNews, HeldBatches
     DEF Clear, Goto, DataTypes, Tasks, Refreshers, GateHeld, Refreshing, Showing,
         link, stream, out, locals
<1>2. ASSUME NEW t \in Refreshers, ApplySnapshot(t) PROVE NewsFresh'
  BY <1>2, QuietNews, HeldBatches
     DEF ApplySnapshot, Goto, Merge, DataTypes, Tasks, Refreshers, GateHeld, Refreshing, Showing,
         link, stream, out, locals
<1>3. ASSUME NEW t \in Refreshers, ApplyBatch(t) PROVE NewsFresh'
  <2>1. CASE disposed
    BY <1>3, <2>1, EndedStep DEF ApplyBatch, stream
  <2>2. CASE ~disposed
    <3>1. UNCHANGED <<now, up, survivors, disposed, wire, buffer, gate, at>>
      BY <1>3 DEF ApplyBatch, link, stream
    <3>2. /\ Pending # <<>> /\ Pending' = Tail(Pending) /\ Pending \in Seq(Batch)
          /\ batches["run"] \o wire \in Seq(Batch)
      BY <1>3, <2>2, PendingApplied, PendingType
    <3>3. Fresh(now, Pending) => Fresh(now, Pending')
      BY <3>2, FreshTail
    <3>4. Fresh(now, batches["run"] \o wire) => Fresh(now, (batches["run"] \o wire)')
      BY <1>3, <2>2, <3>1, <3>2, PendingApplied, FreshTail DEF Refreshers
    <3> QED
      BY <3>1, <3>3, <3>4 DEF NewsFresh, Connected, Clean, Sound
  <2> QED
    BY <2>1, <2>2
<1>4. ASSUME NEW t \in Refreshers, Applied(t) PROVE NewsFresh'
  BY <1>4, QuietNews, HeldBatches
     DEF Applied, Goto, Show, DataTypes, Tasks, Refreshers, GateHeld, Refreshing, Showing,
         link, stream, out, locals
<1>5. ASSUME NEW t \in Refreshers, Clone(t) PROVE NewsFresh'
  BY <1>5, QuietNews, HeldBatches
     DEF Clone, Goto, Resume, DataTypes, Tasks, Refreshers, GateHeld, Refreshing, Showing,
         link, stream, out, locals
<1>6. ASSUME NEW t \in Refreshers, Send(t) PROVE NewsFresh'
  BY <1>6, QuietNews, HeldBatches
     DEF Send, Goto, Resume, DataTypes, Tasks, Refreshers, GateHeld, Refreshing, Showing,
         link, stream, out, locals
<1>7. ASSUME NEW t \in Refreshers, Full(t) PROVE NewsFresh'
  BY <1>7, QuietNews, HeldBatches
     DEF Full, Goto, DataTypes, Tasks, Refreshers, GateHeld, Refreshing, Showing,
         link, stream, out, locals
<1>8. ASSUME NEW t \in Refreshers, Fail(t) PROVE NewsFresh'
  BY <1>8, EndedStep DEF Fail, Dispose
<1>9. ASSUME NEW t \in Refreshers, Tell(t) PROVE NewsFresh'
  BY <1>9, QuietNews, HeldBatches
     DEF Tell, Goto, Resume, DataTypes, Tasks, Refreshers, GateHeld, Refreshing, Showing,
         link, stream, out, locals
<1>10. ASSUME NEW t \in Refreshers, Begin(t) PROVE NewsFresh'
  <2>1. CASE disposed
    BY <1>10, <2>1, EndedStep DEF Begin
  <2>2. CASE ~disposed
    <3>1. /\ UNCHANGED <<now, up, disposed, wire, buffer, batches>> /\ gate' = t /\ gate = "free"
          /\ survivors' = (survivors /\ buffer # <<>>) /\ at[t] = "gate"
          /\ at' = [at EXCEPT ![t] = "fetch"]
      BY <1>10, <2>2, Zenon DEF Begin, locals, Goto
    <3>2. /\ wire \in Seq(Batch) /\ batches["run"] \o wire \in Seq(Batch)
          /\ buffer \o wire \in Seq(Batch)
      BY PendingType
    <3>3. batches["caller"] = <<>>
      BY <3>1, HeldBatches
    <3>4. Pending = batches["run"] \o (buffer \o wire)
      BY <3>2, <3>3, NothingBefore DEF Pending
    <3>5. buffer = <<>> => buffer \o wire = wire /\ Pending = batches["run"] \o wire
      BY <3>2, <3>4, NothingBefore
    <3>6. Pending' = Pending /\ (buffer \o wire)' = buffer \o wire
          /\ (batches["run"] \o wire)' = batches["run"] \o wire
      BY <3>1 DEF Pending
    <3>7. Connected' => Fresh(now, wire) /\ Fresh(now, batches["run"] \o wire)
      BY <3>1 DEF NewsFresh, Connected
    <3>8. Clean' => Fresh(now, buffer \o wire)
      BY <3>1, <3>5, <3>7 DEF NewsFresh, Clean, Connected
    <3>9. Sound' => Fresh(now, Pending)
      <4>1. CASE t = "run"
        <5>1. batches["run"] = <<>>
          BY <3>1, <4>1, HeldBatches DEF Refreshers
        <5>2. Pending = buffer \o wire
          BY <3>2, <3>4, <5>1, NothingBefore
        <5> QED
          BY <3>8, <5>2 DEF Sound
      <4>2. CASE t = "caller"
        <5>1. at'["run"] = at["run"]
          BY <3>1, <4>2 DEF DataTypes, Tasks
        <5>2. Sound' /\ ~survivors => Sound
          BY <3>1, <5>1 DEF Sound, Clean, Connected
        <5>3. Sound' /\ survivors => buffer = <<>> /\ Connected'
          BY <3>1 DEF Sound, Clean
        <5> QED
          BY <3>5, <3>7, <5>2, <5>3 DEF NewsFresh
      <4> QED
        BY <4>1, <4>2 DEF Refreshers
    <3> QED
      BY <3>1, <3>6, <3>7, <3>8, <3>9 DEF NewsFresh
  <2> QED
    BY <2>1, <2>2
<1>11. ASSUME NEW t \in Refreshers, FetchAnswered(t) PROVE NewsFresh'
  BY <1>11, QuietNews, HeldBatches
     DEF FetchAnswered, Goto, DataTypes, Tasks, Refreshers, GateHeld, Refreshing, Showing,
         link, stream, out, locals
<1>12. ASSUME NEW t \in Refreshers, FetchFails(t) PROVE NewsFresh'
  BY <1>12, QuietNews, HeldBatches
     DEF FetchFails, Return, Goto, DataTypes, Tasks, Refreshers, GateHeld, Refreshing, Showing,
         link, stream, out, locals
<1>13. ASSUME NEW t \in Refreshers, FetchStopped(t) PROVE NewsFresh'
  BY <1>13, EndedStep DEF FetchStopped, stream
<1>14. ASSUME NEW t \in Refreshers, TakeBuffered(t) PROVE NewsFresh'
  <2>1. CASE disposed
    BY <1>14, <2>1, EndedStep DEF TakeBuffered
  <2>2. CASE ~disposed
    <3>1. /\ UNCHANGED <<now, up, survivors, disposed, wire, gate>> /\ buffer' = <<>>
          /\ batches' = [batches EXCEPT ![t] = buffer] /\ at[t] = "take"
          /\ at' = [at EXCEPT ![t] = "clear"]
      BY <1>14, <2>2, Zenon DEF TakeBuffered, link, Goto
    <3> QED
      BY <3>1, TakenNews
  <2> QED
    BY <2>1, <2>2
<1>15. ASSUME NEW t \in Refreshers, DrainOrReady(t) PROVE NewsFresh'
  <2>1. CASE disposed
    BY <1>15, <2>1, EndedStep DEF DrainOrReady
  <2>2. CASE ~disposed /\ Drained
    <3>1. /\ UNCHANGED <<now, up, survivors, disposed, wire, gate, batches>>
          /\ buffer' = buffer /\ at[t] = "drain" /\ at' = [at EXCEPT ![t] = "clearError"]
      BY <1>15, <2>2, Zenon DEF DrainOrReady, Drained, link, Goto
    <3> QED
      BY <3>1, QuietNews DEF DataTypes, Tasks, Refreshers
  <2>3. CASE ~disposed /\ ~Drained
    <3>1. /\ UNCHANGED <<now, up, survivors, disposed, wire, gate>> /\ buffer' = <<>>
          /\ batches' = [batches EXCEPT ![t] = buffer] /\ at[t] = "drain"
          /\ at' = [at EXCEPT ![t] = "apply"]
      BY <1>15, <2>3, Zenon DEF DrainOrReady, link, Goto
    <3> QED
      BY <3>1, TakenNews
  <2> QED
    BY <2>1, <2>2, <2>3
<1>16. ASSUME NEW t \in Refreshers, ClearError(t) PROVE NewsFresh'
  BY <1>16, QuietNews, HeldBatches
     DEF ClearError, Return, Goto, DataTypes, Tasks, Refreshers, GateHeld, Refreshing, Showing,
         link, stream, out, locals
<1>17. CASE CloseSlot
  BY <1>17, QuietNews, HeldBatches
     DEF CloseSlot, Goto, DataTypes, Tasks, Refreshers, GateHeld, Refreshing, Showing,
         link, stream, out, locals
<1>18. CASE CloseStream
  BY <1>18, EndedStep DEF CloseStream, Dispose
<1>19. CASE StartFailed
  BY <1>19, EndedStep DEF StartFailed, Dispose
<1>20. CASE Handle
  <2>1. CASE disposed
    BY <1>20, <2>1, EndedStep DEF Handle
  <2>2. CASE ~disposed /\ at'["run"] = "fail"
    <3>1. /\ UNCHANGED <<now, up, survivors, disposed, gate, batches>> /\ buffer' = <<>>
          /\ wire # <<>> /\ wire' = Tail(wire) /\ at["run"] = "pump"
      BY <1>20, <2>2 DEF Handle, Goto, DataTypes, Tasks
    <3>2. batches["run"] = <<>>
      BY <3>1, HeldBatches DEF Refreshers
    <3>3. wire \in Seq(Batch) /\ Tail(wire) \in Seq(Batch)
      BY <3>1, PendingType, HeadTailProperties
    <3>4. Connected' => Fresh(now, Tail(wire))
      BY <3>1, <3>3, FreshTail DEF NewsFresh, Connected
    <3>5. (batches["run"] \o wire)' = Tail(wire) /\ (buffer \o wire)' = Tail(wire)
      BY <3>1, <3>2, <3>3, NothingBefore
    <3> QED
      BY <2>2, <3>1, <3>4, <3>5 DEF NewsFresh, Clean, Sound
  <2>3. CASE ~disposed /\ at'["run"] # "fail"
    <3>1. UNCHANGED <<now, up, survivors, disposed, gate>> /\ at["run"] = "pump"
      BY <1>20 DEF Handle
    <3>2. /\ Pending' = Pending /\ wire # <<>> /\ wire' = Tail(wire) /\ batches["run"] = <<>>
          /\ (buffer \o wire)' = Tail(wire) \/ (buffer \o wire)' = buffer \o wire
          /\ (batches["run"] \o wire)' = wire \/ batches' = batches
      BY <1>20, <2>3, PendingHandled
    <3>3. wire \in Seq(Batch) /\ Tail(wire) \in Seq(Batch)
      BY <3>2, PendingType, HeadTailProperties
    <3>4. Connected' => Fresh(now, wire) /\ Fresh(now, Tail(wire))
      BY <3>1, <3>2, <3>3, FreshTail DEF NewsFresh, Connected
    <3>5. batches' = batches => (batches["run"] \o wire)' = Tail(wire)
      BY <3>2, <3>3, NothingBefore
    <3>6. Connected' => Fresh(now, (batches["run"] \o wire)')
      BY <3>2, <3>4, <3>5
    <3>7. Clean' => Fresh(now, (buffer \o wire)')
      BY <3>1, <3>2, <3>4 DEF NewsFresh, Clean, Connected
    <3>8. Sound' => Fresh(now, Pending')
      BY <3>1, <3>2 DEF NewsFresh, Sound, Clean, Connected
    <3> QED
      BY <3>1, <3>2, <3>4, <3>6, <3>7, <3>8 DEF NewsFresh
  <2> QED
    BY <2>1, <2>2, <2>3
<1>21. CASE RunStops
  BY <1>21, QuietNews, HeldBatches
     DEF RunStops, Goto, DataTypes, Tasks, Refreshers, GateHeld, Refreshing, Showing,
         link, stream, out, locals
<1>22. CASE Connect
  <2>1. /\ wire' = <<>> /\ UNCHANGED <<now, buffer, batches, disposed>> /\ at["run"] = "down"
        /\ survivors' = (survivors \/ buffer # <<>>)
    BY <1>22, Zenon DEF Connect, stream, locals
  <2>2. batches["run"] = <<>> /\ <<>> \o <<>> = <<>>
    BY <2>1, HeldBatches, EmptyType, NothingBefore DEF Refreshers
  <2>3. Clean' => buffer = <<>>
    BY <2>1 DEF Clean
  <2>4. Sound' => batches["caller"] = <<>>
    <3>1. ~first => at'["run"] = "gate"
      BY <1>22 DEF Connect, Goto, DataTypes, Tasks
    <3>2. Sound' => at["caller"] \in {"start", "fail", "tell", "failed", "done"}
      BY <3>1 DEF Sound, FirstRefreshToCome
    <3> QED
      BY <3>2, HeldBatches DEF Refreshers
  <2> QED
    BY <2>1, <2>2, <2>3, <2>4, FreshEmpty DEF NewsFresh, Pending, Sound
<1>23. CASE LossSeen
  BY <1>23, QuietNews, HeldBatches
     DEF LossSeen, Goto, DataTypes, Tasks, Refreshers, GateHeld, Refreshing, Showing,
         link, stream, out, locals
<1>24. CASE ChannelEnded
  BY <1>24, QuietNews, HeldBatches
     DEF ChannelEnded, Goto, DataTypes, Tasks, Refreshers, GateHeld, Refreshing, Showing,
         link, stream, out, locals
<1>25. CASE Start
  BY <1>25, QuietNews, HeldBatches
     DEF Start, Goto, DataTypes, Tasks, Refreshers, GateHeld, Refreshing, Showing,
         link, stream, out, locals
<1>26. CASE Refused
  BY <1>26, QuietNews, HeldBatches
     DEF Refused, Goto, DataTypes, Tasks, Refreshers, GateHeld, Refreshing, Showing,
         link, stream, out, locals
<1>27. CASE StartTimedOut
  BY <1>27, QuietNews, HeldBatches
     DEF StartTimedOut, Goto, DataTypes, Tasks, Refreshers, GateHeld, Refreshing, Showing,
         link, stream, out, locals
<1>28. CASE Call
  BY <1>28, QuietNews, HeldBatches
     DEF Call, Goto, DataTypes, Tasks, Refreshers, GateHeld, Refreshing, Showing,
         link, stream, out, locals
<1>29. CASE Cancel
  BY <1>29, QuietNews, HeldBatches
     DEF Cancel, Goto, DataTypes, Tasks, Refreshers, GateHeld, Refreshing, Showing,
         link, stream, out, locals
<1>30. CASE Close
  BY <1>30, QuietNews, HeldBatches
     DEF Close, Goto, DataTypes, Tasks, Refreshers, GateHeld, Refreshing, Showing,
         link, stream, out, locals
<1>31. CASE Receive
  BY <1>31, QuietNews, HeldBatches
     DEF Receive, DataTypes, Tasks, Refreshers, GateHeld, Refreshing, Showing,
         link, stream, out, locals
<1>32. ASSUME NEW changed \in SUBSET Markets, Publish(changed) PROVE NewsFresh'
  <2>1. CASE ~up
    BY <1>32, <2>1, PublishStep, LostStep
  <2>2. CASE up
    <3>1. UNCHANGED <<up, survivors, disposed, gate, at>>
      BY <1>32, PublishStep, Zenon DEF stream
    <3>2. /\ wire \in Seq(Batch) /\ buffer \o wire \in Seq(Batch)
          /\ batches["run"] \o wire \in Seq(Batch) /\ Pending \in Seq(Batch)
      BY PendingType
    <3>3. Connected' => Fresh(now', wire')
      BY <1>32, <2>2, <3>1, <3>2, PendingPublished, PublishFresh DEF NewsFresh, Connected
    <3>4. Connected' /\ gate # "run" => Fresh(now', (batches["run"] \o wire)')
      BY <1>32, <2>2, <3>1, <3>2, PendingPublished, PublishFresh DEF NewsFresh, Connected
    <3>5. Clean' => Fresh(now', (buffer \o wire)')
      BY <1>32, <2>2, <3>1, <3>2, PendingPublished, PublishFresh DEF NewsFresh, Clean, Connected
    <3>6. Sound' => Fresh(now', Pending')
      BY <1>32, <2>2, <3>1, <3>2, PendingPublished, PublishFresh
         DEF NewsFresh, Sound, Clean, Connected
    <3> QED
      BY <3>1, <3>3, <3>4, <3>5, <3>6 DEF NewsFresh
  <2> QED
    BY <2>1, <2>2
<1>33. CASE ConnectionLost
  BY <1>33, LostStep DEF ConnectionLost
<1>34. CASE UNCHANGED vars
  BY <1>34, QuietNews DEF vars, link, stream, out, locals
<1> QED
  BY <1>1, <1>2, <1>3, <1>4, <1>5, <1>6, <1>7, <1>8, <1>9, <1>10, <1>11, <1>12, <1>13,
     <1>14, <1>15, <1>16, <1>17, <1>18, <1>19, <1>20, <1>21, <1>22, <1>23, <1>24, <1>25,
     <1>26, <1>27, <1>28, <1>29, <1>30, <1>31, <1>32, <1>33, <1>34
     DEF Next, Applies, Emits, Refreshes, FetchEnds, Closes, Pumps, Refreshers

\* The use of a batch taken from the buffer or the wire.
LEMMA SamePending ==
  ASSUME UNCHANGED <<now, rows>>, Pending' = Pending
  PROVE  \A m : RowKnown(m) <=> RowKnown(m)'
BY DEF RowKnown

\* A row stays known when a change is published.
LEMMA RowPublished ==
  ASSUME DataTypes, NEW changed \in SUBSET Markets, Publish(changed), up,
         NEW s \in Seq(Batch), NEW value, NEW m \in Markets, value = now[m] \/ Names(s, m)
  PROVE  value = now'[m] \/ Names(Append(s, [k \in changed |-> now'[k]]), m)
<1>1. now' = [k \in Markets |-> IF k \in changed THEN now[k] + 1 ELSE now[k]]
  BY PublishStep, Zenon
<1>2. [k \in changed |-> now'[k]] \in Batch
  BY PendingPublished
<1>3. Names(Append(s, [k \in changed |-> now'[k]]), m) <=> Names(s, m) \/ m \in changed
  BY <1>2, NamesAppend
<1> QED
  BY <1>1, <1>3

\* Every step keeps the rows known.
LEMMA RowsNext ==
  ASSUME DataTypes, GateHeld, FirstRefreshToCome, Queues, NewsFresh, RowsKnown, [Next]_vars
  PROVE  RowsKnown'
<1>1. ASSUME NEW t \in Refreshers, Clear(t) PROVE RowsKnown'
  <2>1. /\ rows' = Absent
        /\ UNCHANGED <<now, up, survivors, disposed, wire, buffer, batches, gate, snapshot>>
        /\ at[t] = "clear" /\ at' = [at EXCEPT ![t] = "rows"]
    BY <1>1 DEF Clear, Goto, link, stream, locals
  <2>2. gate = t /\ at'[t] = "rows" /\ \A o \in Refreshers : o # t => at'[o] \notin Refreshing
    BY <2>1, Alone DEF GateHeld, DataTypes, Tasks, Refreshers, Refreshing
  <2>3. ~RowsInUse'
    BY <2>1, <2>2 DEF RowsInUse, Showing, Refreshers
  <2>4. \A m \in Markets \ Listed : RowKnown(m)'
    BY <2>1 DEF RowKnown, Absent
  <2>5. Sound' => Sound
    BY <2>1 DEF Sound, Clean, Connected, DataTypes, Tasks, Refreshers
  <2> QED
    BY <2>1, <2>2, <2>3, <2>4, <2>5 DEF RowsKnown, Refreshing
<1>2. ASSUME NEW t \in Refreshers, ApplySnapshot(t) PROVE RowsKnown'
  <2>1. /\ rows' = Merge([m \in Listed |-> snapshot[t][m]])
        /\ UNCHANGED <<now, up, survivors, disposed, wire, buffer, batches, gate>>
        /\ at[t] = "rows" /\ at' = [at EXCEPT ![t] = "apply"]
    BY <1>2 DEF ApplySnapshot, Goto, link, stream
  <2>2. gate = t /\ at'[t] = "apply" /\ \A o \in Refreshers : o # t => at'[o] \notin Refreshing
    BY <2>1, Alone DEF GateHeld, DataTypes, Tasks, Refreshers, Refreshing
  <2>3. Sound' => Sound
    BY <2>1 DEF Sound, Clean, Connected, DataTypes, Tasks, Refreshers
  <2>4. Pending' = Pending
    BY <2>1 DEF Pending
  <2>5. ASSUME Sound', NEW m \in Markets PROVE RowKnown(m)'
    <3>1. CASE m \in Listed
      <4>1. rows'[m] = snapshot[t][m]
        BY <2>1, <3>1 DEF Merge
      <4>2. snapshot[t][m] = now[m] \/ Names(batches[t] \o (buffer \o wire), m)
        BY <2>1, <2>3, <2>5 DEF RowsKnown
      <4>3. snapshot[t][m] = now[m] \/ Names(Pending, m)
        BY <2>2, <4>2, HeldIsPending
      <4> QED
        BY <2>1, <2>4, <4>1, <4>3 DEF RowKnown
    <3>2. CASE m \notin Listed
      <4>1. rows'[m] = rows[m]
        BY <2>1, <3>2 DEF Merge
      <4>2. RowKnown(m)
        BY <2>1, <2>3, <2>5, <3>2 DEF RowsKnown
      <4> QED
        BY <2>1, <2>4, <4>1, <4>2 DEF RowKnown
    <3> QED
      BY <3>1, <3>2
  <2> QED
    BY <2>2, <2>5 DEF RowsKnown, Refreshing
<1>3. ASSUME NEW t \in Refreshers, ApplyBatch(t) PROVE RowsKnown'
  <2>1. CASE disposed
    BY <1>3, <2>1, EndedStep DEF ApplyBatch, stream
  <2>2. CASE ~disposed
    <3>1. /\ UNCHANGED <<now, up, survivors, disposed, wire, buffer, gate, at, buffering, snapshot>>
          /\ at[t] = "apply" /\ batches' = [batches EXCEPT ![t] = Tail(batches[t])]
      BY <1>3, Zenon DEF ApplyBatch, link, stream
    <3>2. (Sound' <=> Sound) /\ (RowsInUse' <=> RowsInUse)
      BY <3>1 DEF Sound, Clean, Connected, RowsInUse
    <3>3. Sound => \A m \in Markets : RowKnown(m) => RowKnown(m)'
      BY <1>3, <2>2, RowApplied DEF NewsFresh
    <3>4. \A o \in Refreshers : at'[o] \in {"take", "clear", "rows"} => batches'[o] = batches[o]
      BY <3>1 DEF DataTypes, Tasks, Refreshers
    <3>5. Sound' /\ RowsInUse' => \A m \in Markets : RowKnown(m)'
      BY <3>2, <3>3 DEF RowsKnown
    <3>6. \A o \in Refreshers : Sound' /\ at'[o] = "rows" =>
            \A m \in Markets \ Listed : RowKnown(m)'
      BY <3>1, <3>2, <3>3 DEF RowsKnown
    <3>7. \A o \in Refreshers : Sound' /\ at'[o] \in {"take", "clear", "rows"} =>
            \A m \in Markets :
              snapshot'[o][m] = now'[m] \/ Names(batches'[o] \o (buffer' \o wire'), m)
      BY <3>1, <3>2, <3>4 DEF RowsKnown
    <3> QED
      BY <3>5, <3>6, <3>7, Zenon DEF RowsKnown
  <2> QED
    BY <2>1, <2>2
<1>4. ASSUME NEW t \in Refreshers, Applied(t) PROVE RowsKnown'
  BY <1>4, QuietRows
     DEF Applied, Goto, Show, DataTypes, Tasks, Refreshers, GateHeld, Queues, Refreshing, Showing,
         RowsInUse, link, stream, out, locals
<1>5. ASSUME NEW t \in Refreshers, Clone(t) PROVE RowsKnown'
  BY <1>5, QuietRows
     DEF Clone, Goto, Resume, DataTypes, Tasks, Refreshers, GateHeld, Queues, Refreshing, Showing,
         RowsInUse, link, stream, out, locals
<1>6. ASSUME NEW t \in Refreshers, Send(t) PROVE RowsKnown'
  BY <1>6, QuietRows
     DEF Send, Goto, Resume, DataTypes, Tasks, Refreshers, GateHeld, Queues, Refreshing, Showing,
         RowsInUse, link, stream, out, locals
<1>7. ASSUME NEW t \in Refreshers, Full(t) PROVE RowsKnown'
  BY <1>7, QuietRows
     DEF Full, Goto, DataTypes, Tasks, Refreshers, GateHeld, Queues, Refreshing, Showing,
         RowsInUse, link, stream, out, locals
<1>8. ASSUME NEW t \in Refreshers, Fail(t) PROVE RowsKnown'
  BY <1>8, EndedStep DEF Fail, Dispose
<1>9. ASSUME NEW t \in Refreshers, Tell(t) PROVE RowsKnown'
  BY <1>9, QuietRows
     DEF Tell, Goto, Resume, DataTypes, Tasks, Refreshers, GateHeld, Queues, Refreshing, Showing,
         RowsInUse, link, stream, out, locals
<1>10. ASSUME NEW t \in Refreshers, Begin(t) PROVE RowsKnown'
  <2>1. CASE disposed
    BY <1>10, <2>1, EndedStep DEF Begin
  <2>2. CASE ~disposed
    <3>1. gate' = t /\ gate = "free" /\ at' = [at EXCEPT ![t] = "fetch"]
      BY <1>10, <2>2, Zenon DEF Begin, Goto
    <3>2. \A o \in Refreshers : at'[o] \notin {"take", "clear", "rows"}
      BY <3>1 DEF GateHeld, Refreshing, DataTypes, Tasks, Refreshers
    <3>3. ~RowsInUse'
      BY <3>1 DEF RowsInUse, Showing, DataTypes, Tasks, Refreshers
    <3> QED
      BY <3>2, <3>3 DEF RowsKnown
  <2> QED
    BY <2>1, <2>2
<1>11. ASSUME NEW t \in Refreshers, FetchAnswered(t) PROVE RowsKnown'
  <2>1. /\ snapshot' = [snapshot EXCEPT ![t] = now] /\ now' = now
        /\ at[t] = "fetch" /\ at' = [at EXCEPT ![t] = "take"] /\ gate' = gate
    BY <1>11 DEF FetchAnswered, Goto, stream
  <2>2. gate = t /\ at'[t] = "take" /\ snapshot'[t] = now'
        /\ \A o \in Refreshers : o # t => at'[o] \notin Refreshing
    BY <2>1, Alone DEF GateHeld, DataTypes, Tasks, Refreshers, Refreshing
  <2>3. ~RowsInUse'
    BY <2>1, <2>2 DEF RowsInUse, Showing, Refreshers
  <2> QED
    BY <2>2, <2>3 DEF RowsKnown, Refreshing
<1>12. ASSUME NEW t \in Refreshers, FetchFails(t) PROVE RowsKnown'
  BY <1>12, QuietRows
     DEF FetchFails, Return, Goto, DataTypes, Tasks, Refreshers, GateHeld, Queues,
         Refreshing, Showing, RowsInUse, link, stream, out, locals
<1>13. ASSUME NEW t \in Refreshers, FetchStopped(t) PROVE RowsKnown'
  BY <1>13, EndedStep DEF FetchStopped, stream
<1>14. ASSUME NEW t \in Refreshers, TakeBuffered(t) PROVE RowsKnown'
  <2>1. CASE disposed
    BY <1>14, <2>1, EndedStep DEF TakeBuffered
  <2>2. CASE ~disposed
    <3>1. /\ UNCHANGED <<now, up, survivors, disposed, wire, gate, rows>> /\ buffer' = <<>>
          /\ batches' = [batches EXCEPT ![t] = buffer] /\ at[t] = "take"
          /\ at' = [at EXCEPT ![t] = "clear"] /\ snapshot' = snapshot
      BY <1>14, <2>2, Zenon DEF TakeBuffered, link, Goto
    <3>2. gate = t /\ at'[t] = "clear" /\ \A o \in Refreshers : o # t => at'[o] \notin Refreshing
      BY <3>1, Alone DEF GateHeld, DataTypes, Tasks, Refreshers, Refreshing
    <3>3. ~RowsInUse'
      BY <3>1, <3>2 DEF RowsInUse, Showing, Refreshers
    <3>4. Sound' => Sound
      BY <3>1 DEF Sound, Clean, Connected, DataTypes, Tasks, Refreshers
    <3>5. batches[t] = <<>>
      BY <3>1, HeldBatches
    <3>6. (batches[t] \o (buffer \o wire))' = batches[t] \o (buffer \o wire)
      BY <3>1, <3>2, <3>5, PendingTaken
    <3>7. Sound' => \A m \in Markets :
            snapshot'[t][m] = now'[m] \/ Names(batches'[t] \o (buffer' \o wire'), m)
      BY <3>1, <3>4, <3>6 DEF RowsKnown
    <3> QED
      BY <3>2, <3>3, <3>7 DEF RowsKnown, Refreshing
  <2> QED
    BY <2>1, <2>2
<1>15. ASSUME NEW t \in Refreshers, DrainOrReady(t) PROVE RowsKnown'
  <2>1. CASE disposed
    BY <1>15, <2>1, EndedStep DEF DrainOrReady
  <2>2. CASE ~disposed /\ Drained
    <3>1. /\ UNCHANGED <<now, up, survivors, disposed, wire, gate, batches, rows, snapshot>>
          /\ buffer' = buffer /\ at[t] = "drain" /\ at' = [at EXCEPT ![t] = "clearError"]
      BY <1>15, <2>2, Zenon DEF DrainOrReady, Drained, link, Goto
    <3>2. gate = t
      BY <3>1 DEF GateHeld, Refreshing
    <3> QED
      BY <3>1, <3>2, QuietRows DEF DataTypes, Tasks, Refreshers, RowsInUse
  <2>3. CASE ~disposed /\ ~Drained
    <3>1. /\ UNCHANGED <<now, up, survivors, disposed, wire, gate, rows>> /\ buffer' = <<>>
          /\ batches' = [batches EXCEPT ![t] = buffer] /\ at[t] = "drain"
          /\ at' = [at EXCEPT ![t] = "apply"]
      BY <1>15, <2>3, Zenon DEF DrainOrReady, link, Goto
    <3>2. gate = t /\ at'[t] = "apply" /\ \A o \in Refreshers : o # t => at'[o] \notin Refreshing
      BY <3>1, Alone DEF GateHeld, DataTypes, Tasks, Refreshers, Refreshing
    <3>3. Sound' => Sound /\ RowsInUse
      BY <3>1, <3>2 DEF Sound, Clean, Connected, DataTypes, Tasks, Refreshers, RowsInUse
    <3>4. batches[t] = <<>>
      BY <3>1, HeldBatches
    <3>5. Pending' = Pending
      BY <3>1, <3>2, <3>4, PendingTaken
    <3>6. Sound' => \A m \in Markets : RowKnown(m)'
      BY <3>1, <3>3, <3>5, SamePending DEF RowsKnown
    <3> QED
      BY <3>2, <3>6 DEF RowsKnown, Refreshing
  <2> QED
    BY <2>1, <2>2, <2>3
<1>16. ASSUME NEW t \in Refreshers, ClearError(t) PROVE RowsKnown'
  BY <1>16, QuietRows
     DEF ClearError, Return, Goto, DataTypes, Tasks, Refreshers, GateHeld, Queues,
         Refreshing, Showing, RowsInUse, link, stream, out, locals
<1>17. CASE CloseSlot
  BY <1>17, QuietRows
     DEF CloseSlot, Goto, DataTypes, Tasks, Refreshers, GateHeld, Queues, Refreshing, Showing,
         RowsInUse, link, stream, out, locals
<1>18. CASE CloseStream
  BY <1>18, EndedStep DEF CloseStream, Dispose
<1>19. CASE StartFailed
  BY <1>19, EndedStep DEF StartFailed, Dispose
<1>20. CASE Handle
  <2>1. CASE disposed
    BY <1>20, <2>1, EndedStep DEF Handle
  <2>2. CASE at'["run"] = "fail"
    BY <2>2 DEF RowsKnown, Sound
  <2>3. CASE ~disposed /\ at'["run"] # "fail"
    <3>1. /\ UNCHANGED <<now, up, survivors, disposed, gate, buffering, rows, snapshot>>
          /\ at["run"] = "pump" /\ (at' = at \/ at' = [at EXCEPT !["run"] = "apply"])
          /\ batches' = batches \/ batches' = [batches EXCEPT !["run"] = <<Head(wire)>>]
      BY <1>20, <2>3 DEF Handle, Goto, DataTypes, Tasks
    <3>2. /\ Pending' = Pending
          /\ ~buffering \/ (batches' = batches /\ (buffer \o wire)' = buffer \o wire)
      BY <1>20, <2>3, PendingHandled
    <3>3. /\ gate # "run" /\ at'["run"] \notin {"rows", "take", "clear"}
          /\ at'["caller"] = at["caller"]
      BY <3>1 DEF GateHeld, Refreshing, Showing, DataTypes, Tasks, Refreshers
    <3>4. (Sound' => Sound) /\ (RowsInUse' => RowsInUse)
      BY <3>1, <3>3 DEF Sound, Clean, Connected, RowsInUse, Refreshers
    <3>5. at'["caller"] \in {"take", "clear", "rows"} => buffering
      BY <2>3, <3>3 DEF GateHeld, Queues, Refreshing, Refreshers
    <3>6. Sound' /\ RowsInUse' => \A m \in Markets : RowKnown(m)'
      BY <3>1, <3>2, <3>4, SamePending DEF RowsKnown
    <3>7. \A o \in Refreshers : Sound' /\ at'[o] = "rows" =>
            \A m \in Markets \ Listed : RowKnown(m)'
      BY <3>1, <3>2, <3>3, <3>4, SamePending DEF RowsKnown, Refreshers
    <3>8. \A o \in Refreshers : Sound' /\ at'[o] \in {"take", "clear", "rows"} =>
            \A m \in Markets :
              snapshot'[o][m] = now'[m] \/ Names(batches'[o] \o (buffer' \o wire'), m)
      BY <3>1, <3>2, <3>3, <3>4, <3>5 DEF RowsKnown, Refreshers
    <3> QED
      BY <3>6, <3>7, <3>8, Zenon DEF RowsKnown
  <2> QED
    BY <2>1, <2>2, <2>3
<1>21. CASE RunStops
  BY <1>21, QuietRows
     DEF RunStops, Goto, DataTypes, Tasks, Refreshers, GateHeld, Queues, Refreshing, Showing,
         RowsInUse, link, stream, out, locals
<1>22. CASE Connect
  <2>1. CASE ~first
    <3>1. at'["run"] = "gate"
      BY <1>22, <2>1 DEF Connect, Goto, DataTypes, Tasks
    <3> QED
      BY <3>1 DEF RowsKnown, Sound
  <2>2. CASE first
    <3>1. at' = [at EXCEPT !["run"] = "pump"] /\ at["run"] = "down" /\ UNCHANGED <<gate, buffering>>
      BY <1>22, <2>2 DEF Connect, Goto, stream
    <3>2. gate = "free" /\ buffering
      BY <2>2, <3>1 DEF FirstRefreshToCome, GateHeld, Refreshing, Showing, DataTypes, Refreshers
    <3>3. ~RowsInUse'
      BY <3>1, <3>2 DEF RowsInUse, Refreshers
    <3>4. \A o \in Refreshers : at'[o] \notin {"take", "clear", "rows"}
      BY <2>2, <3>1 DEF FirstRefreshToCome, DataTypes, Tasks, Refreshers
    <3> QED
      BY <3>3, <3>4 DEF RowsKnown
  <2> QED
    BY <2>1, <2>2
<1>23. CASE LossSeen
  BY <1>23, QuietRows
     DEF LossSeen, Goto, DataTypes, Tasks, Refreshers, GateHeld, Queues, Refreshing, Showing,
         RowsInUse, link, stream, out, locals
<1>24. CASE ChannelEnded
  BY <1>24, QuietRows
     DEF ChannelEnded, Goto, DataTypes, Tasks, Refreshers, GateHeld, Queues, Refreshing, Showing,
         RowsInUse, link, stream, out, locals
<1>25. CASE Start
  BY <1>25, QuietRows
     DEF Start, Goto, DataTypes, Tasks, Refreshers, GateHeld, Queues, Refreshing, Showing,
         RowsInUse, link, stream, out, locals
<1>26. CASE Refused
  BY <1>26, QuietRows
     DEF Refused, Goto, DataTypes, Tasks, Refreshers, GateHeld, Queues, Refreshing, Showing,
         RowsInUse, link, stream, out, locals
<1>27. CASE StartTimedOut
  BY <1>27, QuietRows
     DEF StartTimedOut, Goto, DataTypes, Tasks, Refreshers, GateHeld, Queues, Refreshing, Showing,
         RowsInUse, link, stream, out, locals
<1>28. CASE Call
  BY <1>28, QuietRows
     DEF Call, Goto, DataTypes, Tasks, Refreshers, GateHeld, Queues, Refreshing, Showing,
         RowsInUse, link, stream, out, locals
<1>29. CASE Cancel
  BY <1>29, QuietRows
     DEF Cancel, Goto, DataTypes, Tasks, Refreshers, GateHeld, Queues, Refreshing, Showing,
         RowsInUse, link, stream, out, locals
<1>30. CASE Close
  BY <1>30, QuietRows
     DEF Close, Goto, DataTypes, Tasks, Refreshers, GateHeld, Queues, Refreshing, Showing,
         RowsInUse, link, stream, out, locals
<1>31. CASE Receive
  BY <1>31, QuietRows
     DEF Receive, DataTypes, Tasks, Refreshers, GateHeld, Queues, Refreshing, Showing,
         RowsInUse, link, stream, out, locals
<1>32. ASSUME NEW changed \in SUBSET Markets, Publish(changed) PROVE RowsKnown'
  <2>1. CASE ~up
    BY <1>32, <2>1, PublishStep, LostStep
  <2>2. CASE up
    <3> DEFINE news == [k \in changed |-> now'[k]]
    <3>1. UNCHANGED <<up, survivors, disposed, gate, at, buffering, rows, snapshot>>
      BY <1>32, PublishStep, Zenon DEF stream, locals
    <3>2. /\ Pending' = Append(Pending, news) /\ Pending \in Seq(Batch)
          /\ \A o \in Refreshers : /\ batches[o] \o (buffer \o wire) \in Seq(Batch)
                                   /\ (batches[o] \o (buffer \o wire))' =
                                        Append(batches[o] \o (buffer \o wire), news)
      <4>1. \A o \in Refreshers : batches[o] \o (buffer \o wire) \in Seq(Batch)
        BY PendingType, ConcatProperties DEF Refreshers
      <4> QED
        BY <1>32, <2>2, <4>1, PendingPublished, PendingType
    <3>3. (Sound' <=> Sound) /\ (RowsInUse' <=> RowsInUse)
      BY <3>1 DEF Sound, Clean, Connected, RowsInUse
    <3>4. \A s \in Seq(Batch) : \A value : \A m \in Markets :
            value = now[m] \/ Names(s, m) => value = now'[m] \/ Names(Append(s, news), m)
      BY <1>32, <2>2, RowPublished
    <3> HIDE DEF news
    <3>5. ASSUME NEW m \in Markets, RowKnown(m) PROVE RowKnown(m)'
      BY <3>1, <3>2, <3>4, <3>5 DEF RowKnown
    <3>6. Sound' /\ RowsInUse' => \A m \in Markets : RowKnown(m)'
      BY <3>3, <3>5 DEF RowsKnown
    <3>7. \A o \in Refreshers : Sound' /\ at'[o] = "rows" =>
            \A m \in Markets \ Listed : RowKnown(m)'
      BY <3>1, <3>3, <3>5 DEF RowsKnown
    <3>8. ASSUME NEW o \in Refreshers, Sound', at'[o] \in {"take", "clear", "rows"},
                 NEW m \in Markets
          PROVE  snapshot'[o][m] = now'[m] \/ Names(batches'[o] \o (buffer' \o wire'), m)
      <4>1. snapshot[o][m] = now[m] \/ Names(batches[o] \o (buffer \o wire), m)
        BY <3>1, <3>3, <3>8 DEF RowsKnown
      <4>2. snapshot[o][m] = now'[m] \/ Names(Append(batches[o] \o (buffer \o wire), news), m)
        BY <3>2, <3>4, <4>1
      <4> QED
        BY <3>1, <3>2, <4>2
    <3> QED
      BY <3>6, <3>7, <3>8, Zenon DEF RowsKnown
  <2> QED
    BY <2>1, <2>2
<1>33. CASE ConnectionLost
  BY <1>33, LostStep DEF ConnectionLost
<1>34. CASE UNCHANGED vars
  BY <1>34, QuietRows DEF vars, link, stream, out, locals, RowsInUse
<1> QED
  BY <1>1, <1>2, <1>3, <1>4, <1>5, <1>6, <1>7, <1>8, <1>9, <1>10, <1>11, <1>12, <1>13,
     <1>14, <1>15, <1>16, <1>17, <1>18, <1>19, <1>20, <1>21, <1>22, <1>23, <1>24, <1>25,
     <1>26, <1>27, <1>28, <1>29, <1>30, <1>31, <1>32, <1>33, <1>34
     DEF Next, Applies, Emits, Refreshes, FetchEnds, Closes, Pumps, Refreshers

-----------------------------------------------------------------------------
(* The theorems *)

\* The types hold in every behaviour.
THEOREM OverviewTypes == Spec => []TypeOK
<1>1. Init => TypeOK
  <2> SUFFICES ASSUME Init PROVE TypeOK
    OBVIOUS
  <2>1. DataTypes
    BY EmptyType DEF Init, DataTypes, Absent, Tasks, Labels
  <2>2. FlagTypes
    BY Zenon DEF Init, FlagTypes
  <2>3. CountTypes
    BY OverviewAssumption DEF Init, CountTypes
  <2> QED
    BY <2>1, <2>2, <2>3 DEF TypeOK
<1>2. TypeOK /\ [Next]_vars => TypeOK'
  BY DataNext, FlagNext, CountNext DEF TypeOK
<1> QED
  BY <1>1, <1>2, PTL DEF Spec

\* The inductive invariant holds in every behaviour.
LEMMA Inductive == Spec => []IInv
<1>1. Init => IInv
  <2> SUFFICES ASSUME Init PROVE IInv
    OBVIOUS
  <2>1. DataTypes
    BY EmptyType DEF Init, DataTypes, Absent, Tasks, Labels
  <2>2. GateHeld
    BY DEF Init, GateHeld, Tasks, Refreshers, Refreshing, Showing
  <2>3. FirstRefreshToCome
    BY DEF Init, FirstRefreshToCome, Tasks
  <2>4. Queues
    BY DEF Init, Queues, Tasks, Refreshers
  <2>5. NewsFresh /\ RowsKnown
    BY DEF Init, NewsFresh, RowsKnown, Connected, Clean, Sound
  <2> QED
    BY <2>1, <2>2, <2>3, <2>4, <2>5 DEF IInv
<1>2. IInv /\ [Next]_vars => IInv'
  <2> SUFFICES ASSUME IInv, [Next]_vars PROVE IInv'
    OBVIOUS
  <2> QED
    BY DataNext, GateNext, FirstNext, QueuesNext, NewsNext, RowsNext DEF IInv
<1> QED
  BY <1>1, <1>2, PTL DEF Spec

\* An overview that has caught up shows every listed market as it is, and no
\* market as it was, however batches, refreshes and reconnects follow each other.
THEOREM ConvergenceTheorem == Spec => []RowsConverge
<1>1. IInv => RowsConverge
  <2> SUFFICES ASSUME IInv, CaughtUp, ~survivors, NEW m \in Markets
               PROVE  rows[m] = now[m] \/ (m \notin Listed /\ rows[m] = 0)
    BY DEF RowsConverge
  <2>1. Sound /\ RowsInUse
    BY DEF CaughtUp, Sound, Clean, Connected, RowsInUse
  <2>2. RowKnown(m)
    BY <2>1 DEF IInv, RowsKnown
  <2>3. batches["run"] = <<>> /\ batches["caller"] = <<>> /\ buffer = <<>> /\ wire = <<>>
    BY HeldBatches DEF IInv, CaughtUp, Refreshers
  <2>4. Pending = <<>>
    BY <2>3, EmptyType, NothingBefore DEF Pending
  <2> QED
    BY <2>2, <2>4, NamesEmpty DEF RowKnown
<1> QED
  BY <1>1, Inductive, PTL
=============================================================================
