--------------------------- MODULE MarketOverview ---------------------------
(***************************************************************************)
(* The managed market overview (create_subscription of the market overview *)
(* service in src/services/market_data.rs, src/marketoverview) on top of   *)
(* the coordinator: rows without a sequence number, merged from snapshots  *)
(* and batches by the task that pumps the subscription and by whoever      *)
(* refreshes.                                                              *)
(*                                                                         *)
(* A row is the number of its market's changes, 0 when there is none.      *)
(* Markets are those the subscription's filter keeps; a snapshot lists no  *)
(* more of them than its limit.  No callback here requests a refresh, so   *)
(* refreshes follow each other under the gate and only the end of the      *)
(* stream supersedes one: the coordinator's generation is `disposed`.      *)
(***************************************************************************)
EXTENDS Naturals, Sequences, FiniteSetsExt

CONSTANTS
  Markets,
  Listed,       \* the markets within the limit of a snapshot
  QueueSize,    \* the consumer's queue
  MaxBuffered,
  MaxChanges,   \* bound: changes of markets
  MaxWire,      \* bound: batches received and not pumped
  MaxLosses,    \* bound: connections lost
  MaxCalls      \* bound: calls of refresh_snapshot after start

ASSUME OverviewAssumption ==
  /\ Listed \subseteq Markets
  /\ QueueSize \in Nat \ {0} /\ MaxBuffered \in Nat
  /\ MaxChanges \in Nat \ {0} /\ MaxWire \in Nat /\ MaxLosses \in Nat /\ MaxCalls \in Nat

Tasks == {"run", "caller", "closer"}

VARIABLES
  now,                               \* the server's rows
  up, wire, losses,                  \* the connection and what it received
  survivors,                         \* history: see RowsConverge
  rows,                              \* by_symbol_id
  gate, buffering, buffer, disposed, streamError,  \* the coordinator
  queued, sender, closed, lastError, \* the subscription: views in its queue, tx_slot
  at, then, batches, snapshot,       \* each task's place and locals
  first, starting, tries, calls      \* of run, of start, of the application

link == <<up, wire, losses, survivors>>
stream == <<gate, buffering, buffer, disposed, streamError>>
out == <<queued, sender, closed, lastError>>
locals == <<batches, snapshot>>
counts == <<first, starting, tries, calls>>
vars == <<now, link, rows, stream, out, at, then, locals, counts>>

Absent == [m \in Markets |-> 0]

Init ==
  /\ now = [m \in Markets |-> 1]
  /\ up = FALSE /\ wire = <<>> /\ losses = 0 /\ survivors = FALSE
  /\ rows = Absent
  /\ gate = "free" /\ buffering = TRUE /\ buffer = <<>>
  /\ disposed = FALSE /\ streamError = FALSE
  /\ queued = 0 /\ sender = TRUE /\ closed = FALSE /\ lastError = "none"
  /\ at = [t \in Tasks |-> CASE t = "run" -> "down" [] t = "caller" -> "start" [] OTHER -> "idle"]
  /\ then = [t \in Tasks |-> "idle"]
  /\ batches = [t \in Tasks |-> <<>>]
  /\ snapshot = [t \in Tasks |-> Absent]
  /\ first = TRUE /\ starting = TRUE /\ tries = 0 /\ calls = 0

Goto(t, label) == at' = [at EXCEPT ![t] = label]

Resume(t) == Goto(t, then[t]) /\ then' = [then EXCEPT ![t] = "idle"]

-----------------------------------------------------------------------------
(* The rows and who is shown them *)

\* apply_rows
Merge(batch) == [m \in Markets |-> IF m \in DOMAIN batch THEN batch[m] ELSE rows[m]]

\* emit() is called, and the task goes on at `label`.
Show(t, label) == Goto(t, "emit") /\ then' = [then EXCEPT ![t] = label]

\* apply_snapshot clears the rows, takes the snapshot's, then the batches':
\* each under a lock of its own.
Clear(t) ==
  /\ at[t] = "clear"
  /\ rows' = Absent
  /\ Goto(t, "rows")
  /\ UNCHANGED <<now, link, stream, out, then, locals, counts>>

ApplySnapshot(t) ==
  /\ at[t] = "rows"
  /\ rows' = Merge([m \in Listed |-> snapshot[t][m]])
  /\ snapshot' = [snapshot EXCEPT ![t] = Absent]
  /\ Goto(t, "apply")
  /\ UNCHANGED <<now, link, stream, out, then, batches, counts>>

ApplyBatch(t) ==
  /\ at[t] = "apply" /\ batches[t] # <<>>
  /\ rows' = Merge(Head(batches[t]))
  /\ batches' = [batches EXCEPT ![t] = Tail(@)]
  /\ UNCHANGED <<now, link, stream, out, at, then, snapshot, counts>>

Applied(t) ==
  /\ at[t] = "apply" /\ batches[t] = <<>>
  /\ Show(t, IF gate = t THEN "drain" ELSE "pump")
  /\ UNCHANGED <<now, link, rows, stream, out, locals, counts>>

\* emit() has nothing to do for a subscription that is closed; what it shows
\* is not modelled beyond the place it takes in the queue.
Clone(t) ==
  /\ at[t] = "emit"
  /\ \/ closed /\ Resume(t)
     \/ ~closed /\ Goto(t, "send") /\ UNCHANGED then
  /\ UNCHANGED <<now, link, rows, stream, out, locals, counts>>

\* try_enqueue on the sender in its slot.
Send(t) ==
  /\ at[t] = "send"
  /\ \/ /\ ~sender \/ (closed /\ lastError # "overflow")
        /\ Resume(t)
        /\ UNCHANGED <<queued, closed, lastError>>
     \/ /\ sender /\ closed /\ lastError = "overflow"
        /\ Goto(t, "full")
        /\ UNCHANGED <<queued, closed, lastError, then>>
     \/ /\ sender /\ ~closed /\ queued < QueueSize
        /\ queued' = queued + 1
        /\ Resume(t)
        /\ UNCHANGED <<closed, lastError>>
     \/ /\ sender /\ ~closed /\ queued = QueueSize
        /\ closed' = TRUE /\ lastError' = "overflow"
        /\ Goto(t, "full")
        /\ UNCHANGED <<queued, then>>
  /\ UNCHANGED <<now, link, rows, stream, sender, locals, counts>>

Full(t) ==
  /\ at[t] = "full"
  /\ sender' = FALSE
  /\ Goto(t, "fail")
  /\ UNCHANGED <<now, link, rows, stream, queued, closed, lastError, then, locals, counts>>

-----------------------------------------------------------------------------
(* The end of the stream *)

\* What ends the stream clears the gate.
Dispose == disposed' = TRUE /\ buffering' = TRUE /\ buffer' = <<>>

\* fail_closed and stop_after_recorded_error, up to the terminal callback.
Fail(t) ==
  /\ at[t] = "fail"
  /\ Dispose
  /\ Goto(t, "tell")
  /\ UNCHANGED <<now, link, rows, gate, streamError, out, then, locals, counts>>

\* MUTANT: the terminal callback leaves the sender in its slot.
MutantTell(t) ==
  /\ at[t] = "tell"
  /\ streamError' = TRUE
  /\ closed' = TRUE
  /\ Resume(t)
  /\ UNCHANGED <<now, link, rows, gate, buffering, buffer, disposed, sender, queued, lastError,
                 locals, counts>>

\* The error is recorded and the terminal callback ends the channel.
Tell(t) ==
  /\ at[t] = "tell"
  /\ streamError' = TRUE
  /\ closed' = TRUE /\ sender' = FALSE
  /\ Resume(t)
  /\ UNCHANGED <<now, link, rows, gate, buffering, buffer, disposed, queued, lastError,
                 locals, counts>>

\* Subscription::close, by the application or by create_subscription.
Close ==
  /\ at["closer"] = "idle" /\ ~starting
  /\ closed' = TRUE
  /\ Goto("closer", "slot")
  /\ UNCHANGED <<now, link, rows, stream, queued, sender, lastError, then, locals, counts>>

CloseSlot ==
  /\ at["closer"] = "slot"
  /\ sender' = FALSE
  /\ Goto("closer", "stream")
  /\ UNCHANGED <<now, link, rows, stream, queued, closed, lastError, then, locals, counts>>

CloseStream ==
  /\ at["closer"] = "stream"
  /\ IF disposed THEN UNCHANGED <<disposed, buffering, buffer>> ELSE Dispose
  /\ Goto("closer", "done")
  /\ UNCHANGED <<now, link, rows, gate, streamError, out, then, locals, counts>>

-----------------------------------------------------------------------------
(* refresh_snapshot, by run after a reconnect, by start and by a caller *)

\* A refresh returns; run goes on, tries once more or gives up.
Return(t, ok) ==
  /\ gate' = "free"
  /\ \/ /\ t = "run"
        /\ \/ ok /\ Goto(t, "pump") /\ UNCHANGED <<then, tries>>
           \/ ~ok /\ tries = 0 /\ Goto(t, "gate") /\ tries' = 1 /\ UNCHANGED then
           \/ ~ok /\ tries = 1 /\ Goto(t, "fail") /\ then' = [then EXCEPT ![t] = "done"]
              /\ UNCHANGED tries
        /\ UNCHANGED starting
     \/ /\ t = "caller"
        /\ Goto(t, IF starting /\ ~ok THEN "failed" ELSE "idle")
        /\ starting' = (starting /\ ~ok)
        /\ UNCHANGED <<then, tries>>
  /\ UNCHANGED <<first, calls>>

\* Under the gate: a stream that ended has nothing to refresh, any other one
\* buffers from here on.
Begin(t) ==
  /\ at[t] = "gate" /\ gate = "free"
  /\ \/ /\ disposed
        /\ Return(t, ~streamError)
        /\ UNCHANGED <<buffering, survivors>>
     \/ /\ ~disposed
        /\ gate' = t
        /\ buffering' = TRUE
        /\ survivors' = (survivors /\ buffer # <<>>)
        /\ Goto(t, "fetch")
        /\ UNCHANGED <<then, counts>>
  /\ UNCHANGED <<now, up, wire, losses, rows, buffer, disposed, streamError, out, locals>>

FetchAnswered(t) ==
  /\ at[t] = "fetch"
  /\ snapshot' = [snapshot EXCEPT ![t] = now]
  /\ Goto(t, "take")
  /\ UNCHANGED <<now, link, rows, stream, out, then, batches, counts>>

FetchFails(t) ==
  /\ at[t] = "fetch"
  /\ streamError' = TRUE
  /\ Return(t, FALSE)
  /\ UNCHANGED <<now, link, rows, buffering, buffer, disposed, out, locals>>

\* The stop signal ends the wait for the snapshot.
FetchStopped(t) ==
  /\ at[t] = "fetch" /\ disposed
  /\ Return(t, TRUE)
  /\ UNCHANGED <<now, link, rows, buffering, buffer, disposed, streamError, out, locals>>

TakeBuffered(t) ==
  /\ at[t] = "take"
  /\ \/ /\ disposed
        /\ Return(t, TRUE)
        /\ snapshot' = [snapshot EXCEPT ![t] = Absent]
        /\ UNCHANGED <<buffer, batches>>
     \/ /\ ~disposed
        /\ batches' = [batches EXCEPT ![t] = buffer]
        /\ buffer' = <<>>
        /\ Goto(t, "clear")
        /\ UNCHANGED <<gate, then, counts, snapshot>>
  /\ UNCHANGED <<now, link, rows, buffering, disposed, streamError, out>>

\* MUTANT: batches that came while the snapshot was applied are not drained.
MutantDrained == TRUE

\* Nothing was buffered while the last batches were applied.
Drained == buffer = <<>>

DrainOrReady(t) ==
  /\ at[t] = "drain"
  /\ \/ /\ disposed
        /\ Return(t, TRUE)
        /\ UNCHANGED <<buffering, buffer, batches>>
     \/ /\ ~disposed /\ Drained
        /\ buffering' = FALSE /\ buffer' = <<>>
        /\ Goto(t, "clearError")
        /\ UNCHANGED <<gate, then, counts, batches>>
     \/ /\ ~disposed /\ ~Drained
        /\ batches' = [batches EXCEPT ![t] = buffer]
        /\ buffer' = <<>>
        /\ Goto(t, "apply")
        /\ UNCHANGED <<buffering, gate, then, counts>>
  /\ UNCHANGED <<now, link, rows, disposed, streamError, out, snapshot>>

ClearError(t) ==
  /\ at[t] = "clearError"
  /\ streamError' = FALSE
  /\ Return(t, TRUE)
  /\ UNCHANGED <<now, link, rows, buffering, buffer, disposed, out, locals>>

-----------------------------------------------------------------------------
(* The pump and the connection *)

\* Run connects: the first connection is start's to refresh, each later one
\* is run's.
Connect ==
  /\ at["run"] = "down" /\ ~disposed
  /\ up' = TRUE /\ wire' = <<>> /\ survivors' = (survivors \/ buffer # <<>>)
  /\ Goto("run", IF first THEN "pump" ELSE "gate")
  /\ first' = FALSE /\ tries' = 0
  /\ UNCHANGED <<now, losses, rows, stream, out, then, locals, starting, calls>>

\* handle_publication
Handle ==
  /\ at["run"] = "pump" /\ wire # <<>>
  /\ wire' = Tail(wire)
  /\ \/ /\ disposed
        /\ UNCHANGED <<at, then, buffer, batches>>
     \/ /\ ~disposed /\ ~buffering
        /\ batches' = [batches EXCEPT !["run"] = <<Head(wire)>>]
        /\ Goto("run", "apply")
        /\ UNCHANGED <<then, buffer>>
     \/ /\ ~disposed /\ buffering /\ Len(buffer) < MaxBuffered
        /\ buffer' = Append(buffer, Head(wire))
        /\ UNCHANGED <<at, then, batches>>
     \/ /\ ~disposed /\ buffering /\ Len(buffer) >= MaxBuffered
        /\ buffer' = <<>>
        /\ Goto("run", "fail") /\ then' = [then EXCEPT !["run"] = "pump"]
        /\ UNCHANGED batches
  /\ UNCHANGED <<now, up, losses, survivors, rows, gate, buffering, disposed, streamError, out,
                 snapshot, counts>>

\* What was received is pumped before the loss shows and is recorded.
LossSeen ==
  /\ at["run"] = "pump" /\ wire = <<>> /\ ~up
  /\ streamError' = (streamError \/ ~disposed)
  /\ Goto("run", "down")
  /\ UNCHANGED <<now, link, rows, gate, buffering, buffer, disposed, out, then, locals, counts>>

\* The server ended the channel: reconnecting cannot repair it.
ChannelEnded ==
  /\ at["run"] = "pump" /\ up /\ wire = <<>> /\ ~disposed
  /\ Goto("run", "fail") /\ then' = [then EXCEPT !["run"] = "done"]
  /\ UNCHANGED <<now, link, rows, stream, out, locals, counts>>

RunStops ==
  /\ at["run"] \in {"pump", "down"} /\ disposed
  /\ Goto("run", "done")
  /\ UNCHANGED <<now, link, rows, stream, out, then, locals, counts>>

-----------------------------------------------------------------------------
(* The application and the exchange *)

\* start refreshes once the first connection stands.
Start ==
  /\ at["caller"] = "start" /\ ~first
  /\ Goto("caller", "gate")
  /\ UNCHANGED <<now, link, rows, stream, out, then, locals, counts>>

\* The first connection is refused, and start with it.
Refused ==
  /\ at["caller"] = "start" /\ first
  /\ Goto("caller", "failed")
  /\ UNCHANGED <<now, link, rows, stream, out, then, locals, counts>>

\* The deadline drops start's future where it waits, and ends the stream.
StartTimedOut ==
  /\ at["caller"] \in {"start", "gate", "fetch"} /\ starting
  /\ gate' = IF gate = "caller" THEN "free" ELSE gate
  /\ Goto("caller", "fail") /\ then' = [then EXCEPT !["caller"] = "failed"]
  /\ UNCHANGED <<now, link, rows, buffering, buffer, disposed, streamError, out, locals,
                 counts>>

\* create_subscription closes what could not be started.
StartFailed ==
  /\ at["caller"] = "failed"
  /\ closed' = TRUE /\ sender' = FALSE
  /\ IF disposed THEN UNCHANGED <<disposed, buffering, buffer>> ELSE Dispose
  /\ Goto("caller", "done")
  /\ UNCHANGED <<now, link, rows, gate, streamError, queued, lastError, then, locals, counts>>

Call ==
  /\ at["caller"] = "idle" /\ calls < MaxCalls
  /\ calls' = calls + 1
  /\ Goto("caller", "gate")
  /\ UNCHANGED <<now, link, rows, stream, out, then, locals, first, starting, tries>>

\* The caller drops its future while it waits.
Cancel ==
  /\ at["caller"] \in {"gate", "fetch"} /\ ~starting
  /\ gate' = IF gate = "caller" THEN "free" ELSE gate
  /\ Goto("caller", "idle")
  /\ UNCHANGED <<now, link, rows, buffering, buffer, disposed, streamError, out, then,
                 locals, counts>>

Receive ==
  /\ queued > 0
  /\ queued' = queued - 1
  /\ UNCHANGED <<now, link, rows, stream, sender, closed, lastError, at, then, locals, counts>>

\* Some markets change, and a batch tells so those who are connected.  Changes
\* are followed while the stream lasts.
Publish(changed) ==
  /\ ~disposed /\ changed # {}
  /\ now' = [m \in Markets |-> IF m \in changed THEN now[m] + 1 ELSE now[m]]
  /\ MapThenSumSet(LAMBDA m : now'[m] - 1, Markets) <= MaxChanges
  /\ IF up
     THEN Len(wire) < MaxWire /\ wire' = Append(wire, [m \in changed |-> now'[m]])
     ELSE UNCHANGED wire
  /\ UNCHANGED <<up, losses, survivors, rows, stream, out, at, then, locals, counts>>

\* The connection is lost, with some of what was under way.
ConnectionLost ==
  /\ up /\ losses < MaxLosses
  /\ up' = FALSE /\ losses' = losses + 1
  /\ \E n \in 0..Len(wire) : wire' = SubSeq(wire, 1, n)
  /\ UNCHANGED <<now, survivors, rows, stream, out, at, then, locals, counts>>

Applies(t) == Clear(t) \/ ApplySnapshot(t) \/ ApplyBatch(t) \/ Applied(t)
Emits(t) == Clone(t) \/ Send(t) \/ Full(t) \/ Fail(t) \/ Tell(t)
FetchEnds(t) == FetchAnswered(t) \/ FetchFails(t) \/ FetchStopped(t)
Refreshes(t) == Begin(t) \/ FetchEnds(t) \/ TakeBuffered(t) \/ DrainOrReady(t) \/ ClearError(t)
Closes == CloseSlot \/ CloseStream \/ StartFailed
Pumps == Handle \/ RunStops

Next ==
  \/ \E t \in {"run", "caller"} : Applies(t) \/ Emits(t) \/ Refreshes(t)
  \/ Closes
  \/ Pumps
  \/ Connect \/ LossSeen \/ ChannelEnded
  \/ Start \/ Refused \/ StartTimedOut \/ Call \/ Cancel \/ Close \/ Receive
  \/ \E changed \in SUBSET Markets : Publish(changed)
  \/ ConnectionLost

Spec == Init /\ [][Next]_vars

\* Tasks run and a fetch ends.  Nothing is owed by the exchange, the
\* connection or the consumer.
FairSpec ==
  /\ Spec /\ WF_vars(Closes) /\ WF_vars(Pumps)
  /\ \A t \in {"run", "caller"} : WF_vars(Applies(t) \/ Emits(t)) /\ WF_vars(Refreshes(t))

-----------------------------------------------------------------------------
(* Properties *)

\* Everything that was published on the connection has been applied.
CaughtUp ==
  /\ ~disposed /\ ~buffering /\ up /\ wire = <<>>
  /\ at["run"] = "pump" /\ gate = "free"

\* Rows have no sequence number, and a batch older than the snapshot does
\* overwrite its rows; but the batch that made them newer follows, whatever
\* was buffered, retried, lost or applied by two tasks at once: an overview
\* that has caught up shows every listed market as it is, and no market as it
\* was (market_data.rs:654, :690).  Not so once a batch buffered on an earlier
\* connection outlived it, which `survivors` tells: what followed that batch
\* may be lost with the connection, and begin_buffering keeps the batch for the
\* refresh after the reconnect, which merges it over a newer snapshot.
RowsConverge ==
  CaughtUp /\ ~survivors => \A m \in Markets : rows[m] = now[m] \/ (m \notin Listed /\ rows[m] = 0)

\* However the subscription is closed, by the application, by an overflow in
\* either task or by the stream's own end, its channel ends and both tasks come
\* to rest (marketoverview/subscription.rs:30).
ClosedEnds ==
  closed ~> ~sender /\ at["run"] = "done" /\ at["caller"] \in {"idle", "start", "gate", "done"}
=============================================================================
