---------------------------- MODULE BookDelivery ----------------------------
(***************************************************************************)
(* The consumer's side of a managed order book: emit(), the queue of       *)
(* views, set_bucket, close, and the paced request for a snapshot that     *)
(* came back unavailable (create_subscription in                           *)
(* src/services/market_data.rs, src/orderbook/subscription.rs).            *)
(*                                                                         *)
(* Three tasks emit: the pump that applies a live batch, the refresh that  *)
(* applies a snapshot under the refresh gate (SnapshotStream shows that    *)
(* the two may overlap), and a caller of set_bucket.  The contents of the  *)
(* book are OrderBook's; here the book is a version number.                *)
(***************************************************************************)
EXTENDS Naturals, Sequences

CONSTANTS
  QueueSize,     \* capacity of the consumer's queue
  MaxVersion,    \* bound: changes of the book
  MaxSnapshots   \* bound: snapshots fetched

ASSUME DeliveryAssumption ==
  QueueSize \in Nat \ {0} /\ MaxVersion \in Nat /\ MaxSnapshots \in Nat

Tasks == {"pump", "refresh", "setter"}

VARIABLES
  \* BookState, with the contents of both sides as a version
  version, available, lastViewUnavailable, recheckPending, recheckGeneration,
  \* the subscription: the consumer's queue and its sender, why it failed
  queue, sender, closed, lastError,
  \* the coordinator: whether it runs, and a refresh was requested of it
  stream, requested,
  \* request_refresh_after tasks by the generation they captured: the sleeping
  \* ones, and those that still_wanted let through to request_refresh
  timers, asking,
  \* each task: where it is, where it goes after a view, the view it cloned,
  \* the deltas left to apply; of the refresh: what the snapshot said of the
  \* book, and whether it adds no view
  at, then, view, left, answer, repeated,
  \* history: the last view queued, and the snapshots fetched
  lastView, snapshots

bookVars    == <<version, available, lastViewUnavailable>>
recheckVars == <<recheckPending, recheckGeneration, timers, asking>>
outVars     == <<queue, sender, closed, lastError, lastView>>
streamVars  == <<stream, requested>>
batchVars   == <<left, answer, repeated>>
deliveryVars == <<bookVars, recheckVars, outVars, streamVars, at, then, view,
          batchVars, snapshots>>

DeliveryInit ==
  /\ version = 0 /\ available = FALSE /\ lastViewUnavailable = FALSE
  /\ recheckPending = FALSE /\ recheckGeneration = 0
  /\ timers = [g \in 0..MaxSnapshots |-> 0] /\ asking = timers
  /\ queue = <<>> /\ sender = TRUE /\ closed = FALSE /\ lastError = "none"
  /\ lastView = [version |-> 0, available |-> TRUE]
  /\ stream = "running" /\ requested = TRUE
  /\ at = [t \in Tasks |-> "idle"] /\ then = [t \in Tasks |-> "idle"]
  /\ view = [t \in Tasks |-> lastView]
  /\ left = [t \in Tasks |-> 0] /\ answer = FALSE /\ repeated = FALSE
  /\ snapshots = 0

Running == stream = "running"
Goto(t, label) == at' = [at EXCEPT ![t] = label]

\* emit() is called, and the caller goes on at `label`.
Show(t, label) == Goto(t, "emit") /\ then' = [then EXCEPT ![t] = label]

\* The coordinator is Live: what it receives is applied at once.
Live == Running /\ snapshots > 0 /\ ~requested /\ at["refresh"] = "idle"

-----------------------------------------------------------------------------
(* Applying *)

\* The coordinator hands a live batch to apply_live_publications; a refresh may
\* begin while it is applied.
LiveBatch ==
  /\ at["pump"] = "idle" /\ Live
  /\ Goto("pump", "apply")
  /\ left' = [left EXCEPT !["pump"] = 1]
  /\ UNCHANGED <<bookVars, recheckVars, outVars, streamVars, then, view,
                 answer, repeated, snapshots>>

\* apply_snapshot: the server's answer replaces the book, with the deltas that
\* were buffered meanwhile still to apply.
Install ==
  /\ at["refresh"] = "idle" /\ Running /\ requested /\ snapshots < MaxSnapshots
  /\ snapshots' = snapshots + 1
  /\ requested' = FALSE
  /\ \E ok \in BOOLEAN, n \in 0..1 :
       /\ available' = ok /\ answer' = ok
       /\ left' = [left EXCEPT !["refresh"] = n]
       /\ repeated' = (~ok /\ lastViewUnavailable /\ n = 0)
  /\ \E v \in version..MaxVersion : version' = v
  /\ Goto("refresh", "apply")
  /\ UNCHANGED <<lastViewUnavailable, recheckVars, outVars, stream, then, view>>

\* handle_delta: the delta is refused and a refresh requested, or it is
\* accepted, changes the book or not, and a view follows.
Refuse(t) ==
  /\ at[t] = "apply" /\ left[t] > 0
  /\ left' = [left EXCEPT ![t] = 0]
  /\ requested' = (requested \/ Running)
  /\ Goto(t, IF t = "refresh" THEN "recheck" ELSE "idle")
  /\ UNCHANGED <<bookVars, recheckVars, outVars, stream, then, view, answer,
                 repeated, snapshots>>

Accept(t) ==
  /\ at[t] = "apply" /\ left[t] > 0
  /\ left' = [left EXCEPT ![t] = @ - 1]
  /\ \E v \in {version, version + 1} : v <= MaxVersion /\ version' = v
  /\ Show(t, "apply")
  /\ UNCHANGED <<available, lastViewUnavailable, recheckVars, outVars,
                 streamVars, view, answer, repeated, snapshots>>

\* The batch is applied; a snapshot ends with a view of its own, unless it
\* repeats what the consumer was told.
BatchDone(t) ==
  /\ at[t] = "apply" /\ left[t] = 0
  /\ \/ t = "pump" /\ Goto(t, "idle") /\ UNCHANGED then
     \/ t = "refresh" /\ repeated /\ Goto(t, "recheck") /\ UNCHANGED then
     \/ t = "refresh" /\ ~repeated /\ Show(t, "recheck")
  /\ UNCHANGED <<bookVars, recheckVars, outVars, streamVars, view, batchVars,
                 snapshots>>

\* set_bucket stores the bucket and re-emits; the caller found the stream
\* Ready and the subscription open.
SetBucketEmits ==
  /\ at["setter"] = "idle" /\ Live /\ ~closed
  /\ Show("setter", "idle")
  /\ UNCHANGED <<bookVars, recheckVars, outVars, streamVars, view, batchVars,
                 snapshots>>

-----------------------------------------------------------------------------
(* emit() *)

\* A closed subscription emits nothing; else the book is cloned, which is also
\* where lastViewUnavailable is set.
Clone(t) ==
  /\ at[t] = "emit"
  /\ \/ closed /\ Goto(t, then[t]) /\ UNCHANGED <<lastViewUnavailable, view>>
     \/ /\ ~closed
        /\ lastViewUnavailable' = ~available
        /\ view' = [view EXCEPT ![t] = [version |-> version, available |-> available]]
        /\ Goto(t, "send")
  /\ UNCHANGED <<version, available, recheckVars, outVars, streamVars, then,
                 batchVars, snapshots>>

\* The view cannot be rendered.
RenderFails(t) ==
  /\ at[t] = "send"
  /\ closed' = TRUE /\ lastError' = "render"
  /\ Goto(t, "fail")
  /\ UNCHANGED <<bookVars, recheckVars, queue, sender, lastView, streamVars,
                 then, view, batchVars, snapshots>>

\* try_enqueue on a clone of the sender: nothing after the end, a view in the
\* queue, or the end.
Room == Len(queue) < QueueSize

Send(t) ==
  /\ at[t] = "send"
  /\ \/ /\ ~sender \/ (closed /\ lastError # "overflow")
        /\ Goto(t, then[t]) /\ UNCHANGED <<queue, lastView, closed, lastError>>
     \/ /\ sender /\ closed /\ lastError = "overflow"
        /\ Goto(t, "fail") /\ UNCHANGED <<queue, lastView, closed, lastError>>
     \/ /\ sender /\ ~closed /\ Room
        /\ queue' = Append(queue, view[t]) /\ lastView' = view[t]
        /\ Goto(t, then[t]) /\ UNCHANGED <<closed, lastError>>
     \/ /\ sender /\ ~closed /\ ~Room
        /\ closed' = TRUE /\ lastError' = "overflow"
        /\ Goto(t, "fail") /\ UNCHANGED <<queue, lastView>>
  /\ UNCHANGED <<bookVars, recheckVars, sender, streamVars, then, view,
                 batchVars, snapshots>>

\* The sender is dropped and the stream is failed.
Fail(t) ==
  /\ at[t] = "fail"
  /\ sender' = FALSE
  /\ stream' = IF Running THEN "failed" ELSE stream
  /\ Goto(t, then[t])
  /\ UNCHANGED <<bookVars, recheckVars, queue, closed, lastError, lastView,
                 requested, then, view, batchVars, snapshots>>

-----------------------------------------------------------------------------
(* The paced request for an unavailable snapshot *)

\* An available snapshot makes a sleeping request obsolete.
MutantObsolete(g) == g
Obsolete(g) == g + 1

\* recheck_unavailable_snapshot, at the end of apply_snapshot
Recheck ==
  /\ at["refresh"] = "recheck"
  /\ \/ /\ answer
        /\ recheckPending' = FALSE
        /\ recheckGeneration' = Obsolete(recheckGeneration)
        /\ UNCHANGED <<timers, asking>>
     \/ ~answer /\ recheckPending /\ UNCHANGED recheckVars
     \/ /\ ~answer /\ ~recheckPending
        /\ recheckPending' = TRUE
        /\ timers' = [timers EXCEPT ![recheckGeneration] = @ + 1]
        /\ UNCHANGED <<recheckGeneration, asking>>
  /\ Goto("refresh", "idle")
  /\ UNCHANGED <<bookVars, outVars, streamVars, then, view, batchVars,
                 snapshots>>

\* MUTANT: no request is wanted any more when its delay ends.
MutantStillWanted(g) == FALSE

StillWanted(g) == g = recheckGeneration

\* request_refresh_after: the delay of a task ends, and still_wanted decides
\* under the book's lock, which it releases before the request is made.
Fire(g) ==
  /\ timers[g] > 0
  /\ timers' = [timers EXCEPT ![g] = @ - 1]
  /\ \/ /\ Running /\ StillWanted(g)
        /\ recheckPending' = FALSE
        /\ asking' = [asking EXCEPT ![g] = @ + 1]
     \/ ~(Running /\ StillWanted(g)) /\ UNCHANGED <<recheckPending, asking>>
  /\ UNCHANGED <<bookVars, recheckGeneration, outVars, streamVars, at, then,
                 view, batchVars, snapshots>>

\* request_refresh, whatever became of the book since still_wanted was asked.
Ask(g) ==
  /\ asking[g] > 0
  /\ asking' = [asking EXCEPT ![g] = @ - 1]
  /\ requested' = (requested \/ Running)
  /\ UNCHANGED <<bookVars, recheckPending, recheckGeneration, timers, outVars,
                 stream, at, then, view, batchVars, snapshots>>

-----------------------------------------------------------------------------
(* The rest of the world *)

Receive ==
  /\ queue # <<>> /\ queue' = Tail(queue)
  /\ UNCHANGED <<bookVars, recheckVars, sender, closed, lastError, lastView,
                 streamVars, at, then, view, batchVars, snapshots>>

\* A refresh for another reason: a reconnect, or a caller of refresh_snapshot.
AskRefresh ==
  /\ Running /\ ~requested /\ snapshots < MaxSnapshots /\ requested' = TRUE
  /\ UNCHANGED <<bookVars, recheckVars, outVars, stream, at, then, view,
                 batchVars, snapshots>>

\* Subscription::close
Close ==
  /\ at["setter"] = "idle" /\ ~closed
  /\ closed' = TRUE /\ Goto("setter", "closing")
  /\ UNCHANGED <<bookVars, recheckVars, queue, sender, lastError, lastView,
                 streamVars, then, view, batchVars, snapshots>>

Closing ==
  /\ at["setter"] = "closing"
  /\ sender' = FALSE
  /\ stream' = IF Running THEN "closed" ELSE stream
  /\ Goto("setter", "idle")
  /\ UNCHANGED <<bookVars, recheckVars, queue, closed, lastError, lastView,
                 requested, then, view, batchVars, snapshots>>

\* The stream fails by itself, and its terminal callback ends the channel.
StreamFails ==
  /\ Running /\ stream' = "failed"
  /\ UNCHANGED <<bookVars, recheckVars, outVars, requested, at, then, view,
                 batchVars, snapshots>>

MutantSenderAfterError == sender
SenderAfterError == FALSE

OnTerminalError ==
  /\ stream = "failed" /\ (sender \/ ~closed)
  /\ closed' = TRUE /\ sender' = SenderAfterError
  /\ UNCHANGED <<bookVars, recheckVars, queue, lastError, lastView, streamVars,
                 at, then, view, batchVars, snapshots>>

Step(t) ==
  \/ Refuse(t) \/ Accept(t) \/ BatchDone(t)
  \/ Clone(t) \/ RenderFails(t) \/ Send(t) \/ Fail(t)

DeliveryNext ==
  \/ LiveBatch \/ Install \/ SetBucketEmits \/ Recheck
  \/ Receive \/ AskRefresh \/ Close \/ Closing
  \/ StreamFails \/ OnTerminalError
  \/ \E t \in Tasks : Step(t)
  \/ \E g \in 0..MaxSnapshots : Fire(g) \/ Ask(g)

DeliverySpec == DeliveryInit /\ [][DeliveryNext]_deliveryVars

\* Tasks run and delays end.
DeliveryFairSpec ==
  /\ DeliverySpec /\ WF_deliveryVars(Recheck) /\ WF_deliveryVars(Closing)
  /\ WF_deliveryVars(OnTerminalError)
  /\ \A t \in Tasks : WF_deliveryVars(Step(t))
  /\ \A g \in 0..MaxSnapshots : WF_deliveryVars(Fire(g)) /\ WF_deliveryVars(Ask(g))

-----------------------------------------------------------------------------
(* Properties *)

\* A book that is not available is never forgotten: unless the stream stopped
\* or a snapshot is being applied, a refresh was requested, a task is about to
\* request it, or exactly one sleeping task is going to.
RecheckScheduled ==
  (Running /\ snapshots > 0 /\ ~available /\ at["refresh"] = "idle") =>
    \/ requested
    \/ asking[recheckGeneration] > 0
    \/ recheckPending /\ timers[recheckGeneration] = 1

\* What RecheckScheduled needs to be inductive.

Places == {"idle", "apply", "emit", "send", "fail", "recheck", "closing"}

RecheckTypes ==
  /\ at \in [Tasks -> Places] /\ then \in [Tasks -> Places]
  /\ left \in [Tasks -> Nat]
  /\ available \in BOOLEAN /\ answer \in BOOLEAN
  /\ recheckPending \in BOOLEAN /\ requested \in BOOLEAN
  /\ timers \in [0..MaxSnapshots -> Nat] /\ asking \in [0..MaxSnapshots -> Nat]
  /\ recheckGeneration \in Nat /\ snapshots \in 0..MaxSnapshots

\* A refresh that applies its snapshot ends with the recheck, and the book has
\* the availability that the snapshot said; a generation has its snapshot.
RefreshEnds ==
  /\ at["refresh"] \in {"emit", "send", "fail"} => then["refresh"] \in {"apply", "recheck"}
  /\ at["refresh"] # "closing"
  /\ at["refresh"] # "idle" => answer = available /\ recheckGeneration < snapshots
  /\ recheckGeneration <= snapshots

\* Of the current generation one request sleeps if it is pending, else none.
OneTimer ==
  /\ \A g \in 0..MaxSnapshots : g > recheckGeneration => timers[g] = 0
  /\ Running => timers[recheckGeneration] = IF recheckPending THEN 1 ELSE 0

\* A request of the current generation, pending or about to be made, is for an
\* unavailable book; no task is of a later generation.
PendingIsNeeded ==
  /\ \A g \in 0..MaxSnapshots : g > recheckGeneration => asking[g] = 0
  /\ (Running /\ available /\ at["refresh"] = "idle") =>
       ~recheckPending /\ asking[recheckGeneration] = 0

\* The inductive invariant of ManagedBookProofs.
IInv ==
  RecheckTypes /\ RefreshEnds /\ OneTimer /\ PendingIsNeeded /\ RecheckScheduled

\* A sleeping request that an available snapshot made obsolete asks nothing: no
\* delay that ends while the book is available lets a request through.  The one
\* request that may still reach an available book was let through before the
\* snapshot that made it available was, between still_wanted's unlock and
\* request_refresh.
NoObsoleteRecheck ==
  [][\A g \in 0..MaxSnapshots :
       LET settled == Running /\ available /\ at["refresh"] = "idle"
       IN  settled => /\ asking'[g] <= asking[g]
                      /\ asking'[g] < asking[g] => g < recheckGeneration]_deliveryVars

\* A sleeping request asks the server again, unless the book became available
\* or the stream stopped.
RecheckHappens == recheckPending ~> (requested \/ available \/ ~Running)

\* The consumer never hangs: once the subscription is closed, whoever closed
\* it and whoever was emitting, its channel ends.
ChannelEnds == closed ~> ~sender

\* What the code says of last_view_unavailable: the last view emitted reported
\* the book unavailable.
FlagTellsLastView ==
  (~closed /\ \A t \in Tasks : at[t] # "send") =>
    (lastViewUnavailable <=> ~lastView.available)
=============================================================================
