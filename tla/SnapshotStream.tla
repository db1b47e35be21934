--------------------------- MODULE SnapshotStream ---------------------------
(***************************************************************************)
(* SnapshotThenStream (src/realtime/snapshot_then_stream.rs) with the      *)
(* sequence-checked book it drives (orderbook::create_subscription in      *)
(* src/services/market_data.rs).                                           *)
(*                                                                         *)
(* The coordinator is shared by tasks on a multi-threaded runtime: the     *)
(* `run` task that owns the websocket subscription, the refresh workers    *)
(* spawned by request_refresh, and callers of the public handle (one of    *)
(* them, Starter, is inside start()).  Every step below is one access to   *)
(* shared state: an atomic, the publications lock, the refresh gate, or    *)
(* the book's lock.  The only data kept of a delta is its sequence number. *)
(***************************************************************************)
EXTENDS Naturals, Sequences

CONSTANTS
  Run,          \* the task that runs Inner::run
  Workers,      \* tasks that may run run_requested_refreshes
  Callers,      \* tasks of the application holding a handle
  Starter,      \* the caller that called start()
  NoTask,
  MaxBuffered,  \* max_buffered of the configuration
  MaxAttempts,  \* MAX_REQUEST_REFRESH_ATTEMPTS
  MaxSeq,       \* bound: updates the server makes
  MaxCalls,     \* bound: calls the application makes after start()
  MaxFaults     \* bound: failures of the network, the server or a callback

ASSUME TasksAssumption ==
  /\ Starter \in Callers
  /\ Run \notin Workers \cup Callers
  /\ Workers \cap Callers = {}
  /\ NoTask \notin Workers \cup Callers \cup {Run}

ASSUME BoundsAssumption ==
  /\ MaxBuffered \in Nat \ {0}
  /\ MaxAttempts \in Nat \ {0}
  /\ MaxSeq \in Nat /\ MaxCalls \in Nat /\ MaxFaults \in Nat

Tasks == {Run} \cup Workers \cup Callers

VARIABLES
  \* the coordinator's shared state (Inner)
  ready, disposed, generation, buffering, pending, gate,
  workerRunning, requested, lastError, stopped, connectedOnce,
  \* the book behind the callbacks: BookState::book_seq
  book,
  \* the server and the TypedSubscription that Run holds
  server, link, queue,
  \* each task: its position in the code, where it goes after a failure it is
  \* handling and whether that failure was recorded before, and the locals of
  \* a refresh (generation, snapshot, deltas taken) and its attempt counter
  at, next, recorded, gen, snap, batch, tries,
  \* history: the log when a refresh was last asked for, the last
  \* publication handled, whether the stream was terminated by a failure
  asked, handled, failed,
  \* budgets that bound the environment
  calls, faults

refreshVars   == <<workerRunning, requested>>
bufferVars    == <<ready, buffering, pending>>
endVars       == <<disposed, stopped, lastError, failed>>
transportVars == <<server, link, queue, connectedOnce>>
budgetVars    == <<calls, faults>>
historyVars   == <<asked, handled>>
localVars     == <<next, recorded, gen, snap, batch, tries>>
vars == <<bufferVars, endVars, refreshVars, transportVars, budgetVars,
          historyVars, generation, gate, book, at, localVars>>

Errors == {"none", "transient", "terminal"}
Links == {"down", "up", "broken", "ended"}
Labels == {"idle", "starting", "connect", "connected", "connectPause", "pump",
           "live", "done", "unready",
           "gate", "begin", "buffer", "fetch", "take", "install", "apply",
           "drain", "clearError", "returnErr",
           "request", "reqBump", "reqBuffer", "reqSpawn",
           "round", "check", "checkErr", "pause", "idling", "handoff",
           "fail", "failDispose", "failClear", "failStop",
           "close", "closeClear", "closeStop"}

At(t, label) == at[t] = label
Goto(t, label) == at' = [at EXCEPT ![t] = label]
Move(t, label) == Goto(t, label) /\ UNCHANGED localVars
Hold(t, deltas, label) ==
  /\ batch' = [batch EXCEPT ![t] = deltas]
  /\ Goto(t, label)
  /\ UNCHANGED <<next, recorded, gen, snap, tries>>

Fault == faults < MaxFaults /\ faults' = faults + 1 /\ UNCHANGED calls
Call == calls < MaxCalls /\ calls' = calls + 1 /\ UNCHANGED faults

Init ==
  /\ ready = FALSE /\ disposed = FALSE /\ generation = 0
  /\ buffering = TRUE /\ pending = <<>> /\ gate = NoTask
  /\ workerRunning = FALSE /\ requested = FALSE
  /\ lastError = "none" /\ stopped = FALSE /\ failed = FALSE
  /\ book = 0
  /\ server = 0 /\ link = "down" /\ queue = <<>> /\ connectedOnce = FALSE
  /\ at = [t \in Tasks |-> IF t = Run THEN "connect"
                          ELSE IF t = Starter THEN "starting" ELSE "idle"]
  /\ next = [t \in Tasks |-> "idle"] /\ recorded = [t \in Tasks |-> FALSE]
  /\ gen = [t \in Tasks |-> 0] /\ snap = [t \in Tasks |-> 0]
  /\ batch = [t \in Tasks |-> <<>>] /\ tries = [t \in Tasks |-> 0]
  /\ asked = 0 /\ handled = 0
  /\ calls = 0 /\ faults = 0

-----------------------------------------------------------------------------
(* Shared helpers *)

\* begin_buffering, under the publications lock
BeginBuffering ==
  /\ pending' = IF buffering THEN pending ELSE <<>>
  /\ buffering' = TRUE
  /\ ready' = FALSE

\* clear_publications
ClearPublications == pending' = <<>> /\ buffering' = TRUE

\* The check of take_buffered_if_current and take_or_mark_ready.
MutantCurrent(t) == ~disposed
Current(t) == ~disposed /\ generation = gen[t]

\* Where a task continues after a callback or a request made from one.
Resume(t) == IF gate = t THEN "drain" ELSE IF t = Run THEN "pump" ELSE "idle"

\* Leaving refresh_snapshot: the gate guard drops and the caller of the
\* refresh looks at the result.  Run retries a failed reconnect refresh once;
\* a failed start() closes the subscription (tries = 0 marks start()).
AfterRefresh(t, err) ==
  IF t = Run THEN IF ~err THEN "pump" ELSE IF tries[t] < 2 THEN "gate" ELSE "fail"
  ELSE IF t \in Workers THEN IF err THEN "checkErr" ELSE "check"
  ELSE IF err /\ tries[t] = 0 THEN "close" ELSE "idle"

Return(t, err) ==
  /\ gate' = NoTask
  /\ Goto(t, AfterRefresh(t, err))
  /\ batch' = [batch EXCEPT ![t] = <<>>]
  /\ tries' = [tries EXCEPT ![t] = IF t \in Callers THEN 1
                                  ELSE IF t = Run /\ err THEN @ + 1 ELSE @]
  /\ next' = [next EXCEPT ![t] = IF t = Run THEN "unready" ELSE @]
  /\ recorded' = [recorded EXCEPT ![t] = TRUE]
  /\ UNCHANGED <<gen, snap>>

\* fail_closed (rec = FALSE) or stop_after_recorded_error, then `cont`.
Failing(t, rec, cont) ==
  /\ Goto(t, "fail")
  /\ recorded' = [recorded EXCEPT ![t] = rec]
  /\ next' = [next EXCEPT ![t] = cont]
  /\ UNCHANGED <<gen, snap, tries>>

-----------------------------------------------------------------------------
(* request_refresh *)

ReqMark(t) ==
  /\ At(t, "request")
  /\ \/ disposed /\ Move(t, Resume(t)) /\ UNCHANGED requested
     \/ ~disposed /\ requested' = TRUE /\ Move(t, "reqBump")
  /\ UNCHANGED <<bufferVars, endVars, workerRunning, transportVars, budgetVars,
                 historyVars, generation, gate, book>>

ReqBump(t) ==
  /\ At(t, "reqBump")
  /\ generation' = generation + 1
  /\ asked' = server
  /\ Move(t, "reqBuffer")
  /\ UNCHANGED <<bufferVars, endVars, refreshVars, transportVars, budgetVars,
                 handled, gate, book>>

ReqBuffer(t) ==
  /\ At(t, "reqBuffer")
  /\ BeginBuffering
  /\ Move(t, "reqSpawn")
  /\ UNCHANGED <<endVars, refreshVars, transportVars, budgetVars, historyVars,
                 generation, gate, book>>

ReqSpawn(t) ==
  /\ At(t, "reqSpawn")
  /\ \/ workerRunning /\ Move(t, Resume(t)) /\ UNCHANGED workerRunning
     \/ /\ ~workerRunning /\ workerRunning' = TRUE
        /\ \E w \in Workers :
             /\ At(w, "idle")
             /\ at' = [at EXCEPT ![t] = Resume(t), ![w] = "round"]
             /\ tries' = [tries EXCEPT ![w] = 0]
             /\ UNCHANGED <<next, recorded, gen, snap, batch>>
  /\ UNCHANGED <<bufferVars, endVars, requested, transportVars, budgetVars,
                 historyVars, generation, gate, book>>

-----------------------------------------------------------------------------
(* refresh_snapshot and refresh_snapshot_once *)

AcquireGate(t) ==
  /\ At(t, "gate") /\ gate = NoTask
  /\ gate' = t
  /\ Move(t, "begin")
  /\ UNCHANGED <<bufferVars, endVars, refreshVars, transportVars, budgetVars,
                 historyVars, generation, book>>

BeginRefresh(t) ==
  /\ At(t, "begin")
  /\ \/ /\ disposed /\ Return(t, lastError # "none")
        /\ UNCHANGED <<generation, asked>>
     \/ /\ ~disposed
        /\ generation' = generation + 1
        /\ asked' = server
        /\ gen' = [gen EXCEPT ![t] = generation']
        /\ Goto(t, "buffer")
        /\ UNCHANGED <<next, recorded, snap, batch, tries, gate>>
  /\ UNCHANGED <<bufferVars, endVars, refreshVars, transportVars, budgetVars,
                 handled, book>>

Buffer(t) ==
  /\ At(t, "buffer")
  /\ BeginBuffering
  /\ Move(t, "fetch")
  /\ UNCHANGED <<endVars, refreshVars, transportVars, budgetVars, historyVars,
                 generation, gate, book>>

\* The server answers the REST read with its book as it is now.
FetchAnswered(t) ==
  /\ At(t, "fetch")
  /\ snap' = [snap EXCEPT ![t] = server]
  /\ Goto(t, "take")
  /\ UNCHANGED <<next, recorded, gen, batch, tries>>
  /\ UNCHANGED <<bufferVars, endVars, refreshVars, transportVars, budgetVars,
                 historyVars, generation, gate, book>>

\* The read fails: recorded and returned; what was buffered is kept.
FetchFails(t) ==
  /\ At(t, "fetch") /\ Fault
  /\ lastError' = "transient"
  /\ Return(t, TRUE)
  /\ UNCHANGED <<bufferVars, disposed, stopped, failed, refreshVars,
                 transportVars, historyVars, generation, book>>

\* The stop signal wins the select.
FetchStopped(t) ==
  /\ At(t, "fetch") /\ stopped
  /\ Return(t, FALSE)
  /\ UNCHANGED <<bufferVars, endVars, refreshVars, transportVars, budgetVars,
                 historyVars, generation, book>>

\* take_buffered_if_current
TakeBuffered(t) ==
  /\ At(t, "take")
  /\ \/ ~(Current(t) /\ buffering) /\ Return(t, FALSE) /\ UNCHANGED pending
     \/ /\ Current(t) /\ buffering
        /\ Hold(t, pending, "install")
        /\ pending' = <<>>
        /\ UNCHANGED gate
  /\ UNCHANGED <<ready, buffering, endVars, refreshVars, transportVars,
                 budgetVars, historyVars, generation, book>>

\* apply_snapshot replaces the book, then the buffered deltas are applied.
InstallSnapshot(t) ==
  /\ At(t, "install")
  /\ book' = snap[t]
  /\ Move(t, "apply")
  /\ UNCHANGED <<bufferVars, endVars, refreshVars, transportVars, budgetVars,
                 historyVars, generation, gate>>

\* A snapshot without a readable book_seq: nothing applied, refresh again.
\* The REST decoder formats a u64 and never makes one; apply_snapshot handles
\* it nevertheless.
InstallGarbled(t) ==
  /\ At(t, "install") /\ Fault
  /\ Hold(t, <<>>, "request")
  /\ UNCHANGED <<bufferVars, endVars, refreshVars, transportVars, historyVars,
                 generation, gate, book>>

\* handle_delta on the next delta of a batch: a gap drops the rest and asks
\* for a refresh, an old delta changes nothing, the next one advances.
Gap(t) == Head(batch[t]) > book + 1
Absorb(t) == book' = IF Head(batch[t]) > book THEN Head(batch[t]) ELSE book

ApplyDelta(t) ==
  /\ At(t, "apply")
  /\ \/ /\ batch[t] = <<>>
        /\ Move(t, Resume(t)) /\ UNCHANGED book
     \/ /\ batch[t] # <<>> /\ Gap(t)
        /\ Hold(t, <<>>, "request")
        /\ UNCHANGED book
     \/ /\ batch[t] # <<>> /\ ~Gap(t) /\ Absorb(t)
        /\ Hold(t, Tail(batch[t]), "apply")
  /\ UNCHANGED <<bufferVars, endVars, refreshVars, transportVars, budgetVars,
                 historyVars, generation, gate>>

\* The view of an applied delta, or of an installed snapshot, finds the
\* consumer's queue full: emit() fails the stream and the batch goes on.
ApplyOverflows(t) ==
  /\ At(t, "apply") /\ Fault
  /\ \/ batch[t] = <<>> /\ gate = t /\ UNCHANGED <<book, batch>>
     \/ /\ batch[t] # <<>> /\ ~Gap(t) /\ Absorb(t)
        /\ batch' = [batch EXCEPT ![t] = Tail(@)]
  /\ Failing(t, FALSE, "apply")
  /\ UNCHANGED <<bufferVars, endVars, refreshVars, transportVars, historyVars,
                 generation, gate>>

\* An apply callback panics: fail closed, the refresh (or the pump) ends.
ApplyPanics(t) ==
  /\ At(t, "apply") /\ Fault
  /\ Failing(t, FALSE, IF gate = t THEN "returnErr" ELSE "done")
  /\ UNCHANGED batch
  /\ UNCHANGED <<bufferVars, endVars, refreshVars, transportVars, historyVars,
                 generation, gate, book>>

ReturnErr(t) ==
  /\ At(t, "returnErr")
  /\ Return(t, TRUE)
  /\ UNCHANGED <<bufferVars, endVars, refreshVars, transportVars, budgetVars,
                 historyVars, generation, book>>

\* Nothing is left to apply before Buffering becomes Ready.
MutantDrained == TRUE
Drained == ~buffering \/ pending = <<>>

\* take_or_mark_ready: superseded, ready, or another batch to apply.
DrainOrReady(t) ==
  /\ At(t, "drain")
  /\ \/ ~Current(t) /\ Return(t, FALSE) /\ UNCHANGED bufferVars
     \/ /\ Current(t) /\ Drained
        /\ buffering' = FALSE
        /\ ready' = IF buffering THEN TRUE ELSE ready
        /\ Move(t, "clearError")
        /\ UNCHANGED <<gate, pending>>
     \/ /\ Current(t) /\ ~Drained
        /\ Hold(t, pending, "apply")
        /\ pending' = <<>>
        /\ UNCHANGED <<gate, ready, buffering>>
  /\ UNCHANGED <<endVars, refreshVars, transportVars, budgetVars, historyVars,
                 generation, book>>

ClearError(t) ==
  /\ At(t, "clearError")
  /\ lastError' = "none"
  /\ Return(t, FALSE)
  /\ UNCHANGED <<bufferVars, disposed, stopped, failed, refreshVars,
                 transportVars, budgetVars, historyVars, generation, book>>

RefreshStep(t) ==
  \/ AcquireGate(t) \/ BeginRefresh(t) \/ Buffer(t) \/ FetchAnswered(t)
  \/ FetchStopped(t) \/ TakeBuffered(t) \/ InstallSnapshot(t) \/ ApplyDelta(t)
  \/ ReturnErr(t) \/ DrainOrReady(t) \/ ClearError(t)

RequestStep(t) == ReqMark(t) \/ ReqBump(t) \/ ReqBuffer(t) \/ ReqSpawn(t)

-----------------------------------------------------------------------------
(* fail_closed and stop_after_recorded_error *)

FailUnready(t) ==
  /\ At(t, "fail")
  /\ ready' = FALSE
  /\ Move(t, "failDispose")
  /\ UNCHANGED <<buffering, pending, endVars, refreshVars, transportVars,
                 budgetVars, historyVars, generation, gate, book>>

FailDispose(t) ==
  /\ At(t, "failDispose")
  /\ disposed' = TRUE
  /\ Move(t, "failClear")
  /\ UNCHANGED <<bufferVars, stopped, lastError, failed, refreshVars,
                 transportVars, budgetVars, historyVars, generation, gate, book>>

\* Bumps the generation, clears the buffer, stores the error and closes the
\* consumer's output (on_terminal_error).
FailClear(t) ==
  /\ At(t, "failClear")
  /\ generation' = generation + 1
  /\ ClearPublications
  /\ lastError' = "terminal"
  /\ failed' = TRUE
  /\ Move(t, "failStop")
  /\ UNCHANGED <<ready, disposed, stopped, refreshVars, transportVars,
                 budgetVars, historyVars, gate, book>>

FailStop(t) ==
  /\ At(t, "failStop")
  /\ lastError' = IF recorded[t] THEN lastError ELSE "terminal"
  /\ stopped' = TRUE
  /\ Move(t, next[t])
  /\ UNCHANGED <<bufferVars, disposed, failed, refreshVars, transportVars,
                 budgetVars, historyVars, generation, gate, book>>

FailStep(t) == FailUnready(t) \/ FailDispose(t) \/ FailClear(t) \/ FailStop(t)

-----------------------------------------------------------------------------
(* run_requested_refreshes *)

\* One round: forget the request, then refresh behind the gate.
Round(w) ==
  /\ At(w, "round")
  /\ requested' = FALSE
  /\ tries' = [tries EXCEPT ![w] = @ + 1]
  /\ Goto(w, "gate")
  /\ UNCHANGED <<next, recorded, gen, snap, batch>>
  /\ UNCHANGED <<bufferVars, endVars, workerRunning, transportVars, budgetVars,
                 historyVars, generation, gate, book>>

\* A request seen here is a follow-up; the third round in a row that needs
\* another one gives up.
Check(w) ==
  /\ at[w] \in {"check", "checkErr"}
  /\ \/ disposed /\ Move(w, "idle")
     \/ ~disposed /\ At(w, "check") /\ ~requested /\ Move(w, "idling")
     \/ /\ ~disposed /\ (At(w, "checkErr") \/ requested)
        /\ IF tries[w] >= MaxAttempts
             THEN Failing(w, At(w, "checkErr"), "idle") /\ UNCHANGED batch
             ELSE Move(w, "pause")
  /\ UNCHANGED <<bufferVars, endVars, refreshVars, transportVars, budgetVars,
                 historyVars, generation, gate, book>>

Pause(w) ==
  /\ At(w, "pause")
  /\ Move(w, IF stopped THEN "idle" ELSE "round")
  /\ UNCHANGED <<bufferVars, endVars, refreshVars, transportVars, budgetVars,
                 historyVars, generation, gate, book>>

Idling(w) ==
  /\ At(w, "idling")
  /\ workerRunning' = FALSE
  /\ Move(w, "handoff")
  /\ UNCHANGED <<bufferVars, endVars, requested, transportVars, budgetVars,
                 historyVars, generation, gate, book>>

\* A request that came between Check and Idling is taken back, unless its
\* requester started another worker.
MutantTakesBack == requested
TakesBack == requested /\ ~workerRunning

Handoff(w) ==
  /\ At(w, "handoff")
  /\ \/ /\ TakesBack
        /\ workerRunning' = TRUE
        /\ tries' = [tries EXCEPT ![w] = 0]
        /\ Goto(w, "round")
        /\ UNCHANGED <<next, recorded, gen, snap, batch>>
     \/ /\ ~TakesBack
        /\ Move(w, "idle") /\ UNCHANGED workerRunning
  /\ UNCHANGED <<bufferVars, endVars, requested, transportVars, budgetVars,
                 historyVars, generation, gate, book>>

WorkerStep(w) == Round(w) \/ Check(w) \/ Pause(w) \/ Idling(w) \/ Handoff(w)

-----------------------------------------------------------------------------
(* run and pump_subscription *)

Connect ==
  /\ At(Run, "connect")
  /\ \/ /\ disposed \/ stopped
        /\ Move(Run, "done") /\ UNCHANGED transportVars
     \/ /\ ~disposed /\ ~stopped
        /\ link' = "up" /\ queue' = <<>> /\ connectedOnce' = TRUE
        /\ Move(Run, "connected") /\ UNCHANGED server
  /\ UNCHANGED <<bufferVars, endVars, refreshVars, budgetVars, historyVars,
                 generation, gate, book>>

ConnectFails ==
  /\ At(Run, "connect") /\ ~stopped /\ Fault
  /\ Move(Run, "connectPause")
  /\ UNCHANGED <<bufferVars, endVars, refreshVars, transportVars, historyVars,
                 generation, gate, book>>

ConnectPause ==
  /\ At(Run, "connectPause")
  /\ Move(Run, IF disposed \/ stopped THEN "done" ELSE "connect")
  /\ UNCHANGED <<bufferVars, endVars, refreshVars, transportVars, budgetVars,
                 historyVars, generation, gate, book>>

\* The first connection is pumped at once (start() refreshes); every later one
\* is refreshed first, its publications waiting in the subscription's queue.
Connected ==
  /\ At(Run, "connected")
  /\ \/ /\ disposed \/ stopped
        /\ Move(Run, "done") /\ link' = "down"
     \/ /\ ~disposed /\ ~stopped
        /\ tries' = [tries EXCEPT ![Run] = 1]
        /\ Goto(Run, IF tries[Run] = 0 THEN "pump" ELSE "gate")
        /\ UNCHANGED <<next, recorded, gen, snap, batch, link>>
  /\ UNCHANGED <<bufferVars, endVars, refreshVars, server, queue, connectedOnce,
                 budgetVars, historyVars, generation, gate, book>>

HasRoom == Len(pending) < MaxBuffered

\* handle_publication up to releasing the publications lock
HandlePublication ==
  /\ At(Run, "pump") /\ queue # <<>>
  /\ queue' = Tail(queue)
  /\ IF disposed
       THEN UNCHANGED <<pending, handled, at, localVars>>
       ELSE /\ handled' = Head(queue)
            /\ \/ /\ buffering /\ HasRoom
                  /\ pending' = Append(pending, Head(queue))
                  /\ UNCHANGED <<at, localVars>>
               \/ /\ buffering /\ ~HasRoom
                  /\ pending' = <<>>
                  /\ Failing(Run, FALSE, "pump") /\ UNCHANGED batch
               \/ /\ ~buffering
                  /\ Hold(Run, <<Head(queue)>>, "live")
                  /\ UNCHANGED pending
  /\ UNCHANGED <<ready, buffering, endVars, refreshVars, server, link,
                 connectedOnce, budgetVars, asked, generation, gate, book>>

\* The lock is released; a stream disposed meanwhile drops the delta.
ApplyLive ==
  /\ At(Run, "live")
  /\ IF disposed THEN Hold(Run, <<>>, "pump") ELSE Move(Run, "apply")
  /\ UNCHANGED <<bufferVars, endVars, refreshVars, transportVars, budgetVars,
                 historyVars, generation, gate, book>>

\* recv_result reports a dropped connection once its queue is empty.
PumpLosesLink ==
  /\ At(Run, "pump") /\ queue = <<>> /\ link = "broken"
  /\ link' = "down"
  /\ lastError' = IF disposed THEN lastError ELSE "transient"
  /\ Move(Run, "connectPause")
  /\ UNCHANGED <<bufferVars, disposed, stopped, failed, refreshVars, server,
                 queue, connectedOnce, budgetVars, historyVars, generation,
                 gate, book>>

\* The server ended the channel: terminal.
PumpEnds ==
  /\ At(Run, "pump") /\ queue = <<>> /\ link = "ended"
  /\ link' = "down"
  /\ IF disposed THEN Move(Run, "done")
                 ELSE Failing(Run, FALSE, "done") /\ UNCHANGED batch
  /\ UNCHANGED <<bufferVars, endVars, refreshVars, server, queue, connectedOnce,
                 budgetVars, historyVars, generation, gate, book>>

MutantStopSeen == stopped /\ queue # <<>>
StopSeen == stopped

PumpStops ==
  /\ At(Run, "pump") /\ StopSeen
  /\ link' = "down" /\ queue' = <<>>
  /\ Move(Run, "done")
  /\ UNCHANGED <<bufferVars, endVars, refreshVars, server, connectedOnce,
                 budgetVars, historyVars, generation, gate, book>>

\* After stop_after_recorded_error of a failed reconnect refresh.
RunUnready ==
  /\ At(Run, "unready")
  /\ ready' = FALSE /\ link' = "down"
  /\ Move(Run, "done")
  /\ UNCHANGED <<buffering, pending, endVars, refreshVars, server, queue,
                 connectedOnce, budgetVars, historyVars, generation, gate, book>>

RunStep == Connect \/ ConnectPause \/ Connected \/ HandlePublication \/ ApplyLive
           \/ PumpLosesLink \/ PumpEnds \/ PumpStops \/ RunUnready

-----------------------------------------------------------------------------
(* start(), close() and the callers *)

\* start() waits for the first connection, then refreshes.
StartStep ==
  /\ At(Starter, "starting")
  /\ \/ ~disposed /\ connectedOnce /\ Move(Starter, "gate")
     \/ disposed /\ Move(Starter, "close")
     \/ ~connectedOnce /\ At(Run, "connectPause") /\ Move(Starter, "close")
  /\ UNCHANGED <<bufferVars, endVars, refreshVars, transportVars, budgetVars,
                 historyVars, generation, gate, book>>

\* The deadline drops start() at an await point, fails the stream, and the
\* managed subscription closes it.
StartTimesOut ==
  /\ at[Starter] \in {"starting", "gate", "fetch"}
  /\ tries[Starter] = 0 /\ Fault
  /\ gate' = IF gate = Starter THEN NoTask ELSE gate
  /\ Failing(Starter, FALSE, "close") /\ UNCHANGED batch
  /\ UNCHANGED <<bufferVars, endVars, refreshVars, transportVars, historyVars,
                 generation, book>>

\* A caller asks for a refresh (the unavailable-book timer does too), waits
\* for one, or closes the stream; create_subscription hands the stream out
\* when start() has returned.
CallerCalls(c) ==
  /\ At(c, "idle") /\ tries[Starter] = 1 /\ Call
  /\ \/ Move(c, "request")
     \/ Move(c, "gate")
     \/ Move(c, "close")
  /\ UNCHANGED <<bufferVars, endVars, refreshVars, transportVars, historyVars,
                 generation, gate, book>>

\* A caller drops the future of refresh_snapshot at an await point.
CallerCancels(c) ==
  /\ at[c] \in {"gate", "fetch"} /\ tries[c] = 1 /\ Fault
  /\ gate' = IF gate = c THEN NoTask ELSE gate
  /\ Move(c, "idle")
  /\ UNCHANGED <<bufferVars, endVars, refreshVars, transportVars, historyVars,
                 generation, book>>

CloseDispose(c) ==
  /\ At(c, "close")
  /\ disposed' = TRUE
  /\ Move(c, IF disposed THEN "idle" ELSE "closeClear")
  /\ UNCHANGED <<bufferVars, stopped, lastError, failed, refreshVars,
                 transportVars, budgetVars, historyVars, generation, gate, book>>

CloseClear(c) ==
  /\ At(c, "closeClear")
  /\ generation' = generation + 1
  /\ ClearPublications
  /\ Move(c, "closeStop")
  /\ UNCHANGED <<ready, endVars, refreshVars, transportVars, budgetVars,
                 historyVars, gate, book>>

CloseStop(c) ==
  /\ At(c, "closeStop")
  /\ ready' = FALSE /\ stopped' = TRUE
  /\ Move(c, "idle")
  /\ UNCHANGED <<buffering, pending, disposed, lastError, failed, refreshVars,
                 transportVars, budgetVars, historyVars, generation, gate, book>>

CallerStep(c) == CloseDispose(c) \/ CloseClear(c) \/ CloseStop(c)

-----------------------------------------------------------------------------
(* The server and the transport *)

\* The server makes an update; a live subscription may miss it (a fault).
Publish ==
  /\ server < MaxSeq
  /\ server' = server + 1
  /\ \/ link = "up" /\ queue' = Append(queue, server') /\ UNCHANGED budgetVars
     \/ link = "up" /\ Fault /\ UNCHANGED queue
     \/ link # "up" /\ UNCHANGED <<queue, budgetVars>>
  /\ UNCHANGED <<bufferVars, endVars, refreshVars, link, connectedOnce,
                 historyVars, generation, gate, book, at, localVars>>

LinkFails ==
  /\ link = "up" /\ Fault
  /\ link' \in {"broken", "ended"}
  /\ UNCHANGED <<bufferVars, endVars, refreshVars, server, queue, connectedOnce,
                 historyVars, generation, gate, book, at, localVars>>

-----------------------------------------------------------------------------
TaskStep(t) == RefreshStep(t) \/ RequestStep(t) \/ FailStep(t)

TaskFault(t) == FetchFails(t) \/ InstallGarbled(t) \/ ApplyOverflows(t) \/ ApplyPanics(t)

Environment ==
  \/ Publish \/ LinkFails \/ ConnectFails \/ StartTimesOut
  \/ \E t \in Tasks : TaskFault(t)
  \/ \E c \in Callers : CallerCalls(c) \/ CallerCancels(c)

Next ==
  \/ \E t \in Tasks : TaskStep(t)
  \/ \E w \in Workers : WorkerStep(w)
  \/ \E c \in Callers : CallerStep(c)
  \/ RunStep \/ StartStep
  \/ Environment

Spec == Init /\ [][Next]_vars

\* Every task is scheduled; a REST read is answered or fails within the
\* client's request timeout, so a fetch always ends.
FairSpec ==
  /\ Spec
  /\ WF_vars(RunStep) /\ WF_vars(StartStep)
  /\ \A t \in Tasks : WF_vars(TaskStep(t))
  /\ \A w \in Workers : WF_vars(WorkerStep(w))
  /\ \A c \in Callers : WF_vars(CallerStep(c))

-----------------------------------------------------------------------------
(* Properties *)

FlagsOK ==
  /\ ready \in BOOLEAN /\ disposed \in BOOLEAN /\ buffering \in BOOLEAN
  /\ workerRunning \in BOOLEAN /\ requested \in BOOLEAN
  /\ stopped \in BOOLEAN /\ failed \in BOOLEAN /\ connectedOnce \in BOOLEAN
  /\ gate \in Tasks \cup {NoTask} /\ lastError \in Errors /\ link \in Links

CountersOK ==
  /\ generation \in Nat /\ book \in Nat /\ server \in Nat
  /\ asked \in Nat /\ handled \in Nat
  /\ calls \in Nat /\ faults \in Nat

DeltasOK ==
  /\ pending \in Seq(Nat) /\ Len(pending) <= MaxBuffered
  /\ queue \in Seq(Nat)

TasksOK ==
  /\ at \in [Tasks -> Labels] /\ next \in [Tasks -> Labels]
  /\ recorded \in [Tasks -> BOOLEAN] /\ tries \in [Tasks -> Nat]
  /\ gen \in [Tasks -> Nat] /\ snap \in [Tasks -> Nat]
  /\ batch \in [Tasks -> Seq(Nat)]

\* Every variable has its type, every position is a label of the code, and the
\* recovery buffer never holds more than max_buffered publications.
TypeOK == FlagsOK /\ CountersOK /\ DeltasOK /\ TasksOK

\* A task that has taken deltas out of the shared state and not applied them,
\* or that met a gap (a panic) and has not yet suspended (disposed) the stream.
MidApply(t) ==
  \/ at[t] \in {"install", "apply", "live", "fail", "failDispose"}
  \/ /\ at[t] \in {"request", "reqBump", "reqBuffer"}
     /\ t = Run \/ gate = t

\* While the stream passes deltas straight through and no task is in the
\* middle of doing so, the book reflects every publication handled so far:
\* buffering, draining, gaps, superseded refreshes and reconnects lose none.
ServingIsComplete ==
  ~buffering /\ ~disposed /\ (\A t \in Tasks : ~MidApply(t)) => book >= handled

\* The stream refines the promise made to the consumer: live means followed
\* without a gap, never rewound, and a refresh that was asked for is not
\* answered with a book fetched before it was asked.
View == INSTANCE BookView WITH log <- server, live <- ~buffering, pos <- book

FollowsTheLog == View!Spec

\* At most one worker task is inside the rounds of run_requested_refreshes,
\* whatever the handoff between a retiring worker and a new request does.
OneWorker ==
  \A v, w \in Workers :
    {at[v], at[w]} \cap {"idle", "handoff"} = {} => v = w

-----------------------------------------------------------------------------
(* The inductive invariant behind FollowsTheLog *)

Refreshing == {"begin", "buffer", "fetch", "take", "install", "drain",
               "clearError", "returnErr"}
Requesting == {"request", "reqBump", "reqBuffer", "reqSpawn"}
FailSteps == {"fail", "failDispose", "failClear", "failStop"}
AfterFail == {"idle", "pump", "done", "unready", "close", "apply", "returnErr"}

\* The gate is held exactly by the task inside refresh_snapshot_once, also
\* while that task is in a callback, a request or a failure made from there.
HolderOK ==
  gate # NoTask =>
    /\ at[gate] \in Refreshing \cup Requesting \cup FailSteps \cup {"apply"}
    /\ at[gate] \in FailSteps => next[gate] \in {"apply", "returnErr"}

PlaceOK(t) ==
  /\ at[t] \in Refreshing => gate = t
  /\ at[t] = "apply" => t = Run \/ gate = t
  /\ at[t] \in FailSteps /\ next[t] = "apply" => t = Run \/ gate = t
  /\ at[t] \in FailSteps /\ next[t] = "returnErr" => gate = t
  /\ next[t] \in AfterFail
  /\ at[t] = "live" => t = Run

\* No position or publication is ahead of the server.
Upto(seq, n) == \A i \in DOMAIN seq : seq[i] <= n

SharedOK ==
  /\ book <= server /\ asked <= server
  /\ Upto(queue, server) /\ Upto(pending, server)

HeldOK(t) == Upto(batch[t], server) /\ gen[t] <= generation

\* A refresh between its fetch and its install is buffering; its snapshot is
\* as new as the book, as anything Run still holds, and, unless it has been
\* superseded, as the log when a refresh was last asked for.
FetchOK(t) ==
  /\ at[t] \in {"fetch", "take", "install"} => buffering
  /\ at[t] \in {"take", "install"} =>
       /\ book <= snap[t] /\ snap[t] <= server
       /\ Current(t) => asked <= snap[t]
       /\ t # Run => Upto(batch[Run], snap[t])

\* After the install the book is; a request made from inside supersedes.
AnswerOK(t) ==
  gate = t =>
    /\ \/ at[t] \in {"apply", "drain"}
       \/ at[t] \in FailSteps /\ next[t] = "apply"
       => (Current(t) => asked <= book)
    /\ at[t] \in {"reqBuffer", "reqSpawn"} => gen[t] < generation

TaskOK(t) == PlaceOK(t) /\ HeldOK(t) /\ FetchOK(t) /\ AnswerOK(t)

Consistent == HolderOK /\ SharedOK /\ \A t \in Tasks : TaskOK(t)

IInv == TypeOK /\ Consistent

-----------------------------------------------------------------------------
(* Liveness and what the code's documents say *)

AtRest == /\ \A t \in Tasks \ {Run} : At(t, "idle")
          /\ At(Run, "done")

\* A stream that is stopped, by close() or by a failure, winds down: every
\* task that was connecting, fetching, applying or pausing comes to rest.
Stops == stopped ~> AtRest

\* The doc of request_refresh (snapshot_then_stream.rs:186): a request that
\* arrives during a fetch schedules a follow-up.  When all work is done and no
\* refresh has failed or was given up, the stream is not left buffering with
\* nobody refreshing it.
Settled == /\ \A t \in Tasks \ {Run} : At(t, "idle")
           /\ At(Run, "pump") /\ queue = <<>>
RequestsAreServed == Settled /\ faults = 0 /\ ~disposed => ~buffering

\* The doc of err() (snapshot_then_stream.rs:201): once a failure has ended the
\* stream and every task has come to rest, its error is still there.
FailureKeepsItsError == failed /\ AtRest => lastError # "none"
=============================================================================
