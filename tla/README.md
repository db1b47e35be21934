# Verification of polyester-sdk-rust

TLA+ models of the stateful parts of the SDK, TLC instances that check them,
and TLAPS proofs of what matters most. Paths below are relative to the
repository; `STS` is `src/realtime/snapshot_then_stream.rs`, `MD` is
`src/services/market_data.rs`, `OB` is `src/orderbook/mod.rs` and `PO` is
`src/realtime/private_orders/mod.rs`; `RT` is `src/realtime/mod.rs`.

`PROJECT.json` maps every definition to the lines it models, and lists the
runs, the mutants each property was tried against, the hazards and the theorems.

## 1. The system

The crate is an async client (tokio, multi-threaded runtime) for an exchange.
Most of it converts single messages; its state, and what is hard about it, sits
in the following parts.

| Component | State | Operations | Talks to | Hard because |
|---|---|---|---|---|
| Snapshot-then-stream coordinator (`STS`) | ready, disposed, generation, publications (buffer + phase), refresh gate, worker/request flags, last error, stop signal | `start`, `refresh_snapshot`, `request_refresh`, `request_refresh_after`, `close`; tasks `run`, `pump`, refresh workers | a `TypedSubscription` (publications, reconnects), callbacks that fetch, apply and fail | every shared cell is read and written separately by many tasks; snapshots race with gaps, reconnects, terminations |
| Order book and sequence check (`OB`, `MD`) | two sides, `book_seq` | `apply_delta`, `apply_snapshot` | called by the coordinator | overlapping, repeated, late, reset and corrupt deltas; end of the `u64` space |
| Managed order-book subscription (`MD`, `src/orderbook/subscription.rs`) | availability, recheck flag and generation, bucket, the consumer's queue | `emit`, `set_bucket`, `close`, paced snapshot requests | coordinator, consumer | three emitters, a copy under a lock and a send outside it, sleeping requests |
| Signing timestamps (`src/auth.rs`) | per-key allocator, async gate | `next`, `next_async`, `allocator_for_key` | wall clock, monotonic clock | lock-free exchange, clock that stands still or is set back, backpressure window |
| Private order streams (`PO`) | per-account subscription, one socket, requests in flight, timers | commands from handles, frames, token/open results, timers | token service, websocket server, consumers | late answers to given-up requests, shared subscriptions, slow consumers, resync, resume cursors |
| Managed resubscription (`src/realtime/resubscribe.rs`) | attempt slots, removal notes, a shared read | `attempt_after`, `await_resume`, `note_update` | sub-account service | coalesced reads, rate of attempts, removal racing a read |
| Websocket loop and typed subscriptions (`RT`) | connection, backoff, bounded queue, recorded error | subscribe loop, `try_enqueue`, `recv`, `close` | websocket, token renewal, managed resubscription | batches against a full queue, gaps of a reconnect, bad members, ends of every kind |
| Token renewal (`src/realtime/renewal.rs`) | schedule, outstanding fetches and commands | `schedule`, `start_due`, `command`, `take_reply` | token service, the connection | replies, refusals and failed fetches of two tokens in any order |
| Catalogs (`src/catalogs/mod.rs`, `src/client.rs`) | installed configurations, last error, once-cell, lock | hydrate, wait | REST | waiters, order calls, explicit and background hydration at once, dropped callers |
| Order services (`src/services/orders.rs`, `unary.rs`) | none between calls; deadlines and retries inside one | waits for trades, batch replacement, retries | REST | answers after deadlines, retried admissions |
| Market overview (`src/marketoverview`, `MD`) | rows, last error, the consumer's sender | merge of snapshot and batches, `emit`, `close` | coordinator | rows have no sequence number; snapshot applied in pieces; two emitters |
| User operations (`src/chain/userop.rs`) | none between calls | `send_calls`, `wait_for_receipt` | bundler | polling until a deadline |
| Transport, errors, codecs, models, types, generated code, thin services, environment | none | conversions | - | - |

How they interact: the services create a coordinator for each book or overview
subscription; the coordinator owns a `TypedSubscription` (websocket loop with
tokens from the renewal part) and calls back into the service, which applies
snapshots and deltas to a book and emits views into the consumer's bounded
queue. A gap, an unavailable book or an application's call asks the
coordinator for another snapshot. Order streams have an actor and a socket of
their own. Every signed request takes a timestamp from its key's allocator.

What makes each of the modelled components correct:

* **Coordinator**: while live, the book follows the log without a gap, never
  rewinds, and never resumes on a snapshot older than the last request; no
  publication it handled is lost; there is one refresh worker; a stopped stream
  winds down.
* **Order book**: the book is the server's book at the claimed sequence number;
  nothing is skipped in silence.
* **Managed subscription**: what is shown can be traded on; an unavailable
  book is asked for again, by one sleeping request; the channel ends.
* **Signing**: timestamps of a key grow strictly, stay inside the window, and
  every call returns.
* **Private orders**: no torn view, no forgotten account, no server
  subscription nobody listens to, consumers of one account are told the same.
* **Managed resubscription**: a subscription that the server ended resumes only
  on evidence that access is granted, a removal overrides an older answer, reads
  and attempts are paced however many subscriptions ended together, flapping has
  a budget, and every ended subscription resumes or ends.
* **Typed subscription**: no publication is skipped without a gap mark, a clean
  end is the application's own, the receiver learns of every end.
* **Token renewal**: a token that expires always has its next renewal scheduled,
  on its way, or reported as failed.
* **Catalogs**: success means that both catalogs are installed, a failure is
  explained, no attempt overwrites a newer configuration, every call returns.
* **Market overview**: once caught up the rows are the server's; a closed
  overview ends its channel and its tasks.

## 2. Modules

| Module | What it is |
|---|---|
| `BookView` | abstract: a position that follows a log, may be suspended, and resumes only past what was asked |
| `SnapshotStream` | the coordinator with its callbacks; refines `BookView` |
| `SnapshotStreamProofs` | its proofs |
| `OrderBook` | the book and its sequence rules against any delivery of deltas |
| `OrderBookDisplay` | extends `OrderBook` with what the consumer is shown |
| `BookDelivery` | emitters, queue, paced requests, close |
| `FoldInduction` | induction over a fold whose body an INSTANCE gives |
| `ManagedBookProofs` | proofs about the three modules of the managed book |
| `MarketOverview`, `MarketOverviewProofs` | the managed overview over the coordinator's gate, buffer and pump; proofs |
| `TokenRenewal` | the renewer of one connection, as actions on its state |
| `TypedSubscription` | extends `TokenRenewal` with the loop, the queue and the receiver |
| `Resubscribe` | several subscriptions that share what the client knows of its access |
| `CatalogHydration` | who fills the catalogs, and who waits |
| `BackgroundProofs` | proofs about what a client keeps going in the background, `TypedSubscription` and `CatalogHydration` |
| `SigningTimestamps` | the allocator of signing timestamps |
| `PacingProofs` | proofs about what is handed out at a distance, timestamps and attempts |
| `PrivateOrders` | the actor, its tasks, the handles and the server |
| `PrivateOrdersLemmas`, `PrivateOrdersProofs` | its inductive invariant and what the actor's operations keep of it; the frames of the server and the theorems |
| `MC*` | values of constants for TLC |

The four book modules divide one subscription: `SnapshotStream` has all tasks
and locks and keeps only sequence numbers of deltas; `OrderBook` has the
contents and treats the order of deltas as arbitrary, which covers every order
the coordinator can produce; `OrderBookDisplay` renders in the step that emits;
`BookDelivery` takes that step apart and keeps only a version of the book. That
the pump and a refresh may emit at once, which `BookDelivery` assumes, is a
behaviour of `SnapshotStream`.

Two modules look at the same loop of `RT`. `TypedSubscription` has one
subscription in full and lets the wait of a resumed one end either way;
`Resubscribe` has many subscriptions and takes that wait apart, with the
connection itself up or down. The link and queue of `SnapshotStream` and of
`MarketOverview` are what `TypedSubscription` promises: publications in order,
then a loss or an end.

### SnapshotStream

One step per access to shared state: an atomic, the publications lock, the
refresh gate or the book's lock. `at[t]` is the position of a task in the code,
and the labels follow the functions: `gate begin buffer fetch take install
apply drain clearError returnErr` is `refresh_snapshot_once`, `request reqBump
reqBuffer reqSpawn` is `request_refresh`, `round check checkErr pause idling
handoff` is `run_requested_refreshes`, `fail ...` is `fail_closed`, `close ...`
is `close`, `connect connected connectPause pump live` is `run` and
`pump_subscription`. A step may be taken by `Run`, by a worker or by a caller,
as in the code. `next`, `recorded`, `gen`, `snap`, `batch` and `tries` are
locals. `asked`, `handled` and `failed` are history variables that guard
nothing.

Adjacent statements are one step only where no other task can tell: accesses
under one lock, and locals. Snapshots the callback cannot decode
(`InstallGarbled`) and panics in a callback are steps of their own. The log of
the server is a counter, a publication is a number, and the callbacks are
`handle_delta` and `apply_snapshot` of the order book; delivering a view is in
`BookDelivery`, whose overflow appears here as a failure.

### OrderBook and OrderBookDisplay

A delta has a start, an end, a reset flag and the levels it names, with their
absolute quantities at its end; it names at least what changed in its span and
may name others (`Spare`). Any delta about the server's log may arrive at any
moment: that is loss, repetition, delay, reordering and coalescing. A corrupt
delta is one the codec rejects. `seq + 1` at `TopSeq` saturates, as the code's
arithmetic on `u64` does. The display adds buckets, the depth limit, and the
overflow of a bucket's sum or upper edge, which fails the subscription.

### BookDelivery

`emit()` in its steps: copy under the lock (`Clone`), render (`RenderFails`),
enqueue (`Send`), fail on a full queue (`Fail`). A sleeping
`request_refresh_after` is a count per captured generation (`timers`); its delay
may end at any time, so the doubling from one to eight seconds is abstracted.
What follows the delay is two steps, as in the code: `Fire` is `still_wanted`,
which decides under the book's lock and releases it, and `Ask` is the
`request_refresh` of a task that was let through (`asking`). A snapshot may be
installed between them, so a request can reach a book that has just become
available and cost one refresh nobody needed. `NoObsoleteRecheck` therefore says
what the generation does promise: no delay that ends while the book is available
lets a request through, and one that still arrives is of an earlier generation.

### SigningTimestamps

The registry, the exchange loop in its steps (clock, load, exchange, which may
fail spuriously), the gate of `next_async`, its sleep and its two time limits,
and a future that is dropped while it waits. Two clocks: the wall clock may be
set back once, the monotonic clock may not.

### PrivateOrders

A handler of the actor runs without interruption, so each is an operator from
the actor's state to the next; frames it sends, tasks it spawns and events it
delivers are fields of that state. `Next` interleaves handlers with the
spawned tasks' results, the socket, the timers, the handles and the server.
Commands queued together form a batch whose idle accounts are collected at its
end, as in the actor's loop.

Abstractions: the orders of an account are a position in its history, so the
view and the resume cursor of a position are that position, and a unit applied
to another view than its predecessor gives `Torn`. A deadline is armed or not,
and an armed one may fire whenever the actor is between handlers. Attempt
counters behind a backoff are kept as none or some; jitter is left out. Two
identical tasks in flight are one. An error frame answers a request, or has no
id and is about a subscription or about none (`OnRequestError`,
`OnSubscriptionError`); the server may send one of either sort (`ServerNotice`). The server follows the comments of the frame
definitions in `src/gen/buffa/privatews.v1.rs`; the maps mark it external.
Left out: the end of the actor with its client and its replacement on another
runtime (`PO:190`), and the token calls and socket setup of `LiveTransport`.

### Resubscribe

`pc[s]` is where the loop of a subscription is, `resume` and `attempts` its
`ResubscribeAttempt`. `ServerEnds` is the unsubscribe of the server, with or
without a stay long enough to restore the budget (`Budget`). `Wake` is the end
of the backoff and `Join` what follows: the read that has not begun (`nextRead`)
is joined, else a new one is made for the end of the interval. `StartRead` and
`ReadAnswered` are the shared request, `Decide` what each waiter makes of its
answer, `ReserveAttempt` the attempt slot, `SlotOpens` the check for a removal
that arrived meanwhile. `reason` is the error or end reason a loop records when it
ends, so `RemovalIsNewer` can say which of several grounds won at each place
that waits: the head of the loop, the end of the backoff, the answer of the list
and the slot. The queue may overflow while a connection is set up as well as
later (`Overflow`). `NoteUpdate` is `note_update`; the server's updates may
be late or lost (`UpdateLost`). Intervals are counted in ticks and timers hold
what remains of them, so one that has run out may be noticed late. A read that
everybody has stopped waiting for still counts for the pace. Subscriptions to
other channels end at the server's first unsubscribe and are left out.

### TokenRenewal and TypedSubscription

`TokenRenewal` is the state of a `TokenRenewer` with one action per method, and
what the server has still to answer. A time to live ends at any time. Ids are
finite: a command takes one that no unanswered command has, while the code's
wrap after 2^32 commands.

`TypedSubscription` adds the loop. `SetupDone` and `SetupFails` are the connect
and subscribe handshake, whose replies hold back what arrives in between;
`Delivers` is a publication or a batch of them, of which members may not decode
and the queue may not take all; `Unsubscribed`, `BadPublication` and
`ConnectionFails` are the ways a connection ends, `Fails`, `Overflows` and
`ServerEnded` what the loop makes of them; `Recv`, `RecvEnd` and `Close` are the
handle. A publication is a number and an item of the queue holds which number it
follows (`after`) and whether it carries a gap mark, so `NoSilentGap` can compare
the two. Abstracted: the ping watchdog is one of the ways a connection fails,
and the socket and the deque of decoded replies are one queue. The loop for JSON
channels has the same shape with text payloads and is not modelled again.

### CatalogHydration

`permit` and `cell` are tokio's `OnceCell`: the permit is held during
`get_or_init`, and a future that is dropped gives back permit and lock
(`Cancel`). `lock` is `catalog_hydrate_lock`. The tasks are the background
hydration, callers of `wait_for_catalogs` and `hydrate_catalogs`, and order calls.
`Check`, `LookAtCell`, `Initialise`, `Poll` and `Lock` are the code before an
attempt, in its order; `FetchSpot`, `FetchZipper` and `Install` the attempt, in
which each fetch, and the validation of what was fetched, may fail. A
configuration is the version of it that the server had when it was read.
`enabled` is `Config::hydrate_catalogs`, and there are three initial states: the
background task is on its way, the client was built outside a runtime, so that
the cell holds an error already, or hydration is disabled. In the last,
`wait_for_catalogs` and the order calls return `Ok` at once and find what they
find; `OkMeansReady` claims the catalogs there only of `hydrate_catalogs`.

### MarketOverview

The coordinator is here again with what the overview needs of it: gate, buffer,
`disposed`, pump, reconnect, `refresh_snapshot`. No callback of an overview
requests a refresh, so only the end of the stream supersedes one, and the
generation check is `disposed`. The rows are taken apart as the code does:
`Clear`, `ApplySnapshot` and each `ApplyBatch` take the lock of the rows
separately, and `emit` is a copy, a send, and the failure of a full queue. A row
is the number of changes its market had. A snapshot lists only `Listed` markets
(the limit of the request), the channel brings every market. Views are places in
the consumer's queue; their content is left out. The end of a
connection or of the channel, a refused or late `start` and the two halves of
`close` are actions.

## 3. Runs

| Run | Question | Instance |
|---|---|---|
| `snapshot_safety` | `FollowsTheLog`, `ServingIsComplete`, `OneWorker`, `Stops`: what a live stream promises, and that a stopped one comes to rest | 2 workers, 2 callers, 2 updates, 1 call after start, 1 fault, buffer of 1, 2 attempts; 0.96M states |
| `book_safety` | `BookIsTheServers`, `NothingSkipped`, `NeverRewinds`, `ViewIsExecutable` | 3 prices, log of 2 updates ending at `u64::MAX`, buckets 0 and 3, depth 2, largest integer 5; 0.28M states |
| `delivery` | `RecheckScheduled`, `NoObsoleteRecheck`, `RecheckHappens`, `ChannelEnds` | queue of 1, 2 snapshots; 0.29M states |
| `overview` | `RowsConverge`, `ClosedEnds` | 2 markets of which 1 is listed, queue and buffer of 1, 3 changes, 1 batch on the wire, 1 lost connection, 1 call; 1.12M states |
| `subscription` | `NoSilentGap`, `CleanEndIsTheApplications`, `RenewalGoesOn`, `EndIsDelivered` | both tokens, queue of 2, 3 publications, 2 frames on the socket; 0.69M states |
| `resubscribe` | `ResumesOnlyWhenGranted`, `SlotsAreSpaced`, `FlappingIsBounded`, `ReadsArePaced`, `RemovalIsNewer`, `ResumesOrEnds` | 2 subscriptions of 1 sub-account, 2 reads, 2 attempts, intervals of 1 tick, 1 update under way; 0.85M states |
| `catalogs` | `OkMeansReady`, `FailureIsExplained`, `NeverOlder`, `CallsReturn` | background task and 2 callers, 2 versions, 3 calls; 0.31M states |
| `signing` | `Increasing`, `LeadIsBounded`, `CallsReturn` | 2 tasks, 2 keys, skew 1, backpressure 1, time to 2, 2 calls, integers to 3; 0.21M states |
| `orders_safety` | `ViewsAreWhole`, `NeverForgotten`, `ReadyIsCurrent` | 1 account, 1 consumer, history 2, 2 frames in flight, 1 fault, 2 notices; 2.88M states |
| `orders_shared` | `SameKnowledge`, `EndIsExplained`, `NothingLeftBehind`, `OneServerSubscription` | 2 accounts, 2 consumers, queue of 2, 1 notice; 3.60M states |
| `orders_live` | `EveryConsumerIsServed`, `EveryConsumerGetsReady` | 1 account, 1 consumer, 1 fault, 1 notice; 44k states |
| `snapshot_lost_request` | `RequestsAreServed` does not hold: finding 1 below | 2 callers, 1 update, 2 calls, no faults |

Why these bounds are enough to see the interesting cases. Two workers allow the
handoff race of a retiring worker and a new one. A buffer of one overflows on the second
publication of a slow fetch, two updates make a gap. One fault followed by
unlimited healthy steps shows recovery; the theorems remove the bound for
safety. Three prices fall into two buckets, one of which mixes a boundary and an
interior price, and overflow at 5. A queue of two in `orders_shared` is full in
the middle of the catch-up of a late consumer. Two notices let an expiring
token meet a resync or an end. A queue of two takes only a part of a batch of
two behind an unread item, and three publications leave one before, in and
after a gap. Two subscriptions of one sub-account share a read, or miss the one
under way and need the second, and compete for a slot. Two callers beside the background task let one wait for
the permit while another holds the lock, and two versions make an older answer.
One listed market and one beyond the limit are the two kinds there are; three
changes let a batch be older, as old and newer than a snapshot, and one call
refreshes beside the pump and beside `start`. Each property is violated by the mutant
`PROJECT.json` names for it, under the same bounds, so none is vacuous.

Symmetry of consumers is used in `orders_shared` and of workers in
`snapshot_lost_request`, which check invariants only; runs with liveness have
none.

Deadlock is not checked except in `book_safety`: closed and ended streams, a
client without calls left and exhausted budgets really stop.

### Fairness

* `SnapshotStream`: weak fairness of each task, which the runtime's scheduler
  gives; the fetch of a snapshot ends because the HTTP client has a timeout.
  Nothing is assumed of publications, links, callers or failures.
* `BookDelivery`: weak fairness of the emitters, of delays that end, of the
  requests they let through, and of the terminal callback; the consumer need not read.
* `SigningTimestamps`: time passes; runnable tasks run; the exchange is strongly
  fair, since a weak exchange does not fail forever without contention. Waiting
  for the gate needs no fairness of the gate: its time limit ends it.
* `PrivateOrders`: the actor's steps that do not fail, and a server that reads
  and sends. No failure is owed: a timer that stands for a lost answer may fire
  but never has to, and consumers need neither read nor leave.
* `Resubscribe`: sleeps end, tasks run, a connect and a read end because each
  request has a deadline. The server may end subscriptions and change access for
  ever, and updates may never come.
* `TypedSubscription`: the task handles what arrived, and `EndIsDelivered` is
  about a consumer that reads. Nothing is owed by the server or the network.
* `CatalogHydration`: tasks run; a fetch ends by the HTTP timeout. Waiting for
  the permit and the lock is weakly fair: every holder returns them, and the
  number of calls is bounded, so a waiter is passed over finitely often (tokio's
  queues are fair besides).
* `MarketOverview`: tasks run and a fetch ends. Nothing is owed by the exchange,
  the connection or the consumer.

## 4. Proofs

All by TLAPS, for every value of the constants under the named assumptions of
the modules (`TasksAssumption`, `BoundsAssumption`, `OrderBookAssumption`,
`DisplayAssumption`, `SigningAssumption`, `DeliveryAssumption`, `ResubscribeAssumption`,
`CatalogAssumption`, `TypedSubscriptionAssumption`, `TokenRenewalAssumption`,
`PrivateOrdersAssumption`), which only say that bounds are naturals, that tasks are
different, and that what the code loops over (prices, accounts, consumers) is finite.

**SnapshotStream.** `TypeCorrect` is the type invariant, the bound of the
recovery buffer included. `InvCorrect` is `Spec => []IInv`, and
`StreamFollowsTheLog` that every behaviour of the coordinator is one of
`BookView`. The refinement alone is not inductive: to see that installing a
snapshot neither rewinds nor resumes too early, one must know who may be
between a fetch and an install. `IInv` says so in parts:

* `HolderOK`, `PlaceOK`: the gate is held exactly by the task inside
  `refresh_snapshot_once`, also while a callback of it asks for a refresh or
  fails; only that task and `Run` apply.
* `SharedOK`, `HeldOK`: nothing held is ahead of the server's log.
* `FetchOK`: between fetch and install the stream is buffering; the snapshot
  is at least as new as the book and as what `Run` still holds, and, unless the
  refresh was superseded, as the last request.
* `AnswerOK`: after the install the book is, and a request made from inside the
  refresh has superseded it.

The generation check (`Current`) is what carries `FetchOK` over a request that
arrives during a fetch. The proof has one lemma per part of the code for types,
one for the invariant and one for the refinement step.

`WorkerTheorem` is `OneWorker`: `WorkersCounted` adds that `workerRunning` is set
as long as a worker is inside its rounds. `CompleteTheorem` is
`ServingIsComplete`. Its strengthening `Covered` follows the last publication
handled: it is in the book, or the stream buffers and either its buffer reaches
it or a request at least as new stands, or some task carries it (`Carries`): as
a batch it is applying, as a gap it is about to turn into a request, or as a
failure that will dispose the stream. `EndedOK` says that nothing after the store
of `disposed` is done of a stream that is not disposed.

**OrderBook.** `BookTypeCorrect`, `BookCorrect`, `GapsAreSeen`,
`DeltasNeverRewind`. The argument is about one applied delta: it is neither
stale nor refused, so its span holds both the client's sequence number and its
own end; a level it does not name has the same quantity at both, a level it
names gets the quantity at the end.

**OrderBookDisplay.** `ViewTheorem` is `ViewIsExecutable`. `ViewIsOfTheLog`, that
a view shows the levels of the server's book at the number it names, rests on
`BookIsTheServers`; the rest is about `Levels` alone. A price is at a bucket or
better exactly when its own bucket is, since rounding keeps the order to a
multiple (`BucketKeepsOrder`); the levels shown hold every bucket better than one
of them, and there are `Depth` of them unless none is left out (`BestPrices`, on
the rank of a bucket); and the sum of the sums by bucket is the sum
(`TotalOfTotals`).

**FoldInduction.** A module of lemmas, which says nothing about the code by
itself. `Total` is a fold, and so are the loops of `PrivateOrders`. The induction
theorems of the library take an operator as a parameter, which no installed
prover can instantiate.
`FoldInduction` has the body, the order and the invariant of a loop as CONSTANT
operators, so an INSTANCE gives them, and proves from the definition of
`MapThenFoldSet` that the recursion it chooses exists, is unique (`FoldUnroll`)
and keeps the invariant.

**SigningTimestamps.** `SigningTypeCorrect`, `TimestampsIncrease`,
`TimestampsStayInWindow`. `Registered` says a key has one allocator, shared by
all its credentials and by no other key; `UpToLast` that the allocator is a
bound of everything handed out. An exchange succeeds only on the value its
candidate was computed from, so the candidate is above that bound. `Paced`
bounds clock readings and candidates while the clock has not been set back.

**BookDelivery.** `ScheduledTheorem` and `NoObsoleteTheorem`. That an
unavailable book has exactly one request under way needs to know who may be about
to make one and which sleeping request counts: `OneTimer` says that a pending
recheck has one timer of the current generation, and none of a later one,
`PendingIsNeeded` that a pending recheck, or one of the current generation that
was let through, means an unavailable book, or a refresh in the middle of
replacing it. That a late request is of an earlier generation follows from it.

**Resubscribe.** `GrantedTheorem`, `SpacedTheorem`, `FlappingTheorem`,
`PacedTheorem` and `RemovalTheorem`, for any number of subscriptions,
sub-accounts and reads. The invariant ties a waiting subscription to its read
(`Readers`: a read that somebody waits for is not used again; `NextRead`: the
read that may be joined has not begun and its wait ends with the interval), a
subscription past its read to the evidence (`Resuming`), reserved slots to the
next one (`Slots`: all lie before it, a spacing apart), and attempts to the
budget (`Tries`). `RemovalTheorem` goes through every step that leaves a wait
(`StepAfterRemoval`).

**CatalogHydration.** `ReadyTheorem`, `ExplainedTheorem`, `NeverOlderTheorem`.
`OneAttempt` says that only the holder of the lock is in an attempt,
`FetchedIsNewer` that what it fetched is no older than what is installed: nobody
else can install in between. `Initialisers` and `OkIsReady` tie permit and cell
to the catalogs, and say that an explicit hydration never takes the early return.

**TypedSubscription.** `TypeCorrect`, and `CleanEndTheorem`: `EndIsRecorded`,
that a loop which ended leaves an error or a closed handle, is inductive together
with it. `NoSilentGapTheorem` needs to know what is still on the socket:
`Continues` says that the frames of an open connection lead, publication by
publication, from the last one enqueued, unless the consumer was told since, to
the last one published. A frame that breaks the chain ends the connection, and
the next connection tells. `RenewalTheorem`: `Chained` says that a kind of token is
at one place of its chain at most, scheduled, fetching, fetched or sent, and that
one which expires is at one.

**MarketOverview.** `OverviewTypes` is its type invariant, and
`ConvergenceTheorem` that once nothing is left to apply the rows are the
server's. "Nothing left" is where the invariant must start from everything that
is left: `Pending` is what lies before the rows on its way from the server, in
order, the batch being applied by the run loop, the one by the caller, the
buffer and the wire, and `RowsKnown` says that a row is the server's or a pending
publication names its market. `NewsFresh` says that the last pending publication
about a market tells what the server has now. Neither survives a refresh,
a loss or an end, so both are claimed only while the overview is up and not
closing (`Sound`), and `FirstRefreshToCome` and `GateHeld` say which task will
restore them: after a loss a refresh is to come, and only the holder of the
gate replaces the rows.

**PrivateOrders.** `OrdersTypes`, and one theorem for each safety invariant of the
runs: `WholeTheorem`, `KnowledgeTheorem`, `AskingTheorem`,
`SubscriptionTheorem`, `NothingTheorem`, `ExplainedTheorem` and `ReadyTheorem`, for
any number of accounts, consumers, faults and frames in flight. They share one
inductive invariant, since each needs what another says: that a view is whole rests
on which server subscription a frame belongs to, that on which request opened it,
and that on which request is the account's. Its parts:

* `Link`: requests, tasks, ids and views agree on who waits for what. `OneRequest`
  is the core: an account has at most one subscribe request, and none beside a
  subscription or a retry.
* `AllAsk`: `NeverForgotten`, for every account.
* `Ids`, `Heard`: an id is used once on each of its ways, and every subscription
  the server keeps is one the actor reads, one whose confirmation is unread, or one
  whose unsubscribe is queued. The second is why a confirmation that nobody waits
  for any more has to be answered with an unsubscribe.
* `Traced`: for each subscription that is read or about to be, there is a trace
  (`Follow`) of the stages and positions the server's stream went through. Unread
  frames are steps of it, each from the state its number names, and the view is
  where the number of its last frame says. Since a lost or garbled frame leaves a
  gap in the numbers, a frame applied in sequence is the step that follows the view.
  The trace outlives the server's subscription, whose last frames may still be on
  the wire, so it is a witness and not a variable.
* `Cursors`: what a view asks to resume from is what it shows.
* `Crowd`: each consumer knows what its account's view says (`Known`), one that
  has not been added yet knows nothing (`Audience`), and one without a stream was
  told (`Explained`); `Orderly` says that a removal is queued behind its addition.
* `ServerOK`: the server's subscriptions are not ahead of the accounts' histories.

A handler calls operations in whose midst this does not hold: a view that dropped
its subscription has not asked yet, a socket is gone and half the consumers were
told. `Fine` therefore has two parameters, the accounts that have yet to ask and
those whose consumers have yet to be told, and `Heard` a set of subscriptions whose
unsubscribe is to be sent. Each operation of the actor (`Deliver`, `Send`,
`Subscribe`, `Resubscribe`, `Detach`, `Teardown`, `OnClosed`, `Add`, `Attach`, and the
handlers of frames, timers, tasks and commands) has a lemma that says what it
changes and one that says what it adds to or takes from these sets. The loops over
accounts are folds and go by `FoldInduction`.

**Only model-checked**: all liveness (`Stops`, `RecheckHappens`, `ChannelEnds`,
`CallsReturn`, `ResumesOrEnds`, `EndIsDelivered`, `ClosedEnds`,
`EveryConsumerIsServed`, `EveryConsumerGetsReady`), which is out of reach of the
prover, as is ENABLED. Every safety invariant and every action property of a
passing run has a theorem.

The inductive invariants (`IInv` of each module, `CatalogIInv`) are in no configuration,
because what is proved for every instance need not be run on one; to look at one
with TLC, add it as an INVARIANT to the module's configuration. That of
`PrivateOrdersLemmas` asks for a trace among all functions, which TLC cannot
enumerate.

## 5. What the code does not do

The first has a run whose counterexample is the behaviour described. The next
four have a definition, and the bounds under which TLC shows that it fails.

1. *A request can be lost* (`snapshot_lost_request`, `STS:350`).
   `request_refresh` raises the flag, then bumps the generation. A worker that
   starts a round in between clears the flag and reads the old generation; the
   bump supersedes it; the request sees a running worker and starts none; the
   worker sees no follow-up. The stream stays buffering until something else
   asks.
2. *A terminal error can be erased* (`FailureKeepsItsError`, `STS:339`). A
   refresh that has just become ready clears `last_error` after a concurrent
   failure recorded it. Shown by `SnapshotStream` with one caller, one update,
   one call and one fault.
3. *The last view can be an older one* (`FlagTellsLastView` of `BookDelivery`,
   `MD:890`). Views are copied under the lock and sent outside it, so two
   emitters may send in the other order, and `last_view_unavailable` disagrees
   with what was sent. Shown with a queue of 2, one version and 2 snapshots. The
   overview's `emit` has the same shape.
4. *Ready means less to a late consumer* (`ReadyCoversEarlierReads` of
   `PrivateOrders`, `PO:557`). A consumer that joins a subscription which is
   ready is told so at once, although changes it read before joining are still on
   their way. `README.md` line 1292 tells applications to rely on them. Shown
   with one account, two consumers, a queue of 3, a history of 2 and no faults.
5. *An overview can show an older row after a reconnect* (`RowsConverge` of
   `MarketOverview` without its condition on `survivors`, `STS:423`, `MD:690`).
   `begin_buffering` keeps what is in the buffer. When a connection is lost while
   the stream is buffering, the refresh after the reconnect merges that batch
   over its newer snapshot, and the batches that would have made the row newer
   were lost with the connection. The order book has sequence numbers and is not
   concerned (`FollowsTheLog`). `README.md` line 884 says that managed streams
   rebuild their snapshots after a reconnect; the row stays old until its market
   changes again.

Without a property, because no source promises otherwise:

* `fail_closed` stores `ready = false` (`STS:508`) and `disposed = true`
  (`STS:509`) separately, so a refresh that becomes ready in between leaves a
  stopped stream with `is_ready()`. The steps are in the model (`FailUnready`,
  `FailDispose`, `DrainOrReady`).
* Attempts of catalog callers are shared only when they succeed: a waiter that
  finds the lock's last attempt failed makes one of its own
  (`CatalogHydration`, `Lock`).
* A snapshot of an overview is applied in pieces (`MD:654`): a view taken in
  between shows no rows, or the snapshot's without the batches. A market beyond the limit
  of the snapshot is gone from the rows after a refresh until its next batch.
* The client remembers a removal until an update says otherwise
  (`src/realtime/resubscribe.rs:4`): when the update of a new grant is lost, the
  subscription ends although the list would grant it. For the same reason the
  comment at `src/realtime/resubscribe.rs:269` is about the order in which the
  client learns of things: the update of a removal may be late, and arrive after
  a new grant and during the read that lists it.
* A request that was let through just before the snapshot that made its book
  available refreshes the book once more (`Fire`, `Ask` of `BookDelivery`).
* A panic in the decode closure of a typed subscription ends its task without a
  recorded error (`RT:418`), so `recv_result` reports a clean end. Only the error
  callback is isolated from panics (`RT:78`). `CleanEndIsTheApplications` is
  claimed for closures that return.

## 6. Not modelled, and why

* Pure conversions (codecs, models, types, calldata, key parsing), transport
  error mapping, thin services, environment and user agent: no state between
  calls. A model would restate each function; the unit tests, the vectors and
  the fuzzers of `src/fuzz` are the better tool.
* Generated code (`src/gen`): by far the largest part of the source, message
  types and their encodings only. The parts that the models rely on, such as the
  frame definitions of `privatews`, are the server's side of `PrivateOrders`.
* Order services (`src/services/orders.rs`, `unary.rs`): waits for trades, batch
  replacement and retries are sequences of requests over state of their own, with
  no second actor but the server. What makes them right is how the server's
  statuses and its admissions of repeated requests follow each other, which no
  source here states; a model would check its own assumptions.
* The order in which `stop_all_trading` and the helpers of private keys call
  services: straight-line code.
* User operations (`src/chain/userop.rs`): one submit-and-poll loop with a
  deadline and no shared state.
* The end of the `PrivateOrders` actor with its runtime and its replacement
  (`PO:190`): the consumers' channels end with it, and the new actor starts from
  the initial state of the model.
* In the modelled parts: a decode closure that panics (`TypedSubscription`; the
  panicking callbacks of the coordinator are in `SnapshotStream`), the ping watchdog as a clock, the loop for JSON
  channels, the socket setup and token calls of `LiveTransport`, the content of
  overview views, look-ups in installed catalogs, exact delays of backoffs.

## 7. Running it

    tlc -workers 2 -config SnapshotSafety.cfg MCSnapshotStream
    tlapm SnapshotStreamProofs.tla

The module and configuration of every run are in `PROJECT.json`. The longest
run takes about two and a half minutes on two cores. From nothing,
`PrivateOrdersLemmas` takes about nine minutes to prove and `PrivateOrdersProofs`
fourteen, the other proofs together about eight.
