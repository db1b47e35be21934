--------------------------- MODULE PrivateOrders ---------------------------
(***************************************************************************)
(* The actor behind orders.subscribe (src/realtime/private_orders/mod.rs): *)
(* one task owns every account's subscription, the socket they share, the  *)
(* requests in flight and the timers; short-lived tasks fetch tokens, open *)
(* sockets and pump frames, and report back through its channel.           *)
(*                                                                         *)
(* A handler of the actor runs without interruption, so it is an operator  *)
(* from the actor's state to its next one, with the frames it queues, the  *)
(* tasks it spawns and the events it delivers as fields of that state.  An *)
(* account's orders are a position in the account's history: the view of a *)
(* position, and the resume cursor of a position, are that position.       *)
(* Deadlines are armed or not; the attempts behind a backoff are 'none' or *)
(* 'some', which is all that a decision depends on.                        *)
(* The server follows the frame docs of src/gen/buffa/privatews.v1.rs.     *)
(***************************************************************************)
EXTENDS Naturals, SequencesExt

CONSTANTS
  Accounts,
  Consumers,    \* handles returned by connect
  QueueSize,    \* max_queue of a consumer
  MaxHistory,   \* bound: last position of an account's history
  MaxInFlight,  \* bound: server frames on the socket
  MaxFaults,    \* bound: failures of the network, the server and the tokens
  MaxNotices    \* bound: notices the server may send at any time

ASSUME PrivateOrdersAssumption ==
  /\ IsFiniteSet(Accounts) /\ IsFiniteSet(Consumers)
  /\ QueueSize \in Nat \ {0} /\ MaxInFlight \in Nat \ {0}
  /\ MaxHistory \in Nat \ {0} /\ MaxFaults \in Nat /\ MaxNotices \in Nat

VARIABLES
  actor,     \* Actor, with what it queued, spawned and delivered
  commands,  \* the channel from the handles
  batch,     \* the actor is inside a batch of queued commands
  inbox,     \* server frames on the current socket
  server,    \* the server's subscriptions on the current socket
  history,   \* the position of each account's history
  asked,     \* history: the position when a handle was asked for
  faults, notices

vars == <<actor, commands, batch, inbox, server, history, asked, faults, notices>>

None == 0            \* no connection, subscription, request, cursor or view
Torn == MaxHistory + 1   \* a unit was applied to the wrong view

NoFunction == [x \in {} |-> None]
Without(f, S) == Restrict(f, DOMAIN f \ S)
With(f, x, v) == [y \in DOMAIN f \cup {x} |-> IF y = x THEN v ELSE f[y]]

\* One frame of the server; n is a position.
Frame(kind, sub, seq, id, n) ==
  [kind |-> kind, sub |-> sub, seq |-> seq, id |-> id, n |-> n]

Init ==
  /\ actor = [subs |-> NoFunction, pending |-> NoFunction, bySub |-> NoFunction,
              unsubscribing |-> {}, idle |-> {},
              conn |-> None, writable |-> FALSE, out |-> <<>>, unwritable |-> None,
              connecting |-> FALSE, generation |-> 0,
              nextConn |-> 0, nextSubscription |-> 0, nextRequest |-> 0,
              reconnectAt |-> FALSE, heartbeatAt |-> FALSE,
              tasks |-> {},
              users |-> [c \in Consumers |->
                          [handle |-> "new", queued |-> 0, ended |-> "no",
                           connected |-> FALSE, view |-> None,
                           ready |-> FALSE, stale |-> FALSE]]]
  /\ commands = <<>> /\ batch = FALSE
  /\ inbox = <<>> /\ server = NoFunction
  /\ history = [x \in Accounts |-> 1] /\ asked = [c \in Consumers |-> 1]
  /\ faults = 0 /\ notices = 0

-----------------------------------------------------------------------------
(* Delivering events *)

\* A unit changes the view it follows.
Apply(view, pos) == IF pos = view + 1 THEN pos ELSE Torn

\* What a consumer knows after an event.
Told(u, event, n) ==
  CASE event = "connected"    -> [u EXCEPT !.connected = TRUE]
    [] event = "disconnected" -> [u EXCEPT !.connected = FALSE, !.ready = FALSE]
    [] event = "snapshot"     -> [u EXCEPT !.view = n]
    [] event = "unit"         -> [u EXCEPT !.view = Apply(@, n)]
    [] event = "ready"        -> [u EXCEPT !.ready = TRUE]
    [] event = "stale"        -> [u EXCEPT !.stale = (n # None)]
    [] event = "error"        -> u

\* offer: a consumer that went away or whose queue is full must leave.
Accepts(u) == u.handle # "dropped" /\ u.queued < QueueSize

Offer(u, event, n) ==
  IF u.handle = "dropped" THEN u
  ELSE IF u.queued = QueueSize THEN [u EXCEPT !.ended = "overflow"]
  ELSE [Told(u, event, n) EXCEPT !.queued = @ + 1]

Deliver(a, x, event, n) ==
  IF x \notin DOMAIN a.subs THEN a
  ELSE LET all  == a.subs[x].consumers
           kept == {c \in all : Accepts(a.users[c])}
       IN  [a EXCEPT !.users = [c \in Consumers |->
                                  IF c \in all THEN Offer(@[c], event, n) ELSE @[c]],
                     !.subs[x].consumers = kept,
                     !.idle = IF kept = {} THEN @ \cup {x} ELSE @]

Report(a, x) == Deliver(a, x, "error", None)
ReportAll(a) == FoldSet(LAMBDA x, b : Report(b, x), a, DOMAIN a.subs)

-----------------------------------------------------------------------------
(* Sending, requesting and opening *)

\* send: a socket whose writer has ended is remembered and closed later.
Send(a, frame) ==
  IF a.conn = None THEN a
  ELSE IF a.writable THEN [a EXCEPT !.out = Append(@, frame)]
  ELSE [a EXCEPT !.unwritable = a.conn]

Spawn(a, kind, owner, request, x, sub) ==
  [a EXCEPT !.tasks = @ \cup {[kind |-> kind, owner |-> owner, request |-> request,
                               account |-> x, sub |-> sub]}]

Open(a) ==
  Spawn([a EXCEPT !.connecting = TRUE], "open", a.generation, None, None, None)

\* subscribe: the request is pending before its token is fetched.
Subscribe(a, x) ==
  IF a.conn = None \/ x \notin DOMAIN a.subs THEN a
  ELSE LET r == a.nextRequest + 1
           request == [kind |-> "subscribe", account |-> x, subscription |-> a.subs[x].id]
       IN  Spawn([a EXCEPT !.nextRequest = r, !.pending = With(@, r, request)],
                 "subscribe", a.conn, r, x, None)

Unsubscribe(a, sub) ==
  LET r == a.nextRequest + 1
  IN  Send([a EXCEPT !.nextRequest = r, !.unsubscribing = @ \cup {r}],
           [kind |-> "unsubscribe", id |-> r, sub |-> sub, account |-> None, cursor |-> None])

MutantRetrySubscribe(a, x) ==
  IF x \notin DOMAIN a.subs THEN a ELSE [a EXCEPT !.subs[x].retried = TRUE]
RetrySubscribe(a, x) ==
  IF x \notin DOMAIN a.subs THEN a
  ELSE [a EXCEPT !.subs[x].retried = TRUE, !.subs[x].retryAt = TRUE]

ScheduleReconnect(a) == [a EXCEPT !.reconnectAt = TRUE]

-----------------------------------------------------------------------------
(* Ending: a socket, the stream of an account, all of them *)

\* detach: the socket is dropped, and everything that belonged to it.
Detach(a) ==
  [a EXCEPT !.conn = None, !.writable = FALSE, !.out = <<>>, !.heartbeatAt = FALSE,
            !.pending = NoFunction, !.bySub = NoFunction, !.unsubscribing = {},
            !.subs = [x \in DOMAIN @ |->
                        [@[x] EXCEPT !.retryAt = FALSE, !.ackDue = None, !.sub = None,
                                     !.seq = 0, !.ready = FALSE, !.staged = <<>>]]]

Shutdown(a) ==
  [Detach(a) EXCEPT !.generation = @ + 1, !.connecting = FALSE, !.reconnectAt = FALSE]

\* The requests of a subscription end with it.
OwnRequests(a, id) == {r \in DOMAIN a.pending : a.pending[r].subscription = id}

Teardown(a, x) ==
  LET s == a.subs[x]
      gone == [a EXCEPT !.subs = Without(@, {x})]
      left == IF s.sub = None THEN gone
              ELSE Unsubscribe([gone EXCEPT !.bySub = Without(@, {s.sub})], s.sub)
      done == [left EXCEPT !.pending = Without(@, OwnRequests(left, s.id))]
  IN  IF DOMAIN done.subs = {} THEN Shutdown(done) ELSE done

\* The error is reported, and every consumer's stream ends with it.
Terminate(a, x) ==
  LET b == Report(a, x)
      s == b.subs[x]
      Goodbye(u) == LET v == [u EXCEPT !.ended = "error"]
                    IN  IF s.state # "disconnected" /\ Accepts(v)
                        THEN Offer(v, "disconnected", None) ELSE v
  IN  IF x \notin DOMAIN a.subs THEN a
      ELSE [Teardown(b, x) EXCEPT !.users = [c \in Consumers |->
              IF c \in s.consumers THEN Goodbye(@[c]) ELSE @[c]]]

TerminateAll(a) == FoldSet(LAMBDA x, b : Terminate(b, x), a, DOMAIN a.subs)

\* resubscribe: the server subscription is dropped and another one asked for
\* from the last applied cursor, the first time at once.
Resubscribe(a, x) ==
  IF x \notin DOMAIN a.subs THEN a
  ELSE LET s == a.subs[x]
           notify == s.state = "connected"
           dropped == [a EXCEPT !.subs[x] =
                         [s EXCEPT !.sub = None, !.seq = 0, !.ready = FALSE,
                                   !.staged = <<>>, !.retried = TRUE,
                                   !.state = IF notify THEN "disconnected" ELSE @]]
           left == IF s.sub = None THEN dropped
                   ELSE Unsubscribe([dropped EXCEPT !.bySub = Without(@, {s.sub})], s.sub)
           asks == IF s.retried THEN RetrySubscribe(left, x) ELSE Subscribe(left, x)
       IN  IF notify THEN Deliver(asks, x, "disconnected", None) ELSE asks

\* on_closed: a terminal close code ends every stream, any other reconnects.
OnClosed(a, terminal) ==
  LET b == Detach(a)
      Tell(x, c) ==
        IF c.subs[x].state = "connected"
        THEN Deliver([c EXCEPT !.subs[x].state = "disconnected"], x, "disconnected", None)
        ELSE c
  IN  IF DOMAIN b.subs = {} THEN b
      ELSE IF terminal THEN TerminateAll(b)
      ELSE FoldSet(Tell, ScheduleReconnect(b), DOMAIN b.subs)

\* finish_event: the socket that could not be written, then the accounts whose
\* last consumer left.
MutantIsIdle(a, x) == x \in DOMAIN a.subs
IsIdle(a, x) == x \in DOMAIN a.subs /\ a.subs[x].consumers = {}

FinishEvent(a) ==
  LET b == IF a.unwritable = None THEN a
           ELSE IF a.unwritable # a.conn THEN [a EXCEPT !.unwritable = None]
           ELSE OnClosed([a EXCEPT !.unwritable = None], FALSE)
      TeardownIdle(x, c) == IF IsIdle(c, x) THEN Teardown(c, x) ELSE c
  IN  FoldSet(TeardownIdle, [b EXCEPT !.idle = {}], b.idle)

-----------------------------------------------------------------------------
(* Commands *)

\* What a consumer that joins a running subscription is told: what the others
\* already know.
MutantWelcome(s) ==
     (IF s.state = "connected" THEN <<[event |-> "connected", n |-> None]>> ELSE <<>>)
  \o (IF s.orders # None THEN <<[event |-> "snapshot", n |-> s.orders]>> ELSE <<>>)
  \o (IF s.stale THEN <<[event |-> "stale", n |-> 1]>> ELSE <<>>)
Welcome(s) ==
     (IF s.state = "connected" THEN <<[event |-> "connected", n |-> None]>> ELSE <<>>)
  \o (IF s.orders # None THEN <<[event |-> "snapshot", n |-> s.orders]>> ELSE <<>>)
  \o (IF s.ready THEN <<[event |-> "ready", n |-> None]>> ELSE <<>>)
  \o (IF s.stale THEN <<[event |-> "stale", n |-> 1]>> ELSE <<>>)

OfferAll(u, events) ==
  FoldLeft(LAMBDA v, e : IF v.ended = "no" THEN Offer(v, e.event, e.n) ELSE v, u, events)

NewSubscription(id, c) ==
  [id |-> id, consumers |-> {c}, sub |-> None, seq |-> 0, cursor |-> None,
   staged |-> <<>>, orders |-> None, state |-> "pending", stale |-> FALSE,
   ready |-> FALSE, retried |-> FALSE, retryAt |-> FALSE, confirmed |-> FALSE,
   ackDue |-> None]

\* add: joining, or the first consumer of the account.
Join(a, x, c) ==
  LET events == Welcome(a.subs[x])
      u == OfferAll(a.users[c], events)
      joins == u.ended = "no" /\ (events = <<>> \/ u.handle # "dropped")
  IN  [a EXCEPT !.users[c] = u,
                !.subs[x].consumers = IF joins THEN @ \cup {c} ELSE @]

Start(a, x, c) ==
  LET n == a.nextSubscription + 1
      b == [a EXCEPT !.nextSubscription = n,
                     !.subs = With(@, x, NewSubscription(n, c))]
  IN  IF a.conn # None THEN Subscribe(b, x)
      ELSE IF ~a.connecting /\ ~a.reconnectAt THEN Open(b) ELSE b

Add(a, x, c) == IF x \in DOMAIN a.subs THEN Join(a, x, c) ELSE Start(a, x, c)

RemoveConsumer(a, c) ==
  LET Leaves(x) == x \in DOMAIN a.subs /\ c \in a.subs[x].consumers
  IN  [a EXCEPT !.subs = [x \in DOMAIN @ |->
                            IF Leaves(x) THEN [a.subs[x] EXCEPT !.consumers = @ \ {c}] ELSE @[x]],
                !.idle = @ \cup {x \in Accounts : Leaves(x) /\ a.subs[x].consumers = {c}}]

-----------------------------------------------------------------------------
(* Token and socket results *)

\* attach: authenticate, arm the heartbeat, subscribe every account.
Attach(a) ==
  LET id == a.nextConn + 1
      b  == [a EXCEPT !.nextConn = id, !.conn = id, !.writable = TRUE, !.out = <<>>,
                      !.heartbeatAt = TRUE]
  IN  FoldSet(LAMBDA x, c : Subscribe(c, x), b, DOMAIN b.subs)

\* What a token fetch or an open can come to.
Results == {"ok", "refused", "failed"}

\* An open that a shutdown outlived is discarded.
MutantOutlived(a, generation) == FALSE
Outlived(a, generation) == generation # a.generation

OnOpened(a, generation, result) ==
  LET b == [a EXCEPT !.connecting = FALSE]
  IN  IF Outlived(a, generation) THEN a
      ELSE CASE result = "ok"      -> Attach(b)
             [] result = "refused" -> TerminateAll(b)
             [] result = "failed"  -> ScheduleReconnect(ReportAll(b))

OnSubscribeToken(a, conn, r, result) ==
  LET x == a.pending[r].account
      failed == [a EXCEPT !.pending = Without(@, {r})]
      due == [a EXCEPT !.subs[x].ackDue = r]
      cursor == a.subs[x].cursor
  IN  IF r \notin DOMAIN a.pending THEN a
      ELSE CASE result = "refused" -> Terminate(failed, x)
             [] result = "failed"  -> RetrySubscribe(Report(failed, x), x)
             [] result = "ok" /\ a.conn # conn -> a
             [] result = "ok" /\ a.conn = conn ->
                  Send(IF x \in DOMAIN a.subs THEN due ELSE a,
                       [kind |-> "subscribe", id |-> r, sub |-> None, account |-> x,
                        cursor |-> IF x \in DOMAIN a.subs THEN cursor ELSE None])

Refresh(a, x) == Spawn(a, "refresh", a.conn, None, x, a.subs[x].sub)

\* A refresh whose token failed only reports; the server ends what expires.
OnRefreshToken(a, conn, x, sub, result) ==
  LET r == a.nextRequest + 1
      request == [kind |-> "refresh", account |-> x, subscription |-> a.subs[x].id]
  IN  IF x \notin DOMAIN a.subs THEN a
      ELSE IF a.conn # conn \/ a.subs[x].sub # sub THEN a
      ELSE IF result # "ok" THEN Report(a, x)
      ELSE Send([a EXCEPT !.nextRequest = r, !.pending = With(@, r, request)],
                [kind |-> "refresh", id |-> r, sub |-> sub, account |-> x, cursor |-> None])

OnReauthToken(a, conn, result) ==
  IF a.conn # conn THEN a
  ELSE CASE result = "ok"      -> a   \* Auth: the server keeps the connection
         [] result = "refused" -> TerminateAll(a)
         [] result = "failed"  -> ReportAll(a)

-----------------------------------------------------------------------------
(* Frames *)

\* A Subscribed whose request is gone: its consumers left before the server
\* confirmed it, or it was given up.
MutantLateSubscribed(a, f) == a
LateSubscribed(a, f) == Unsubscribe(a, f.sub)

OnSubscribed(a, f) ==
  LET x == a.pending[f.id].account
      s == a.subs[x]
      b == [a EXCEPT !.pending = Without(@, {f.id}),
                     !.bySub = With(@, f.sub, x),
                     !.subs[x] = [s EXCEPT !.sub = f.sub, !.seq = 0, !.ready = FALSE,
                                           !.confirmed = TRUE, !.ackDue = None,
                                           !.state = "connected", !.stale = FALSE]]
      c == IF s.state # "connected" THEN Deliver(b, x, "connected", None) ELSE b
  IN  IF f.id \notin DOMAIN a.pending THEN LateSubscribed(a, f)
      ELSE IF x \notin DOMAIN a.subs THEN [a EXCEPT !.pending = Without(@, {f.id})]
      ELSE IF s.stale THEN Deliver(c, x, "stale", None) ELSE c

\* The server ended the subscription, or does not know it: its token expired.
MutantEndedByServer(a, x) ==
  [a EXCEPT !.subs[x].sub = None, !.bySub = Without(@, {a.subs[x].sub})]
EndedByServer(a, x) ==
  Resubscribe([a EXCEPT !.subs[x].sub = None, !.bySub = Without(@, {a.subs[x].sub})], x)

\* A RequestError about a subscription that is not the answer to a subscribe.
OnSubscriptionError(a, x, f) ==
  IF f.kind = "unknown" /\ x \in DOMAIN a.subs /\ a.subs[x].sub = f.sub
  THEN EndedByServer(a, x) ELSE Report(a, x)

\* RequestError: to a request, else about a subscription or about none.
OnRequestError(a, f) ==
  LET request == a.pending[f.id]
      x == request.account
      b == [a EXCEPT !.pending = Without(@, {f.id})]
  IN  IF f.id = None
      THEN IF f.sub \in DOMAIN a.bySub THEN OnSubscriptionError(a, a.bySub[f.sub], f)
                                       ELSE ReportAll(a)
      ELSE IF f.id \in a.unsubscribing THEN [a EXCEPT !.unsubscribing = @ \ {f.id}]
      ELSE IF f.id \notin DOMAIN a.pending THEN a
      ELSE IF request.kind # "subscribe" THEN OnSubscriptionError(b, x, f)
      ELSE IF f.kind = "cursorInvalid"
      THEN Subscribe(IF x \in DOMAIN b.subs THEN [b EXCEPT !.subs[x].cursor = None] ELSE b, x)
      ELSE Terminate(b, x)

\* A snapshot that arrived incomplete is of no use, nor is a cursor to it.
MutantBadSnapshot(a, x, f) ==
  Resubscribe([a EXCEPT !.subs[x].staged = <<>>, !.subs[x].cursor = f.n], x)
BadSnapshot(a, x, f) ==
  Resubscribe([a EXCEPT !.subs[x].staged = <<>>, !.subs[x].cursor = None], x)

\* A frame of an account's stream, once its sequence number is accepted.
OnStreamFrame(a, x, f) ==
  LET s == a.subs[x]
      Set(t) == [a EXCEPT !.subs[x] = t]
      complete == s.staged # <<>> /\ s.staged # <<None>>
  IN  CASE f.kind = "begin" -> Set([s EXCEPT !.staged = <<None>>])
        [] f.kind = "page" ->
             Set([s EXCEPT !.staged = IF @ = <<>> THEN @ ELSE <<f.n>>])
        [] f.kind = "end" /\ complete ->
             Deliver(Set([s EXCEPT !.staged = <<>>, !.cursor = f.n, !.retried = FALSE,
                                   !.orders = s.staged[1]]), x, "snapshot", s.staged[1])
        [] f.kind = "badEnd" \/ (f.kind = "end" /\ ~complete) ->
             BadSnapshot(a, x, f)
        [] f.kind = "unit" ->
             Deliver(Set([s EXCEPT !.cursor = f.n, !.retried = FALSE,
                                   !.orders = IF @ = None THEN @ ELSE Apply(@, f.n)]),
                     x, "unit", f.n)
        [] f.kind = "covered" -> Set([s EXCEPT !.cursor = f.n, !.retried = FALSE])
        [] f.kind = "ready" ->
             LET b == Set([s EXCEPT !.ready = TRUE, !.retried = FALSE])
             IN  IF s.ready THEN b ELSE Deliver(b, x, "ready", None)
        [] f.kind = "unavailable" -> Deliver(Set([s EXCEPT !.stale = TRUE]), x, "stale", 1)
        [] f.kind = "available" -> Deliver(Set([s EXCEPT !.stale = FALSE]), x, "stale", None)
        [] f.kind = "expiring" -> Refresh(a, x)
        [] f.kind = "unsubscribed" -> EndedByServer(a, x)
        [] f.kind = "resync" -> a

\* The sequence check: a gap or a repeat drops the server subscription.
MutantInSequence(s, f) == f.seq >= s.seq
InSequence(s, f) == f.seq = 0 \/ f.seq = s.seq + 1

OnStream(a, f) ==
  LET x == a.bySub[f.sub]
      s == a.subs[x]
  IN  IF f.sub \notin DOMAIN a.bySub THEN a
      ELSE IF x \notin DOMAIN a.subs THEN a
      ELSE IF ~InSequence(s, f) THEN Resubscribe(a, x)
      ELSE OnStreamFrame([a EXCEPT !.subs[x].seq = IF f.seq > 0 THEN f.seq ELSE @], x, f)

\* on_frame; an undecodable frame is reported to everybody.
OnFrame(a, f) ==
  LET b == [a EXCEPT !.heartbeatAt = TRUE]
  IN  CASE f.kind = "garbled"    -> ReportAll(b)
        [] f.kind = "subscribed" -> OnSubscribed(b, f)
        [] f.kind = "refreshed"  -> [b EXCEPT !.pending = Without(@, {f.id})]
        [] f.kind = "unsubscribed" /\ f.id \in b.unsubscribing ->
             [b EXCEPT !.unsubscribing = @ \ {f.id}]
        [] f.kind \in {"forbidden", "cursorInvalid", "unknown"} -> OnRequestError(b, f)
        [] f.kind = "tokenExpiring" -> Spawn(b, "reauth", b.conn, None, None, None)
        [] OTHER -> OnStream(b, f)

-----------------------------------------------------------------------------
(* Timers *)

\* expire_subscribe: a subscribe was never answered.
ExpireSubscribe(a, x, r) ==
  LET s == a.subs[x]
      b == Report([a EXCEPT !.pending = Without(@, {r})], x)
  IN  IF r \notin DOMAIN a.pending \/ x \notin DOMAIN a.subs THEN a
      ELSE IF ~s.confirmed THEN Terminate(a, x)
      ELSE IF s.sub = None THEN RetrySubscribe(b, x) ELSE b

HeartbeatTimer(a) ==
  LET b == [a EXCEPT !.heartbeatAt = FALSE]
  IN  IF b.conn = None THEN b ELSE OnClosed(b, FALSE)

ReconnectTimer(a) ==
  LET b == [a EXCEPT !.reconnectAt = FALSE]
  IN  IF DOMAIN b.subs # {} /\ b.conn = None /\ ~b.connecting THEN Open(b) ELSE b

AckTimers(a, X) ==
  LET b == [a EXCEPT !.subs = [x \in DOMAIN @ |->
                                 IF x \in X THEN [@[x] EXCEPT !.ackDue = None] ELSE @[x]]]
  IN  FoldSet(LAMBDA x, c : ExpireSubscribe(c, x, a.subs[x].ackDue), b, X)

RetryTimers(a, X) ==
  LET Retry(x, c) == LET b == [c EXCEPT !.subs[x].retryAt = FALSE]
                     IN  IF b.subs[x].sub = None THEN Subscribe(b, x) ELSE b
  IN  FoldSet(Retry, a, X)

AckDue(a) == {x \in DOMAIN a.subs : a.subs[x].ackDue # None}
RetryDue(a) == {x \in DOMAIN a.subs : a.subs[x].retryAt}

-----------------------------------------------------------------------------
(* The actor's events: the actor runs one handler at a time, and the socket *)
(* it drops takes the server's subscriptions along.                         *)

Socket(frames, subscriptions) ==
  IF actor'.conn = actor.conn /\ actor.conn # None
  THEN inbox' = frames /\ server' = subscriptions
  ELSE inbox' = <<>> /\ server' = NoFunction

Handles(next) == ~batch /\ actor' = FinishEvent(next)

Fault == faults < MaxFaults /\ faults' = faults + 1 /\ UNCHANGED notices
Notice == notices < MaxNotices /\ notices' = notices + 1 /\ UNCHANGED faults
Calm == UNCHANGED <<faults, notices>>

OnCommand(a, command) ==
  IF command.kind = "add" THEN Add(a, command.account, command.consumer)
                          ELSE RemoveConsumer(a, command.consumer)

\* Commands queued together run as one batch.
CommandStep ==
  /\ commands # <<>>
  /\ actor' = OnCommand(actor, Head(commands))
  /\ commands' = Tail(commands) /\ batch' = TRUE
  /\ Socket(inbox, server)
  /\ UNCHANGED <<history, asked>> /\ Calm

BatchEnds ==
  /\ batch /\ commands = <<>>
  /\ actor' = FinishEvent(actor) /\ batch' = FALSE
  /\ Socket(inbox, server)
  /\ UNCHANGED <<commands, history, asked>> /\ Calm

TaskEnds(t, result) ==
  LET a == [actor EXCEPT !.tasks = @ \ {t}]
  IN  /\ Handles(CASE t.kind = "open"      -> OnOpened(a, t.owner, result)
                   [] t.kind = "subscribe" -> OnSubscribeToken(a, t.owner, t.request, result)
                   [] t.kind = "refresh"   -> OnRefreshToken(a, t.owner, t.account, t.sub, result)
                   [] t.kind = "reauth"    -> OnReauthToken(a, t.owner, result))
      /\ IF result = "ok" THEN Calm ELSE Fault
      /\ Socket(inbox, server)
      /\ UNCHANGED <<commands, batch, history, asked>>

FrameArrives ==
  /\ inbox # <<>>
  /\ Handles(OnFrame(actor, Head(inbox)))
  /\ Socket(Tail(inbox), server)
  /\ UNCHANGED <<commands, batch, history, asked>> /\ Calm

\* The reader or the writer reports the end of the socket.
SocketCloses ==
  /\ actor.conn # None
  /\ \E terminal \in BOOLEAN :
       /\ Handles(OnClosed(actor, terminal))
       /\ IF actor.writable \/ terminal THEN Fault ELSE Calm
  /\ Socket(inbox, server)
  /\ UNCHANGED <<commands, batch, history, asked>>

TimersFire ==
  /\ \E X \in SUBSET AckDue(actor), Y \in SUBSET RetryDue(actor) :
       \/ actor.heartbeatAt /\ Handles(HeartbeatTimer(actor)) /\ Fault
       \/ actor.reconnectAt /\ Handles(ReconnectTimer(actor)) /\ Calm
       \/ /\ X \cup Y # {}
          /\ Handles(RetryTimers(AckTimers(actor, X), Y \cap RetryDue(AckTimers(actor, X))))
          /\ IF X = {} THEN Calm ELSE Fault
  /\ Socket(inbox, server)
  /\ UNCHANGED <<commands, batch, history, asked>>

-----------------------------------------------------------------------------
(* The handles *)

Connect(c) ==
  /\ actor.users[c].handle = "new"
  /\ actor' = [actor EXCEPT !.users[c].handle = "open"]
  /\ \E x \in Accounts :
       /\ commands' = Append(commands, [kind |-> "add", account |-> x, consumer |-> c])
       /\ asked' = [asked EXCEPT ![c] = history[x]]
  /\ UNCHANGED <<batch, inbox, server, history>> /\ Calm

\* close() keeps what is buffered readable, dropping the handle does not.
Leave(c) ==
  /\ actor.users[c].handle = "open"
  /\ \/ actor' = [actor EXCEPT !.users[c].handle = "closed"]
     \/ actor' = [actor EXCEPT !.users[c].handle = "dropped", !.users[c].queued = 0]
  /\ commands' = Append(commands, [kind |-> "remove", account |-> None, consumer |-> c])
  /\ UNCHANGED <<batch, inbox, server, history, asked>> /\ Calm

Recv(c) ==
  /\ actor.users[c].queued > 0
  /\ actor' = [actor EXCEPT !.users[c].queued = @ - 1]
  /\ UNCHANGED <<commands, batch, inbox, server, history, asked>> /\ Calm

-----------------------------------------------------------------------------
(* The server and the network *)

WriterFails ==
  /\ actor.conn # None /\ actor.writable /\ Fault
  /\ actor' = [actor EXCEPT !.writable = FALSE, !.out = <<>>]
  /\ UNCHANGED <<commands, batch, inbox, server, history, asked>>

AccountChanges(x) ==
  /\ history[x] < MaxHistory
  /\ history' = [history EXCEPT ![x] = @ + 1]
  /\ UNCHANGED <<actor, commands, batch, inbox, server, asked>> /\ Calm

\* The server reads the next frame of the client and answers it.
Serves(f) ==
  LET opened(stage) == [account |-> f.account, seq |-> 0, pos |-> f.cursor, stage |-> stage,
                        boundary |-> history[f.account], ready |-> FALSE, warned |-> FALSE]
      Answers(kind, sub) == inbox' = Append(inbox, Frame(kind, sub, 0, f.id, None))
      Opens(stage) == Answers("subscribed", f.id) /\ server' = With(server, f.id, opened(stage))
  IN  \/ f.kind = "subscribe" /\ Calm /\ Opens(IF f.cursor = None THEN "begin" ELSE "units")
      \/ f.kind = "subscribe" /\ f.cursor # None /\ Fault /\ Opens("resync")
      \/ f.kind = "subscribe" /\ f.cursor # None /\ Fault
         /\ Answers("cursorInvalid", None) /\ UNCHANGED server
      \/ f.kind = "subscribe" /\ Fault /\ Answers("forbidden", None) /\ UNCHANGED server
      \/ f.kind = "unsubscribe" /\ f.sub \in DOMAIN server /\ Calm
         /\ Answers("unsubscribed", f.sub) /\ server' = Without(server, {f.sub})
      \/ f.kind = "refresh" /\ f.sub \in DOMAIN server /\ Calm
         /\ Answers("refreshed", f.sub) /\ UNCHANGED server
      \/ f.kind = "refresh" /\ f.sub \in DOMAIN server /\ Fault
         /\ Answers("forbidden", f.sub) /\ UNCHANGED server
      \/ f.kind \in {"refresh", "unsubscribe"} /\ f.sub \notin DOMAIN server /\ Calm
         /\ Answers("unknown", f.sub) /\ UNCHANGED server

ServerReads ==
  /\ actor.out # <<>> /\ actor.writable /\ Len(inbox) < MaxInFlight
  /\ actor' = [actor EXCEPT !.out = Tail(@)]
  /\ Serves(Head(actor.out))
  /\ UNCHANGED <<commands, batch, history, asked>>

\* One frame of a subscription's stream; the network may lose or garble it.
Streams(sub, kind, next) ==
  /\ server' = [server EXCEPT ![sub] = [next EXCEPT !.seq = @ + 1]]
  /\ UNCHANGED <<actor, commands, batch, history, asked>>

Arrives(sub, kind, next) ==
  /\ Streams(sub, kind, next)
  /\ inbox' = Append(inbox, Frame(kind, sub, next.seq + 1, None, next.pos))

Spoiled(sub, kind, next) ==
  /\ Streams(sub, kind, next) /\ Fault
  /\ \/ UNCHANGED inbox
     \/ inbox' = Append(inbox, Frame("garbled", None, 0, None, None))

\* What the server sends next on a subscription.
NextFrame(sub) ==
  LET v == server[sub]
      now == history[v.account]
  IN  CASE v.stage = "resync" -> {<<"resync", [v EXCEPT !.stage = "begin"]>>}
        [] v.stage = "begin" -> {<<"begin", [v EXCEPT !.stage = "page", !.pos = now]>>}
        [] v.stage = "page"  -> {<<"page", [v EXCEPT !.stage = "end"]>>}
        [] v.stage = "end"   -> {<<"end", [v EXCEPT !.stage = "units"]>>}
        [] v.stage = "units" ->
             (IF v.pos < now THEN {<<"unit", [v EXCEPT !.pos = @ + 1]>>} ELSE {})
             \cup (IF ~v.ready /\ v.pos >= v.boundary
                   THEN {<<"ready", [v EXCEPT !.ready = TRUE]>>} ELSE {})

ServerStreams ==
  /\ Len(inbox) < MaxInFlight
  /\ \E sub \in DOMAIN server : \E n \in NextFrame(sub) :
       \/ Arrives(sub, n[1], n[2]) /\ Calm
       \/ Spoiled(sub, n[1], n[2])
       \/ n[1] = "end" /\ Arrives(sub, "badEnd", n[2]) /\ Fault

\* What the server may say at any time.
ServerNotice ==
  /\ Len(inbox) < MaxInFlight /\ Notice
  /\ \/ \E sub \in DOMAIN server :
          \/ /\ server[sub].stage = "units"
             /\ \E kind \in {"covered", "unavailable", "available"} :
                  Arrives(sub, kind, server[sub])
          \/ /\ server[sub].stage = "units"
             /\ Arrives(sub, "resync", [server[sub] EXCEPT !.stage = "begin"])
          \/ /\ ~server[sub].warned
             /\ server' = [server EXCEPT ![sub].warned = TRUE]
             /\ inbox' = Append(inbox, Frame("expiring", sub, 0, None, None))
             /\ UNCHANGED <<actor, commands, batch, history, asked>>
          \/ /\ server' = Without(server, {sub})
             /\ \E kind \in {"unsubscribed", "unknown"} :
                  inbox' = Append(inbox, Frame(kind, sub, 0, None, None))
             /\ UNCHANGED <<actor, commands, batch, history, asked>>
     \/ /\ actor.conn # None
        /\ \/ inbox' = Append(inbox, Frame("tokenExpiring", None, 0, None, None))
           \/ \E sub \in DOMAIN server \cup {None} :
                inbox' = Append(inbox, Frame("forbidden", sub, 0, None, None))
        /\ UNCHANGED <<actor, commands, batch, server, history, asked>>

-----------------------------------------------------------------------------
ActorStep ==
  \/ CommandStep \/ BatchEnds \/ FrameArrives
  \/ \E t \in actor.tasks, result \in Results : TaskEnds(t, result)
  \/ SocketCloses \/ TimersFire

Next ==
  \/ ActorStep
  \/ \E c \in Consumers : Connect(c) \/ Leave(c) \/ Recv(c)
  \/ \E x \in Accounts : AccountChanges(x)
  \/ WriterFails \/ ServerReads \/ ServerStreams \/ ServerNotice

Spec == Init /\ [][Next]_vars

\* The actor runs, its tasks end, its timers fire, the server serves.  No
\* failure is owed: steps that fail may happen, but never have to.
FairSpec ==
  /\ Spec /\ WF_vars(ActorStep /\ Calm)
  /\ WF_vars(ServerReads /\ Calm) /\ WF_vars(ServerStreams /\ Calm)

-----------------------------------------------------------------------------
(* Properties *)

InStream(c) == \E x \in DOMAIN actor.subs : c \in actor.subs[x].consumers

Arriving(c) == \E i \in DOMAIN commands :
                 commands[i].kind = "add" /\ commands[i].consumer = c

\* Units are applied in order and to the view they follow, whatever is lost,
\* garbled, repeated or taken again: no consumer is ever shown a torn view.
ViewsAreWhole ==
  \A c \in Consumers : actor.users[c].view # Torn

\* Every consumer of an account knows the same: the view, whether it is
\* connected, ready and stale, however late it joined.
SameKnowledge ==
  \A x \in DOMAIN actor.subs : LET s == actor.subs[x] IN
    \A c \in s.consumers : LET u == actor.users[c] IN
      /\ u.view = s.orders /\ u.stale = s.stale /\ u.ready = s.ready
      /\ u.connected = (s.state = "connected")

\* Whoever asks for the next subscription of an account: a retry, a request,
\* or the next socket.
Asking(x) ==
  LET s == actor.subs[x]
  IN  \/ actor.conn # None /\ (s.sub # None \/ s.retryAt)
      \/ \E r \in DOMAIN actor.pending :
           /\ actor.pending[r].kind = "subscribe" /\ actor.pending[r].subscription = s.id
           /\ s.ackDue = r \/ \E t \in actor.tasks : t.kind = "subscribe" /\ t.request = r
      \/ actor.conn = None /\ actor.reconnectAt
      \/ /\ actor.conn = None /\ actor.connecting
         /\ \E t \in actor.tasks : t.kind = "open" /\ t.owner = actor.generation

NeverForgotten == ~batch => \A x \in DOMAIN actor.subs : Asking(x)

\* At most one server subscription of an account is listened to, and none is
\* left open that nobody listens to: the client has been or will be told of
\* it, or its Unsubscribe is on the way.
OneServerSubscription ==
  /\ \A k \in DOMAIN actor.bySub :
       /\ actor.bySub[k] \in DOMAIN actor.subs
       /\ actor.subs[actor.bySub[k]].sub = k
  /\ actor.conn # None /\ actor.writable =>
       \A k \in DOMAIN server :
         \/ k \in DOMAIN actor.bySub
         \/ \E i \in DOMAIN inbox : inbox[i].kind = "subscribed" /\ inbox[i].sub = k
         \/ \E i \in DOMAIN actor.out :
              actor.out[i].kind = "unsubscribe" /\ actor.out[i].sub = k

\* Once the last consumer of the last account has left, nothing remains: no
\* socket, no timer, no request, and what was being opened will be discarded.
NothingLeftBehind ==
  ~batch /\ DOMAIN actor.subs = {} =>
    /\ actor.conn = None /\ ~actor.reconnectAt /\ ~actor.heartbeatAt
    /\ ~actor.connecting /\ DOMAIN actor.pending = {}
    /\ \A t \in actor.tasks : t.kind = "open" => t.owner # actor.generation

\* A consumer that did not leave is in the stream, or was told why it ended.
EndIsExplained ==
  \A c \in Consumers :
    actor.users[c].handle = "open" /\ ~Arriving(c) /\ ~InStream(c)
      => actor.users[c].ended # "no"

\* Ready means what the server meant by it: the view has reached the account's
\* history as it stood when the server received the subscription.
ReadyIsCurrent ==
  \A x \in DOMAIN actor.subs : LET s == actor.subs[x] IN
    s.ready /\ s.sub \in DOMAIN server => s.orders >= server[s.sub].boundary

\* A consumer that asked for a stream is connected, is told why it is not, or
\* leaves.
EveryConsumerIsServed ==
  \A c \in Consumers :
    actor.users[c].handle = "open"
      ~> \/ actor.users[c].connected \/ actor.users[c].ended # "no"
         \/ actor.users[c].handle # "open"

\* With nothing lost, the stream also reaches its read boundary, through
\* resyncs, expiring tokens and subscriptions the server ends.
EveryConsumerGetsReady ==
  \A c \in Consumers :
    actor.users[c].handle = "open"
      ~> \/ actor.users[c].ready \/ actor.users[c].ended # "no"
         \/ actor.users[c].handle # "open" \/ faults > 0

\* What README.md:1292 tells applications to do: read first, then subscribe,
\* wait for Ready, and rely on the stream to reflect everything read before.
\* A consumer that joins a subscription which is already ready is told so at
\* once, whatever has not yet arrived.
ReadyCoversEarlierReads ==
  \A c \in Consumers : actor.users[c].ready => actor.users[c].view >= asked[c]
=============================================================================
