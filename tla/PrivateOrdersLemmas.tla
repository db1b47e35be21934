------------------------ MODULE PrivateOrdersLemmas -------------------------
(***************************************************************************)
(* The inductive invariant of the private order streams, IInv, and what    *)
(* the operations of the actor keep of it: everything but the frames of    *)
(* the server, which PrivateOrdersProofs adds with the theorems.           *)
(*                                                                         *)
(* The parts of IInv are about the actor (Linked), about the consumers     *)
(* (Crowd), and about the server that is not ahead of the accounts         *)
(* (ServerOK).  Linked says                                                *)
(*   - who asks: every account has a request, a timer or an opening socket *)
(*     that will ask for it (AllAsk), and nothing asks for nobody;         *)
(*   - who listens: every subscription the server keeps open is one the    *)
(*     actor listens to, one whose confirmation is still to be read, or    *)
(*     one whose unsubscribe is on its way (Ids, Heard);                   *)
(*   - what is on the wire: the frames that have not been read continue    *)
(*     the view, one legal step of the server after the other, up to the   *)
(*     first that was lost (Traced).                                       *)
(*                                                                         *)
(* A handler of the actor runs to its end between two states, and makes    *)
(* calls in whose midst IInv does not hold.  Fine(a, in, S, A, X, Y) is    *)
(* what they all keep: the invariant of an actor a, with frames in to be   *)
(* read, the server's subscriptions S and the commands A, but that the     *)
(* accounts of X have yet to ask and those of Y have yet to be told that   *)
(* the socket is gone.  Each operation has a lemma on what it changes      *)
(* (...Effect) and one on what it keeps (...Fine, ...Linked).  Loops over  *)
(* the accounts, which are folds over finite sets, go by FoldInduction.    *)
(***************************************************************************)
EXTENDS PrivateOrders, FiniteSetTheorems, TLAPS

-----------------------------------------------------------------------------
(* Types *)

Fields == {"subs", "pending", "bySub", "unsubscribing", "idle", "conn", "writable", "out",
           "unwritable", "connecting", "generation", "nextConn", "nextSubscription",
           "nextRequest", "reconnectAt", "heartbeatAt", "tasks", "users"}
SubFields == {"id", "consumers", "sub", "seq", "cursor", "staged", "orders", "state", "stale",
              "ready", "retried", "retryAt", "confirmed", "ackDue"}
UserFields == {"handle", "queued", "ended", "connected", "view", "ready", "stale"}

IsMap(m, fields) == m = [f \in fields |-> m[f]]

IsSub(s) ==
  /\ IsMap(s, SubFields)
  /\ s.id \in Nat /\ s.consumers \in SUBSET Consumers /\ s.sub \in Nat /\ s.seq \in Nat
  /\ s.cursor \in Nat /\ s.staged \in Seq(Nat) /\ s.orders \in Nat
  /\ s.state \in {"pending", "connected", "disconnected"}
  /\ s.stale \in BOOLEAN /\ s.ready \in BOOLEAN /\ s.retried \in BOOLEAN
  /\ s.retryAt \in BOOLEAN /\ s.confirmed \in BOOLEAN /\ s.ackDue \in Nat

IsUser(u) ==
  /\ IsMap(u, UserFields)
  /\ u.handle \in {"new", "open", "closed", "dropped"} /\ u.queued \in 0..QueueSize
  /\ u.ended \in {"no", "overflow", "error"} /\ u.connected \in BOOLEAN
  /\ u.view \in Nat /\ u.ready \in BOOLEAN /\ u.stale \in BOOLEAN

Requests == [kind : {"subscribe", "refresh"}, account : Accounts, subscription : Nat]
Tasks == [kind : {"open", "subscribe", "refresh", "reauth"}, owner : Nat, request : Nat,
          account : Accounts \cup {None}, sub : Nat]
ClientFrames == [kind : {"subscribe", "unsubscribe", "refresh"}, id : Nat, sub : Nat,
                 account : Accounts \cup {None}, cursor : Nat]
StreamKinds == {"begin", "page", "end", "badEnd", "unit", "covered", "ready", "unavailable",
                "available", "expiring", "unsubscribed", "resync"}
Numbered == StreamKinds \ {"expiring", "unsubscribed"}
Frames == [kind : StreamKinds \cup {"garbled", "subscribed", "refreshed", "forbidden",
                                    "cursorInvalid", "unknown", "tokenExpiring"},
           sub : Nat, seq : Nat, id : Nat, n : Nat]
ServerSubs == [account : Accounts, seq : Nat, pos : Nat,
               stage : {"resync", "begin", "page", "end", "units"},
               boundary : Nat, ready : BOOLEAN, warned : BOOLEAN]
Commands == [kind : {"add"}, account : Accounts, consumer : Consumers]
            \cup [kind : {"remove"}, account : {None}, consumer : Consumers]

SubsOK(subs) ==
  IsMap(subs, DOMAIN subs) /\ DOMAIN subs \in SUBSET Accounts /\ \A x \in DOMAIN subs : IsSub(subs[x])
PendingOK(pending) ==
  /\ IsMap(pending, DOMAIN pending) /\ DOMAIN pending \in SUBSET Nat
  /\ \A r \in DOMAIN pending : pending[r] \in Requests
BySubOK(bySub) ==
  /\ IsMap(bySub, DOMAIN bySub) /\ DOMAIN bySub \in SUBSET Nat
  /\ \A k \in DOMAIN bySub : bySub[k] \in Accounts
UsersOK(users) == IsMap(users, Consumers) /\ \A c \in Consumers : IsUser(users[c])

ActorOK(a) ==
  /\ IsMap(a, Fields)
  /\ SubsOK(a.subs) /\ PendingOK(a.pending) /\ BySubOK(a.bySub) /\ UsersOK(a.users)
  /\ a.unsubscribing \in SUBSET Nat /\ a.idle \in SUBSET Accounts
  /\ a.conn \in Nat /\ a.writable \in BOOLEAN /\ a.out \in Seq(ClientFrames)
  /\ a.unwritable \in Nat /\ a.connecting \in BOOLEAN /\ a.generation \in Nat
  /\ a.nextConn \in Nat /\ a.nextSubscription \in Nat /\ a.nextRequest \in Nat
  /\ a.reconnectAt \in BOOLEAN /\ a.heartbeatAt \in BOOLEAN
  /\ a.tasks \in SUBSET Tasks

\* The two ends of the socket.
EndsOK(in, S) ==
  /\ in \in Seq(Frames)
  /\ IsMap(S, DOMAIN S) /\ DOMAIN S \in SUBSET Nat /\ \A k \in DOMAIN S : S[k] \in ServerSubs

TypeOK ==
  /\ ActorOK(actor) /\ EndsOK(inbox, server)
  /\ commands \in Seq(Commands) /\ batch \in BOOLEAN
  /\ history \in [Accounts -> 1..MaxHistory] /\ asked \in [Consumers -> Nat]
  /\ faults \in Nat /\ notices \in Nat

-----------------------------------------------------------------------------
(* What the actor keeps in order, with the frames `in` and the subscriptions *)
(* S of the server on its socket.                                            *)

\* Nothing belongs to a socket that is gone.
Disconnected(a) ==
  a.conn = None =>
    /\ ~a.writable /\ a.out = <<>> /\ ~a.heartbeatAt
    /\ DOMAIN a.pending = {} /\ DOMAIN a.bySub = {}
    /\ \A x \in DOMAIN a.subs :
         a.subs[x].sub = None /\ ~a.subs[x].retryAt /\ a.subs[x].ackDue = None

\* At most one socket is being opened, while there is none.
IsOpening(a) == \E t \in a.tasks : t.kind = "open" /\ t.owner = a.generation
OpenTask(generation) ==
  [kind |-> "open", owner |-> generation, request |-> None, account |-> None, sub |-> None]
Opening(a) ==
  /\ \A t \in a.tasks : t.kind = "open" => t.owner <= a.generation /\ t = OpenTask(t.owner)
  /\ IsOpening(a) => a.connecting
  /\ a.connecting => a.conn = None

\* Nobody is left, and nothing.
Quiet(a) ==
  DOMAIN a.subs = {} =>
    /\ a.conn = None /\ ~a.reconnectAt /\ ~a.heartbeatAt /\ ~a.connecting
    /\ DOMAIN a.pending = {} /\ ~IsOpening(a)

\* A pending subscribe request of the account.
Asks(a, r, x) ==
  r \in DOMAIN a.pending /\ a.pending[r].kind = "subscribe" /\ a.pending[r].account = x

\* Requests belong to subscriptions that are there.
Owned(a) ==
  /\ \A r \in DOMAIN a.pending :
       /\ 0 < r /\ r <= a.nextRequest
       /\ a.pending[r].account \in DOMAIN a.subs
       /\ a.subs[a.pending[r].account].id = a.pending[r].subscription
  /\ \A x \in DOMAIN a.subs :
       a.subs[x].id <= a.nextSubscription /\ a.subs[x].ackDue <= a.nextRequest
  /\ \A x, y \in DOMAIN a.subs : a.subs[x].id = a.subs[y].id => x = y

\* An account asks at most once, and not beside a subscription or a retry.
OneRequest(a) ==
  /\ \A x \in DOMAIN a.subs : \A r \in DOMAIN a.pending : Asks(a, r, x) =>
       /\ a.subs[x].sub = None /\ ~a.subs[x].retryAt
       /\ \A q \in DOMAIN a.pending : Asks(a, q, x) => q = r
  /\ \A x \in DOMAIN a.subs :
       /\ a.subs[x].sub # None => ~a.subs[x].retryAt
       /\ a.subs[x].ackDue \in DOMAIN a.pending => Asks(a, a.subs[x].ackDue, x)

\* The tasks that fetch tokens for subscribe requests.
Fetching(a) ==
  /\ \A t \in a.tasks :
       /\ t.kind = "subscribe" =>
            /\ t.request <= a.nextRequest
            /\ t.request \in DOMAIN a.pending =>
                 a.pending[t.request].kind = "subscribe" /\ t.owner = a.conn
       /\ t.kind = "refresh" => t.sub # None
  /\ \A t, u \in a.tasks :
       t.kind = "subscribe" /\ u.kind = "subscribe" /\ t.request = u.request => t = u

\* A server subscription that is listened to, from both sides.
Listening(a) ==
  /\ \A k \in DOMAIN a.bySub :
       k # None /\ a.bySub[k] \in DOMAIN a.subs /\ a.subs[a.bySub[k]].sub = k
  /\ \A x \in DOMAIN a.subs :
       /\ a.subs[x].sub # None =>
            /\ a.subs[x].sub \in DOMAIN a.bySub /\ a.bySub[a.subs[x].sub] = x
            /\ a.subs[x].state = "connected"
       /\ a.subs[x].sub = None =>
            ~a.subs[x].ready /\ a.subs[x].staged = <<>> /\ a.subs[x].seq = 0

\* Frames name requests of their own kind.
Wire(a, in) ==
  /\ \A i \in DOMAIN a.out :
       /\ 0 < a.out[i].id /\ a.out[i].id <= a.nextRequest
       /\ a.out[i].id \in DOMAIN a.pending => a.pending[a.out[i].id].kind = a.out[i].kind
       /\ a.out[i].kind # "subscribe" => a.out[i].sub # None
       /\ a.out[i].kind = "subscribe" => a.out[i].sub = None /\ a.out[i].account \in Accounts
  /\ \A i \in DOMAIN in :
       /\ in[i].id <= a.nextRequest
       /\ in[i].kind = "subscribed" =>
            /\ in[i].sub = in[i].id /\ in[i].id # None
            /\ in[i].id \in DOMAIN a.pending => a.pending[in[i].id].kind = "subscribe"
       /\ in[i].kind = "refreshed" =>
            (in[i].id \in DOMAIN a.pending => a.pending[in[i].id].kind = "refresh")
       /\ in[i].kind = "unknown" /\ in[i].id # None => in[i].sub # None
       /\ in[i].kind \in Numbered => in[i].seq # 0

Link(a) ==
  Disconnected(a) /\ Opening(a) /\ Quiet(a) /\ Owned(a) /\ OneRequest(a) /\ Fetching(a)
  /\ Listening(a)

\* Somebody asks for the next subscription of the account.
IsAsking(a, x) ==
  \/ a.conn # None /\ (a.subs[x].sub # None \/ a.subs[x].retryAt)
  \/ \E r \in DOMAIN a.pending :
       /\ Asks(a, r, x)
       /\ a.subs[x].ackDue = r \/ \E t \in a.tasks : t.kind = "subscribe" /\ t.request = r
  \/ a.conn = None /\ a.reconnectAt /\ ~a.connecting
  \/ a.conn = None /\ a.connecting /\ IsOpening(a)
AllAsk(a, X) == \A x \in DOMAIN a.subs \ X : IsAsking(a, x)

-----------------------------------------------------------------------------
(* The ids of the protocol, and the positions of a subscription. *)

SubscribedIn(in) == {in[i].sub : i \in {j \in DOMAIN in : in[j].kind = "subscribed"}}

\* k is the id of no subscription the server opened.
Unused(a, in, S, k) ==
  /\ k \notin DOMAIN S /\ k \notin DOMAIN a.bySub
  /\ \A i \in DOMAIN in : in[i].sub # k
  /\ \A i \in DOMAIN a.out : a.out[i].sub # k
Ids(a, in, S) ==
  /\ \A i \in DOMAIN a.out : a.out[i].kind = "subscribe" =>
       /\ Unused(a, in, S, a.out[i].id)
       /\ \A j \in DOMAIN a.out : a.out[j].id = a.out[i].id => j = i
  /\ \A t \in a.tasks : t.kind = "subscribe" /\ t.request \in DOMAIN a.pending =>
       /\ Unused(a, in, S, t.request)
       /\ \A i \in DOMAIN a.out : a.out[i].id # t.request
  /\ \A i \in DOMAIN in :
       /\ in[i].kind \in {"unsubscribed", "unknown"} => in[i].sub \notin DOMAIN S
       /\ in[i].kind = "subscribed" => in[i].sub \notin DOMAIN a.bySub
       /\ in[i].kind = "subscribed" =>
            \A j \in DOMAIN in : in[j].kind = "subscribed" /\ in[j].sub = in[i].sub => i = j
       /\ in[i].sub <= a.nextRequest
  /\ \A k \in DOMAIN S : k <= a.nextRequest
  /\ \A k \in DOMAIN a.bySub : k <= a.nextRequest
  /\ \A i \in DOMAIN a.out : a.out[i].sub <= a.nextRequest
  /\ \A t \in a.tasks : t.sub <= a.nextRequest

\* No subscription of the server is left alone, but those of K.
Heard(a, in, S, K) ==
  a.conn # None /\ a.writable =>
    \A k \in DOMAIN S \ K :
      \/ k \in DOMAIN a.bySub
      \/ k \in SubscribedIn(in)
      \/ \E i \in DOMAIN a.out : a.out[i].kind = "unsubscribe" /\ a.out[i].sub = k

\* A cursor is the position of the orders: of a view, of the question that is
\* asked for it, and of any question.
ViewsAt(a) ==
  \A x \in DOMAIN a.subs :
    /\ a.subs[x].cursor # None => a.subs[x].orders = a.subs[x].cursor
    /\ a.subs[x].orders <= MaxHistory
AsksAt(a) ==
  \A i \in DOMAIN a.out : \A x \in DOMAIN a.subs :
    a.out[i].kind = "subscribe" /\ Asks(a, a.out[i].id, x) => a.out[i].cursor = a.subs[x].cursor
SentAt(a) == \A i \in DOMAIN a.out : a.out[i].cursor <= MaxHistory
Cursors(a) == ViewsAt(a) /\ AsksAt(a) /\ SentAt(a)

\* The frame f takes a subscription with the boundary b from v to w.
Legal(v, f, w, b) ==
  \/ f.kind = "resync" /\ w.stage = "begin"
  \/ f.kind = "begin" /\ w.stage = "page" /\ w.pos >= b
  \/ f.kind = "page" /\ v.stage = "page" /\ w.stage = "end" /\ w.pos = v.pos /\ f.n = w.pos
  \/ f.kind = "end" /\ v.stage = "end" /\ w.stage = "units" /\ w.pos = v.pos /\ f.n = w.pos
  \/ f.kind = "badEnd"
  \/ f.kind = "unit" /\ v.stage = "units" /\ w.stage = "units" /\ w.pos = v.pos + 1 /\ f.n = w.pos
  \/ f.kind = "ready" /\ v.stage = "units" /\ w.stage = "units" /\ w.pos = v.pos /\ v.pos >= b
  \/ /\ f.kind \in {"covered", "unavailable", "available"}
     /\ v.stage = "units" /\ w.stage = "units" /\ w.pos = v.pos /\ f.n = w.pos

\* The subscription s has followed the server's up to v.
Follows(s, v) ==
  /\ v.stage = "units" => s.orders = v.pos
  /\ v.stage = "page" => s.staged = <<None>>
  /\ v.stage = "end" => s.staged = <<v.pos>>

\* tr holds the positions of the server's subscription k after each frame, L of
\* them, and b is its boundary.
Follow(a, in, S, k, L, tr, b) ==
  /\ L \in Nat /\ b \in Nat
  /\ \A q \in 0..L : tr[q].stage \in {"page", "end", "units"} => tr[q].pos \in 1..MaxHistory
  /\ \A q \in 0..L : tr[q].stage \in {"page", "end"} => tr[q].pos >= b
  /\ k \in DOMAIN S => /\ L = S[k].seq /\ b = S[k].boundary
                       /\ tr[L].pos = S[k].pos /\ tr[L].stage = S[k].stage
  /\ \A i \in DOMAIN in : in[i].sub = k /\ in[i].seq # 0 =>
       in[i].seq <= L /\ Legal(tr[in[i].seq - 1], in[i], tr[in[i].seq], b)
  /\ \A x \in DOMAIN a.subs : a.subs[x].sub = k =>
       /\ a.subs[x].seq <= L /\ Follows(a.subs[x], tr[a.subs[x].seq])
       /\ a.subs[x].ready => a.subs[x].orders >= b
  /\ k \in DOMAIN a.pending /\ a.pending[k].kind = "subscribe" =>
       \/ tr[0].stage \in {"resync", "begin"}
       \/ tr[0].stage = "units" /\ tr[0].pos = a.subs[a.pending[k].account].cursor
Traced(a, in, S) ==
  \A k \in DOMAIN a.bySub \cup SubscribedIn(in) : \E L, tr, b : Follow(a, in, S, k, L, tr, b)

-----------------------------------------------------------------------------
(* The consumers; A are the commands that are still to come. *)

ArrivingIn(cs) == {cs[i].consumer : i \in {j \in DOMAIN cs : cs[j].kind = "add"}}
\* Commands of consumers that are no longer new; each is added once, and removed
\* when its handle is closed.
Orderly(a, cs) ==
  /\ \A i \in DOMAIN cs :
       /\ cs[i].consumer \in Consumers /\ a.users[cs[i].consumer].handle # "new"
       /\ cs[i].kind = "remove" => a.users[cs[i].consumer].handle \in {"closed", "dropped"}
  /\ \A i, j \in DOMAIN cs :
       cs[i].kind = "add" /\ cs[j].kind = "add" /\ cs[i].consumer = cs[j].consumer => i = j

Newcomer(a, A, c) == a.users[c].handle = "new" \/ c \in ArrivingIn(A)
Audience(a, A) ==
  /\ \A x, y \in DOMAIN a.subs : \A c \in a.subs[x].consumers : c \in a.subs[y].consumers => x = y
  /\ \A c \in Consumers : Newcomer(a, A, c) =>
       /\ a.users[c].view = None /\ ~a.users[c].connected
       /\ ~a.users[c].ready /\ ~a.users[c].stale /\ a.users[c].ended = "no"
       /\ \A x \in DOMAIN a.subs : c \notin a.subs[x].consumers

\* What a consumer u knows of its subscription s.
Knows(u, s) ==
  /\ u.view = s.orders /\ u.stale = s.stale /\ u.ready = s.ready
  /\ u.connected = (s.state = "connected")
\* The same, of a subscription whose socket is gone, before it was told.
KnewBefore(u, s) ==
  /\ u.view = s.orders /\ u.stale = s.stale /\ ~s.ready
  /\ u.connected = (s.state = "connected") /\ (u.ready => u.connected)
KnownTo(u, s, before) == Knows(u, s) \/ (before /\ KnewBefore(u, s))
Known(a, Y) ==
  \A x \in DOMAIN a.subs : \A c \in a.subs[x].consumers : KnownTo(a.users[c], a.subs[x], x \in Y)

Whole(a) == \A c \in Consumers : a.users[c].view # Torn

Explained(a, A) ==
  \A c \in Consumers :
    a.users[c].handle = "open" /\ c \notin ArrivingIn(A)
      /\ ~(\E x \in DOMAIN a.subs : c \in a.subs[x].consumers)
      => a.users[c].ended # "no"

Crowd(a, A, Y) ==
  Audience(a, A) /\ Known(a, Y) /\ Whole(a) /\ Explained(a, A) /\ Orderly(a, A)
Linked(a, in, S, X, K) ==
  /\ EndsOK(in, S) /\ Link(a) /\ Wire(a, in) /\ AllAsk(a, X) /\ Ids(a, in, S)
  /\ Heard(a, in, S, K) /\ Cursors(a) /\ Traced(a, in, S)

\* Everything that a handler keeps, but that the accounts of X ask and that
\* those of Y were told.
Fine(a, in, S, A, X, Y) == ActorOK(a) /\ Linked(a, in, S, X, {}) /\ Crowd(a, A, Y)

-----------------------------------------------------------------------------
SocketOK == actor.conn = None => inbox = <<>> /\ server = NoFunction

\* The server does not run ahead of the accounts.
ServerOK ==
  \A k \in DOMAIN server :
    /\ server[k].stage # "resync" /\ server[k].stage # "begin" =>
          server[k].pos \in 1..MaxHistory
    /\ server[k].stage \in {"page", "end"} => server[k].pos >= server[k].boundary
    /\ server[k].boundary <= history[server[k].account]

IInv ==
  /\ TypeOK /\ SocketOK /\ ServerOK
  /\ Fine(actor, inbox, server, commands, {}, {})

\* b differs from a in fs at most; the same for subscriptions and consumers.
Keeps(a, b, fs) == IsMap(b, Fields) /\ \A f \in Fields \ fs : b[f] = a[f]
KeepsSub(s, t, fs) == IsMap(t, SubFields) /\ \A f \in SubFields \ fs : t[f] = s[f]
KeepsUser(u, v, fs) == IsMap(v, UserFields) /\ \A f \in UserFields \ fs : v[f] = u[f]

KeepsSubs(a, b, fs) ==
  /\ IsMap(b.subs, DOMAIN b.subs) /\ DOMAIN b.subs = DOMAIN a.subs
  /\ \A x \in DOMAIN a.subs : KeepsSub(a.subs[x], b.subs[x], fs)

Alike(a, b) ==
  /\ Keeps(a, b, {"users", "idle", "subs", "unwritable"})
  /\ KeepsSubs(a, b, {"consumers", "retried"})

\* Two actors that differ in their users and in what the views hold agree on every field the
\* link and the requests are read from.
LEMMA AlikeFields ==
  ASSUME NEW a, NEW b, Alike(a, b)
  PROVE  /\ b.conn = a.conn /\ b.writable = a.writable /\ b.out = a.out
         /\ b.heartbeatAt = a.heartbeatAt /\ b.pending = a.pending /\ b.bySub = a.bySub
         /\ b.connecting = a.connecting /\ b.generation = a.generation
         /\ b.nextSubscription = a.nextSubscription /\ b.nextRequest = a.nextRequest
         /\ b.reconnectAt = a.reconnectAt /\ b.tasks = a.tasks
         /\ DOMAIN b.subs = DOMAIN a.subs
         /\ \A x \in DOMAIN a.subs :
              LET s == a.subs[x]
                  t == b.subs[x]
              IN  /\ t.id = s.id /\ t.sub = s.sub /\ t.seq = s.seq /\ t.cursor = s.cursor
                  /\ t.staged = s.staged /\ t.orders = s.orders /\ t.state = s.state
                  /\ t.stale = s.stale /\ t.ready = s.ready /\ t.retryAt = s.retryAt
                  /\ t.confirmed = s.confirmed /\ t.ackDue = s.ackDue
BY SMT DEF Alike, Keeps, KeepsSubs, KeepsSub, Fields, SubFields

\* What delivering an event changes is no part of the link: the ids, the requests, the wire and
\* the traces stay in order.
LEMMA AlikeLinked ==
  ASSUME NEW a, NEW b, Alike(a, b), NEW in, NEW S, NEW X, NEW K, Linked(a, in, S, X, K)
  PROVE  Linked(b, in, S, X, K)
<1>1. Disconnected(b) /\ Opening(b) /\ Quiet(b)
  BY AlikeFields DEF Linked, Link, Disconnected, Opening, Quiet, IsOpening
<1>2. Owned(b) /\ OneRequest(b) /\ Fetching(b)
  BY AlikeFields DEF Linked, Link, Owned, OneRequest, Asks, Fetching
<1>3. Listening(b)
  BY AlikeFields DEF Linked, Link, Listening
<1>4. Wire(b, in) /\ Heard(b, in, S, K)
  BY AlikeFields DEF Linked, Wire, Heard
<1>5. AllAsk(b, X)
  BY AlikeFields DEF Linked, AllAsk, IsAsking, Asks, IsOpening
<1>6. Ids(b, in, S)
  BY AlikeFields DEF Linked, Ids, Unused
<1>7. Cursors(b)
  <2>1. ViewsAt(b)
    BY AlikeFields DEF Linked, Cursors, Link, ViewsAt
  <2>2. AsksAt(b)
    BY AlikeFields DEF Linked, Cursors, Link, Owned, AsksAt, Asks
  <2>3. SentAt(b)
    BY AlikeFields DEF Linked, Cursors, Link, SentAt
  <2> QED
    BY <2>1, <2>2, <2>3 DEF Cursors
<1>8. Traced(b, in, S)
  <2> SUFFICES ASSUME NEW k, NEW L, NEW tr, NEW n, Follow(a, in, S, k, L, tr, n)
               PROVE  Follow(b, in, S, k, L, tr, n)
    BY AlikeFields DEF Linked, Traced
  <2> QED
    BY AlikeFields DEF Follow, Follows, Linked, Link, Owned
<1> QED
  BY <1>1, <1>2, <1>3, <1>4, <1>5, <1>6, <1>7, <1>8 DEF Linked, Link

Events == {"connected", "disconnected", "snapshot", "unit", "ready", "stale", "error"}

\* What an event changes of what a consumer knows.
ToldFields(u, v, event, n) ==
  /\ v.connected = IF event = "connected" THEN TRUE
                   ELSE IF event = "disconnected" THEN FALSE ELSE u.connected
  /\ v.ready = IF event = "ready" THEN TRUE
               ELSE IF event = "disconnected" THEN FALSE ELSE u.ready
  /\ v.view = IF event = "snapshot" THEN n
              ELSE IF event = "unit" THEN Apply(u.view, n) ELSE u.view
  /\ v.stale = IF event = "stale" THEN n # None ELSE u.stale

\* An event that reaches a consumer changes only what it knows: its view, and whether it is
\* connected, ready and stale.
LEMMA ToldEffect ==
  ASSUME NEW u, IsUser(u), NEW event \in Events, NEW n \in Nat
  PROVE  LET v == Told(u, event, n)
         IN  /\ IsUser(v) /\ KeepsUser(u, v, {"connected", "view", "ready", "stale"})
             /\ ToldFields(u, v, event, n)
<1> DEFINE v == Told(u, event, n)
<1>0. Apply(u.view, n) \in Nat /\ u.view \in Nat
  BY PrivateOrdersAssumption DEF Apply, Torn, IsUser
<1>1. CASE event = "connected"
  <2>1. v = [u EXCEPT !.connected = TRUE]
    BY <1>1, Zenon DEF Told
  <2> QED
    BY <1>1, <2>1, Zenon DEF IsUser, IsMap, UserFields, KeepsUser, ToldFields
<1>2. CASE event = "disconnected"
  <2>1. v = [u EXCEPT !.connected = FALSE, !.ready = FALSE]
    BY <1>2, Zenon DEF Told
  <2> QED
    BY <1>2, <2>1, Zenon DEF IsUser, IsMap, UserFields, KeepsUser, ToldFields
<1>3. CASE event = "snapshot"
  <2>1. v = [u EXCEPT !.view = n]
    BY <1>3, Zenon DEF Told
  <2> QED
    BY <1>3, <2>1, Zenon DEF IsUser, IsMap, UserFields, KeepsUser, ToldFields
<1>4. CASE event = "unit"
  <2>1. v = [u EXCEPT !.view = Apply(@, n)]
    BY <1>4, Zenon DEF Told
  <2>2. v = [u EXCEPT !.view = Apply(u.view, n)]
    BY <2>1, Zenon
  <2> QED
    BY <1>0, <1>4, <2>2, Zenon DEF IsUser, IsMap, UserFields, KeepsUser, ToldFields
<1>5. CASE event = "ready"
  <2>1. v = [u EXCEPT !.ready = TRUE]
    BY <1>5, Zenon DEF Told
  <2> QED
    BY <1>5, <2>1, Zenon DEF IsUser, IsMap, UserFields, KeepsUser, ToldFields
<1>6. CASE event = "stale"
  <2>1. v = [u EXCEPT !.stale = (n # None)]
    BY <1>6, Zenon DEF Told
  <2>2. (n # None) \in BOOLEAN
    OBVIOUS
  <2> QED
    BY <1>6, <2>1, <2>2, Zenon DEF IsUser, IsMap, UserFields, KeepsUser, ToldFields
<1>7. CASE event = "error"
  <2>1. v = u
    BY <1>7, Zenon DEF Told
  <2> QED
    BY <1>7, <2>1, Zenon DEF IsUser, KeepsUser, ToldFields
<1> QED
  BY <1>1, <1>2, <1>3, <1>4, <1>5, <1>6, <1>7, Zenon DEF Events

\* A consumer that takes the event knows it; another one must leave.
OfferEffect(u, v, event, n) ==
  /\ IsUser(v) /\ v.handle = u.handle /\ (u.ended # "no" => v.ended # "no")
  /\ Accepts(u) => /\ v.connected = Told(u, event, n).connected
                   /\ v.ready = Told(u, event, n).ready
                   /\ v.view = Told(u, event, n).view
                   /\ v.stale = Told(u, event, n).stale
                   /\ v.ended = u.ended
  /\ ~Accepts(u) => /\ v.connected = u.connected /\ v.ready = u.ready
                    /\ v.view = u.view /\ v.stale = u.stale
                    /\ u.handle # "dropped" => v.ended # "no"

\* offer sends to one consumer: it queues the event, drops the handle whose queue is full, or
\* finds it closed.
LEMMA OfferLemma ==
  ASSUME NEW u, IsUser(u), NEW event \in Events, NEW n \in Nat
  PROVE  OfferEffect(u, Offer(u, event, n), event, n)
<1> DEFINE t == Told(u, event, n)
<1>1. IsUser(t) /\ KeepsUser(u, t, {"connected", "view", "ready", "stale"})
  BY ToldEffect
<1>2. t.handle = u.handle /\ t.ended = u.ended /\ t.queued = u.queued
  BY <1>1 DEF KeepsUser, UserFields
<1>3. u.queued \in 0..QueueSize /\ QueueSize \in Nat
  BY PrivateOrdersAssumption DEF IsUser
<1>4. CASE u.handle = "dropped"
  BY <1>4, Zenon DEF OfferEffect, Offer, Accepts
<1>5. CASE u.handle # "dropped" /\ u.queued = QueueSize
  <2>1. ~Accepts(u)
    BY <1>3, <1>5 DEF Accepts
  <2>2. Offer(u, event, n) = [u EXCEPT !.ended = "overflow"]
    BY <1>5, Zenon DEF Offer
  <2> QED
    BY <2>1, <2>2, Zenon DEF OfferEffect, IsUser, IsMap, UserFields
<1>6. CASE u.handle # "dropped" /\ u.queued # QueueSize
  <2>1. Accepts(u) /\ t.queued + 1 \in 0..QueueSize
    BY <1>2, <1>3, <1>6 DEF Accepts
  <2>2. Offer(u, event, n) = [t EXCEPT !.queued = t.queued + 1]
    BY <1>6, Zenon DEF Offer
  <2> HIDE DEF t
  <2>3. /\ IsUser([t EXCEPT !.queued = t.queued + 1])
        /\ KeepsUser(t, [t EXCEPT !.queued = t.queued + 1], {"queued"})
    BY <1>1, <2>1, Zenon DEF IsUser, IsMap, UserFields, KeepsUser, ToldFields
  <2>4. /\ Offer(u, event, n).connected = t.connected /\ Offer(u, event, n).ready = t.ready
        /\ Offer(u, event, n).view = t.view /\ Offer(u, event, n).stale = t.stale
        /\ Offer(u, event, n).handle = t.handle /\ Offer(u, event, n).ended = t.ended
    BY <2>2, <2>3 DEF KeepsUser, UserFields
  <2> QED
    BY <1>2, <2>1, <2>2, <2>3, <2>4, Zenon DEF OfferEffect, t
<1> QED
  BY <1>4, <1>5, <1>6

\* deliver, to the consumers of x
DeliverEffect(a, b, x, event, n) ==
  /\ Keeps(a, b, {"users", "subs", "idle"})
  /\ KeepsSubs(a, b, {"consumers"})
  /\ \A y \in DOMAIN a.subs : b.subs[y].consumers =
       IF y = x THEN {c \in a.subs[y].consumers : Accepts(a.users[c])} ELSE a.subs[y].consumers
  /\ \A c \in Consumers : b.users[c] =
       IF c \in a.subs[x].consumers THEN Offer(a.users[c], event, n) ELSE a.users[c]

\* deliver offers the event to the consumers of one account and forgets those that did not take
\* it; nobody else is touched.
LEMMA DeliverLemma ==
  ASSUME NEW a, ActorOK(a), NEW x \in DOMAIN a.subs, NEW event \in Events, NEW n \in Nat
  PROVE  /\ ActorOK(Deliver(a, x, event, n))
         /\ DeliverEffect(a, Deliver(a, x, event, n), x, event, n)
<1> DEFINE all  == a.subs[x].consumers
           kept == {c \in all : Accepts(a.users[c])}
           us   == [c \in Consumers |-> IF c \in all THEN Offer(a.users[c], event, n) ELSE a.users[c]]
           idle == IF kept = {} THEN a.idle \cup {x} ELSE a.idle
           t    == [a.subs[x] EXCEPT !.consumers = kept]
           ss   == [a.subs EXCEPT ![x] = t]
           b    == Deliver(a, x, event, n)
<1>1. b = [a EXCEPT !.users = us, !.subs[x].consumers = kept, !.idle = idle]
  <2>1. b = [a EXCEPT !.users = [c \in Consumers |-> IF c \in all THEN Offer(@[c], event, n) ELSE @[c]],
                      !.subs[x].consumers = kept,
                      !.idle = IF kept = {} THEN @ \cup {x} ELSE @]
    BY Zenon DEF Deliver
  <2> QED
    BY <2>1, Zenon
<1>2. IsSub(t) /\ KeepsSub(a.subs[x], t, {"consumers"}) /\ t.consumers = kept
  <2>1. kept \in SUBSET Consumers /\ IsSub(a.subs[x])
    BY DEF ActorOK, SubsOK, IsSub
  <2> HIDE DEF kept
  <2> QED
    BY <2>1, Zenon DEF IsSub, IsMap, SubFields, KeepsSub
<1>3. /\ IsMap(ss, DOMAIN ss) /\ DOMAIN ss = DOMAIN a.subs /\ ss[x] = t
      /\ \A y \in DOMAIN a.subs : y # x => ss[y] = a.subs[y]
  <2> HIDE DEF t
  <2> QED
    BY Zenon DEF IsMap, ActorOK, SubsOK
<1>4. SubsOK(ss)
  <2> HIDE DEF ss, t
  <2> QED
    BY <1>2, <1>3 DEF SubsOK, ActorOK
<1>5. IsMap(us, Consumers) /\ \A c \in Consumers : us[c] = IF c \in all THEN Offer(a.users[c], event, n) ELSE a.users[c]
  BY Zenon DEF IsMap
<1>6. UsersOK(us)
  <2>1. \A c \in Consumers : IsUser(Offer(a.users[c], event, n)) /\ IsUser(a.users[c])
    BY OfferLemma DEF OfferEffect, ActorOK, UsersOK
  <2> QED
    BY <1>5, <2>1, Zenon DEF UsersOK
<1>7. idle \in SUBSET Accounts
  BY DEF ActorOK, SubsOK
<1>8. /\ IsMap(b, Fields) /\ b.users = us /\ b.idle = idle /\ b.subs = ss
      /\ \A f \in Fields \ {"users", "subs", "idle"} : b[f] = a[f]
  <2>1. IsMap(a, Fields)
    BY DEF ActorOK
  <2> HIDE DEF us, kept, idle, b
  <2> QED
    BY <1>1, <2>1, Zenon DEF Fields, IsMap
<1> HIDE DEF us, kept, idle, ss, t, b
<1>9. Keeps(a, b, {"users", "subs", "idle"})
  BY <1>8 DEF Keeps
<1>10. ActorOK(b)
  BY <1>4, <1>6, <1>7, <1>8, <1>9 DEF ActorOK, Keeps, Fields
<1>11. KeepsSubs(a, b, {"consumers"})
  <2>1. \A y \in DOMAIN a.subs : KeepsSub(a.subs[y], a.subs[y], {"consumers"})
    BY DEF KeepsSub, ActorOK, SubsOK, IsSub
  <2> QED
    BY <1>2, <1>3, <1>8, <2>1 DEF KeepsSubs
<1>12. \A y \in DOMAIN a.subs : b.subs[y].consumers =
         IF y = x THEN {c \in a.subs[y].consumers : Accepts(a.users[c])} ELSE a.subs[y].consumers
  BY <1>2, <1>3, <1>8 DEF kept
<1> QED
  BY <1>5, <1>8, <1>9, <1>10, <1>11, <1>12, Zenon DEF DeliverEffect, b

\* deliver leaves the link as it was.
LEMMA DeliverAlike ==
  ASSUME NEW a, NEW b, NEW x, NEW event, NEW n, DeliverEffect(a, b, x, event, n)
  PROVE  Alike(a, b)
BY DEF DeliverEffect, Alike, Keeps, KeepsSubs, KeepsSub

\* What a consumer that takes the event knows then.
KnowsThen(u, event, n, s, told) ==
  LET v == Told(u, event, n)
  IN  KnownTo(v, s, told) /\ v.view # Torn

\* The fields of the consumers' side.
Delivered(a, b, x, event, n) ==
  /\ DOMAIN b.subs = DOMAIN a.subs
  /\ \A y \in DOMAIN a.subs :
       /\ b.subs[y].orders = a.subs[y].orders /\ b.subs[y].stale = a.subs[y].stale
       /\ b.subs[y].ready = a.subs[y].ready /\ b.subs[y].state = a.subs[y].state
       /\ b.subs[y].consumers \in SUBSET a.subs[y].consumers
       /\ a.subs[y].consumers \in SUBSET Consumers
       /\ y # x => b.subs[y].consumers = a.subs[y].consumers
  /\ \A c \in a.subs[x].consumers :
       /\ c \in b.subs[x].consumers <=> Accepts(a.users[c])
       /\ OfferEffect(a.users[c], b.users[c], event, n)
  /\ \A c \in Consumers : c \notin a.subs[x].consumers => b.users[c] = a.users[c]

\* What the accounts, the consumers and the idle accounts are after deliver, field by field.
LEMMA DeliverFields ==
  ASSUME NEW a, ActorOK(a), NEW b, NEW x \in DOMAIN a.subs, NEW event \in Events, NEW n \in Nat,
         DeliverEffect(a, b, x, event, n)
  PROVE  Delivered(a, b, x, event, n)
<1>1. \A c \in Consumers : OfferEffect(a.users[c], Offer(a.users[c], event, n), event, n)
  BY OfferLemma DEF ActorOK, UsersOK
<1>2. \A y \in DOMAIN a.subs : a.subs[y].consumers \in SUBSET Consumers
  BY DEF ActorOK, SubsOK, IsSub
<1>3. /\ DOMAIN b.subs = DOMAIN a.subs
      /\ \A y \in DOMAIN a.subs :
           /\ b.subs[y].orders = a.subs[y].orders /\ b.subs[y].stale = a.subs[y].stale
           /\ b.subs[y].ready = a.subs[y].ready /\ b.subs[y].state = a.subs[y].state
  BY DEF DeliverEffect, KeepsSubs, KeepsSub, SubFields
<1>4. \A y \in DOMAIN a.subs :
        /\ b.subs[y].consumers \in SUBSET a.subs[y].consumers
        /\ y # x => b.subs[y].consumers = a.subs[y].consumers
  BY DEF DeliverEffect
<1>5. \A c \in a.subs[x].consumers : c \in b.subs[x].consumers <=> Accepts(a.users[c])
  BY DEF DeliverEffect
<1>6. /\ \A c \in a.subs[x].consumers : OfferEffect(a.users[c], b.users[c], event, n)
      /\ \A c \in Consumers : c \notin a.subs[x].consumers => b.users[c] = a.users[c]
  BY <1>1, <1>2, Zenon DEF DeliverEffect
<1> QED
  BY <1>2, <1>3, <1>4, <1>5, <1>6 DEF Delivered

\* What the commands to come rely on is left alone.
LEMMA OrderlyKept ==
  ASSUME NEW a, NEW b, NEW A, Orderly(a, A),
         \A c \in Consumers : b.users[c].handle = a.users[c].handle
  PROVE  Orderly(b, A)
BY DEF Orderly

\* deliver keeps every consumer in step with the stream, when each knew all but this event
\* before it.
LEMMA DeliverCrowd ==
  ASSUME NEW a, ActorOK(a), NEW b, NEW x \in DOMAIN a.subs, NEW event \in Events, NEW n \in Nat,
         DeliverEffect(a, b, x, event, n), NEW A, NEW Y,
         Audience(a, A), Whole(a), Explained(a, A), Orderly(a, A),
         \A y \in DOMAIN a.subs : y # x => \A c \in a.subs[y].consumers :
           KnownTo(a.users[c], a.subs[y], y \in Y),
         \A c \in a.subs[x].consumers :
           Accepts(a.users[c]) => KnowsThen(a.users[c], event, n, a.subs[x], x \in Y)
  PROVE  Crowd(b, A, Y)
<1>0. Delivered(a, b, x, event, n)
  BY DeliverFields
<1>1. Audience(b, A)
  <2>1. \A c \in Consumers : b.users[c].handle = a.users[c].handle
    BY <1>0 DEF Delivered, OfferEffect
  <2>2. \A c \in Consumers : Newcomer(b, A, c) =>
          Newcomer(a, A, c) /\ (\A y \in DOMAIN a.subs : c \notin a.subs[y].consumers)
    BY <2>1 DEF Newcomer, Audience
  <2>3. \A c \in Consumers : Newcomer(b, A, c) =>
          b.users[c] = a.users[c] /\ (\A y \in DOMAIN b.subs : c \notin b.subs[y].consumers)
    BY <1>0, <2>2 DEF Delivered
  <2>4. \A y, z \in DOMAIN b.subs : \A c \in b.subs[y].consumers : c \in b.subs[z].consumers => y = z
    BY <1>0 DEF Delivered, Audience
  <2> QED
    BY <2>2, <2>3, <2>4, Zenon DEF Audience
<1>2. Known(b, Y)
  <2> SUFFICES ASSUME NEW y \in DOMAIN b.subs, NEW c \in b.subs[y].consumers
               PROVE  KnownTo(b.users[c], b.subs[y], y \in Y)
    BY DEF Known
  <2>1. CASE y = x
    <3>1. c \in a.subs[x].consumers /\ Accepts(a.users[c])
      BY <1>0, <2>1 DEF Delivered
    <3>2. KnowsThen(a.users[c], event, n, a.subs[x], x \in Y)
      BY <3>1
    <3> DEFINE v == Told(a.users[c], event, n)
    <3>3. KnownTo(v, a.subs[x], x \in Y)
      BY <3>2, Zenon DEF KnowsThen
    <3>4. /\ b.users[c].connected = v.connected /\ b.users[c].ready = v.ready
          /\ b.users[c].view = v.view /\ b.users[c].stale = v.stale
      BY <1>0, <3>1 DEF Delivered, OfferEffect
    <3>5. /\ b.subs[x].orders = a.subs[x].orders /\ b.subs[x].stale = a.subs[x].stale
          /\ b.subs[x].ready = a.subs[x].ready /\ b.subs[x].state = a.subs[x].state
      BY <1>0 DEF Delivered
    <3> HIDE DEF v
    <3> QED
      BY <2>1, <3>3, <3>4, <3>5, Zenon DEF KnownTo, Knows, KnewBefore
  <2>2. CASE y # x
    <3>1. c \notin a.subs[x].consumers /\ c \in a.subs[y].consumers /\ c \in Consumers
      BY <2>2, <1>0 DEF Delivered, Audience
    <3>2. b.users[c] = a.users[c]
      BY <1>0, <3>1 DEF Delivered
    <3>3. KnownTo(a.users[c], a.subs[y], y \in Y)
      BY <1>0, <2>2, <3>1 DEF Delivered
    <3>4. /\ b.subs[y].orders = a.subs[y].orders /\ b.subs[y].stale = a.subs[y].stale
          /\ b.subs[y].ready = a.subs[y].ready /\ b.subs[y].state = a.subs[y].state
      BY <1>0 DEF Delivered
    <3> QED
      BY <3>2, <3>3, <3>4, Zenon DEF KnownTo, Knows, KnewBefore
  <2> QED
    BY <2>1, <2>2
<1>3. Whole(b)
  BY <1>0 DEF Delivered, Whole, OfferEffect, KnowsThen
<1>4. Explained(b, A)
  <2> SUFFICES ASSUME NEW c \in Consumers, b.users[c].handle = "open", c \notin ArrivingIn(A),
                      \A y \in DOMAIN b.subs : c \notin b.subs[y].consumers
               PROVE  b.users[c].ended # "no"
    BY DEF Explained
  <2>1. CASE c \in a.subs[x].consumers
    BY <2>1, <1>0 DEF Delivered, OfferEffect
  <2>2. CASE c \notin a.subs[x].consumers
    <3>1. b.users[c] = a.users[c] /\ \A y \in DOMAIN a.subs : c \notin a.subs[y].consumers
      BY <2>2, <1>0 DEF Delivered
    <3> QED
      BY <3>1 DEF Explained
  <2> QED
    BY <2>1, <2>2
<1>5. Orderly(b, A)
  <2>1. \A c \in Consumers : b.users[c].handle = a.users[c].handle
    BY <1>0 DEF Delivered, OfferEffect
  <2> QED
    BY <2>1, OrderlyKept
<1> QED
  BY <1>1, <1>2, <1>3, <1>4, <1>5 DEF Crowd

\* Events of which everything but the consumers' knowledge is as it was.
LEMMA DeliverFine ==
  ASSUME NEW a, NEW in, NEW S, NEW A, NEW X, NEW Y, Fine(a, in, S, A, X, Y),
         NEW x \in DOMAIN a.subs, NEW event \in Events, NEW n \in Nat,
         \A c \in a.subs[x].consumers :
           Accepts(a.users[c]) => KnowsThen(a.users[c], event, n, a.subs[x], x \in Y)
  PROVE  Fine(Deliver(a, x, event, n), in, S, A, X, Y)
<1> DEFINE b == Deliver(a, x, event, n)
<1>1. ActorOK(b) /\ DeliverEffect(a, b, x, event, n)
  BY DeliverLemma DEF Fine
<1> HIDE DEF b
<1>2. Linked(b, in, S, X, {})
  BY <1>1, DeliverAlike, AlikeLinked DEF Fine
<1>3. Crowd(b, A, Y)
  <2>1. \A y \in DOMAIN a.subs : y # x => \A c \in a.subs[y].consumers :
          KnownTo(a.users[c], a.subs[y], y \in Y)
    BY Zenon DEF Fine, Crowd, Known
  <2>2. ActorOK(a) /\ Audience(a, A) /\ Whole(a) /\ Explained(a, A) /\ Orderly(a, A)
    BY DEF Fine, Crowd
  <2> QED
    BY <1>1, <2>1, <2>2, DeliverCrowd
<1> QED
  BY <1>1, <1>2, <1>3 DEF Fine, b

\* An error tells nothing about the orders.
LEMMA ReportFine ==
  ASSUME NEW a, NEW in, NEW S, NEW A, NEW X, NEW Y, Fine(a, in, S, A, X, Y), NEW x
  PROVE  /\ Fine(Report(a, x), in, S, A, X, Y)
         /\ x \in DOMAIN a.subs => DeliverEffect(a, Report(a, x), x, "error", None)
         /\ x \notin DOMAIN a.subs => Report(a, x) = a
<1>1. CASE x \notin DOMAIN a.subs
  BY <1>1, Zenon DEF Report, Deliver
<1>2. CASE x \in DOMAIN a.subs
  <2>1. \A c \in a.subs[x].consumers : Told(a.users[c], "error", None) = a.users[c]
    BY Zenon DEF Told
  <2>2. \A c \in a.subs[x].consumers : KnowsThen(a.users[c], "error", None, a.subs[x], x \in Y)
    <3>1. \A c \in a.subs[x].consumers : c \in Consumers
      BY <1>2 DEF Fine, ActorOK, SubsOK, IsSub
    <3>2. \A c \in a.subs[x].consumers :
            /\ KnownTo(a.users[c], a.subs[x], x \in Y)
            /\ a.users[c].view # Torn
      <4>1. Known(a, Y) /\ Whole(a)
        BY DEF Fine, Crowd
      <4> QED
        BY <1>2, <3>1, <4>1, Zenon DEF Known, Whole
    <3> QED
      BY <2>1, <3>2, Zenon DEF KnowsThen
  <2>3. None \in Nat /\ "error" \in Events
    BY DEF None, Events
  <2>4. Fine(Deliver(a, x, "error", None), in, S, A, X, Y)
    BY <1>2, <2>2, <2>3, DeliverFine
  <2>5. DeliverEffect(a, Deliver(a, x, "error", None), x, "error", None)
    BY <1>2, <2>3, DeliverLemma DEF Fine
  <2> QED
    BY <1>2, <2>4, <2>5 DEF Report
<1> QED
  BY <1>1, <1>2

\* Inserting into a map: the new key holds the new value, the other keys keep theirs.
LEMMA WithMap ==
  ASSUME NEW f, NEW r, NEW v
  PROVE  /\ IsMap(With(f, r, v), DOMAIN With(f, r, v))
         /\ DOMAIN With(f, r, v) = DOMAIN f \cup {r} /\ With(f, r, v)[r] = v
         /\ \A x \in DOMAIN f : x # r => With(f, r, v)[x] = f[x]
BY Zenon DEF With, IsMap

\* Removing keys from a map: the other keys keep their values.
LEMMA WithoutMap ==
  ASSUME NEW f, NEW T
  PROVE  /\ IsMap(Without(f, T), DOMAIN Without(f, T))
         /\ DOMAIN Without(f, T) = DOMAIN f \ T
         /\ \A x \in DOMAIN f \ T : Without(f, T)[x] = f[x]
BY Zenon DEF Without, Restrict, IsMap

\* Nothing that a consumer is told of has changed.
SameCrowd(a, b) ==
  /\ b.users = a.users /\ DOMAIN b.subs = DOMAIN a.subs
  /\ \A x \in DOMAIN a.subs :
       /\ b.subs[x].consumers = a.subs[x].consumers /\ b.subs[x].orders = a.subs[x].orders
       /\ b.subs[x].stale = a.subs[x].stale /\ b.subs[x].ready = a.subs[x].ready
       /\ b.subs[x].state = a.subs[x].state

\* A handler that touches neither users nor views leaves the consumers in step.
LEMMA CrowdKept ==
  ASSUME NEW a, NEW b, SameCrowd(a, b), NEW A, NEW Y, Crowd(a, A, Y)
  PROVE  Crowd(b, A, Y)
<1>1. Audience(b, A)
  BY DEF SameCrowd, Crowd, Audience, Newcomer
<1>2. Known(b, Y)
  <2> SUFFICES ASSUME NEW x \in DOMAIN a.subs, NEW c \in a.subs[x].consumers
               PROVE  KnownTo(b.users[c], b.subs[x], x \in Y)
    BY DEF SameCrowd, Known
  <2>1. KnownTo(a.users[c], a.subs[x], x \in Y)
    BY Zenon DEF Crowd, Known
  <2>2. /\ b.users = a.users
        /\ b.subs[x].orders = a.subs[x].orders /\ b.subs[x].stale = a.subs[x].stale
        /\ b.subs[x].ready = a.subs[x].ready /\ b.subs[x].state = a.subs[x].state
    BY DEF SameCrowd
  <2> QED
    BY <2>1, <2>2, Zenon DEF KnownTo, Knows, KnewBefore
<1>3. Whole(b) /\ Explained(b, A)
  BY DEF SameCrowd, Crowd, Whole, Explained
<1>4. Orderly(b, A)
  BY OrderlyKept DEF SameCrowd, Crowd
<1> QED
  BY <1>1, <1>2, <1>3, <1>4 DEF Crowd

\* b differs from a in fields that belong to no subscription.
LEMMA SameSubs ==
  ASSUME NEW a, NEW b, b.subs = a.subs, b.users = a.users
  PROVE  SameCrowd(a, b)
BY DEF SameCrowd

\* The traces go on for whoever still follows them from where it was.
LEMMA TracedKept ==
  ASSUME NEW a, NEW b, NEW in, NEW S, Traced(a, in, S),
         \A k \in DOMAIN b.bySub \cup SubscribedIn(in) :
           /\ k \in DOMAIN a.bySub \cup SubscribedIn(in)
           /\ k \in DOMAIN b.pending /\ b.pending[k].kind = "subscribe" =>
                /\ k \in DOMAIN a.pending /\ a.pending[k].kind = "subscribe"
                /\ b.subs[b.pending[k].account].cursor = a.subs[a.pending[k].account].cursor
           /\ \A x \in DOMAIN b.subs : b.subs[x].sub = k =>
                /\ x \in DOMAIN a.subs /\ a.subs[x].sub = k
                /\ b.subs[x].seq = a.subs[x].seq /\ b.subs[x].staged = a.subs[x].staged
                /\ b.subs[x].orders = a.subs[x].orders /\ b.subs[x].ready = a.subs[x].ready
  PROVE  Traced(b, in, S)
<1> SUFFICES ASSUME NEW k \in DOMAIN b.bySub \cup SubscribedIn(in)
             PROVE  \E L, tr, n : Follow(b, in, S, k, L, tr, n)
  BY DEF Traced
<1>1. PICK L, tr, n : Follow(a, in, S, k, L, tr, n)
  BY Zenon DEF Traced
<1>2. \A x \in DOMAIN b.subs : b.subs[x].sub = k =>
        /\ b.subs[x].seq <= L /\ Follows(b.subs[x], tr[b.subs[x].seq])
        /\ b.subs[x].ready => b.subs[x].orders >= n
  BY <1>1, SMT DEF Follow, Follows
<1>3. k \in DOMAIN b.pending /\ b.pending[k].kind = "subscribe" =>
        \/ tr[0].stage \in {"resync", "begin"}
        \/ tr[0].stage = "units" /\ tr[0].pos = b.subs[b.pending[k].account].cursor
  BY <1>1, SMT DEF Follow
<1>4. Follow(b, in, S, k, L, tr, n)
  BY <1>1, <1>2, <1>3 DEF Follow
<1> QED
  BY <1>4

\* The types of the frames and of the tasks.
OutTypes(a) ==
  \A i \in DOMAIN a.out :
    /\ a.out[i].id \in Nat /\ a.out[i].sub \in Nat /\ a.out[i].cursor \in Nat
    /\ a.out[i].kind \in {"subscribe", "unsubscribe", "refresh"}
TaskTypes(a) ==
  \A t \in a.tasks : t.owner \in Nat /\ t.request \in Nat /\ t.sub \in Nat
InTypes(in) ==
  \A i \in DOMAIN in : in[i] \in Frames /\ in[i].sub \in Nat /\ in[i].seq \in Nat
                       /\ in[i].id \in Nat /\ in[i].n \in Nat
\* The frames queued for the socket and the running tasks of a well-typed actor are records of
\* the expected shape.
LEMMA FrameTypes ==
  ASSUME NEW a, ActorOK(a)
  PROVE  OutTypes(a) /\ TaskTypes(a)
<1>1. \A i \in DOMAIN a.out : a.out[i] \in ClientFrames
  BY DEF ActorOK
<1> QED
  BY <1>1 DEF OutTypes, TaskTypes, ActorOK, ClientFrames, Tasks
\* The frames that arrived and were not read yet are records of the expected shape.
LEMMA InboxTypes ==
  ASSUME NEW in, NEW S, EndsOK(in, S)
  PROVE  InTypes(in)
<1>1. \A i \in DOMAIN in : in[i] \in Frames
  BY DEF EndsOK
<1> QED
  BY <1>1 DEF InTypes, Frames

-----------------------------------------------------------------------------
(* Tasks *)

\* A task that renews a token changes nothing.
LEMMA RenewLinked ==
  ASSUME NEW a, ActorOK(a), NEW in, NEW S, NEW X, NEW K, Linked(a, in, S, X, K),
         NEW t \in Tasks, t.kind \in {"refresh", "reauth"},
         t.kind = "refresh" => t.sub # None, t.sub <= a.nextRequest,
         NEW b, Keeps(a, b, {"tasks"}), b.tasks = a.tasks \cup {t}
  PROVE  ActorOK(b) /\ Linked(b, in, S, X, K) /\ SameCrowd(a, b)
<1>1. \A f \in Fields \ {"tasks"} : b[f] = a[f]
  BY DEF Keeps
<1>2. /\ b.conn = a.conn /\ b.writable = a.writable /\ b.out = a.out
      /\ b.heartbeatAt = a.heartbeatAt /\ b.pending = a.pending /\ b.bySub = a.bySub
      /\ b.connecting = a.connecting /\ b.generation = a.generation
      /\ b.nextSubscription = a.nextSubscription /\ b.nextRequest = a.nextRequest
      /\ b.reconnectAt = a.reconnectAt /\ b.subs = a.subs /\ b.users = a.users
      /\ b.unsubscribing = a.unsubscribing /\ b.idle = a.idle /\ b.unwritable = a.unwritable
      /\ b.nextConn = a.nextConn
  BY <1>1, SMT DEF Fields
<1>3. ActorOK(b)
  BY <1>2 DEF Keeps, ActorOK
<1>4. \A u \in b.tasks : u.kind \in {"open", "subscribe"} => u \in a.tasks
  OBVIOUS
<1>5. Disconnected(b) /\ Opening(b) /\ Quiet(b)
  BY <1>2, <1>4 DEF Linked, Link, Disconnected, Opening, Quiet, IsOpening
<1>6. Owned(b) /\ OneRequest(b)
  <2>1. Owned(b)
    BY <1>2 DEF Linked, Link, Owned
  <2>2. OneRequest(b)
    BY <1>2 DEF Linked, Link, OneRequest, Asks
  <2> QED
    BY <2>1, <2>2
<1>7. Fetching(b) /\ Listening(b)
  BY <1>2, <1>4 DEF Linked, Link, Fetching, Listening
<1>8. Wire(b, in) /\ Heard(b, in, S, K) /\ Cursors(b)
  <2>1. Wire(b, in)
    BY <1>2 DEF Linked, Wire
  <2>2. Heard(b, in, S, K)
    BY <1>2 DEF Linked, Heard
  <2>3. ViewsAt(b)
    BY <1>2 DEF Linked, Cursors, ViewsAt
  <2>4. AsksAt(b)
    BY <1>2 DEF Linked, Wire, Cursors, AsksAt, Asks
  <2>5. SentAt(b)
    BY <1>2 DEF Linked, Cursors, SentAt
  <2> QED
    BY <2>1, <2>2, <2>3, <2>4, <2>5 DEF Cursors
<1>9. AllAsk(b, X)
  BY <1>2 DEF Linked, AllAsk, IsAsking, Asks, IsOpening
<1>10. Ids(b, in, S)
  BY <1>2, <1>4 DEF Linked, Ids, Unused
<1>11. Traced(b, in, S)
  BY <1>2, TracedKept DEF Linked
<1> QED
  BY <1>2, <1>3, <1>5, <1>6, <1>7, <1>8, <1>9, <1>10, <1>11, SameSubs DEF Linked, Link

-----------------------------------------------------------------------------
(* subscribe *)

\* Nobody asks for the account yet, and it needs somebody to.
MayAsk(a, x) ==
  /\ x \in DOMAIN a.subs /\ a.subs[x].sub = None /\ ~a.subs[x].retryAt
  /\ \A r \in DOMAIN a.pending : ~Asks(a, r, x)

Subscribed(a, b, x) ==
  LET r == a.nextRequest + 1
      request == [kind |-> "subscribe", account |-> x, subscription |-> a.subs[x].id]
      t == [kind |-> "subscribe", owner |-> a.conn, request |-> r, account |-> x, sub |-> None]
  IN  /\ Keeps(a, b, {"nextRequest", "pending", "tasks"})
      /\ b.nextRequest = r /\ b.tasks = a.tasks \cup {t}
      /\ IsMap(b.pending, DOMAIN b.pending) /\ DOMAIN b.pending = DOMAIN a.pending \cup {r}
      /\ b.pending[r] = request /\ \A q \in DOMAIN a.pending : q # r => b.pending[q] = a.pending[q]

\* subscribe registers a pending request under a fresh number and starts the task that fetches
\* its token.
LEMMA SubscribeEffect ==
  ASSUME NEW a, ActorOK(a), NEW x \in DOMAIN a.subs, a.conn # None
  PROVE  Subscribed(a, Subscribe(a, x), x)
<1> DEFINE r == a.nextRequest + 1
           request == [kind |-> "subscribe", account |-> x, subscription |-> a.subs[x].id]
           t == [kind |-> "subscribe", owner |-> a.conn, request |-> r, account |-> x, sub |-> None]
           p == With(a.pending, r, request)
           c == [a EXCEPT !.nextRequest = r, !.pending = p]
           b == Subscribe(a, x)
<1>1. b = [c EXCEPT !.tasks = @ \cup {t}]
  BY Zenon DEF Subscribe, Spawn
<1>2. /\ IsMap(c, Fields) /\ c.nextRequest = r /\ c.pending = p
      /\ \A f \in Fields \ {"nextRequest", "pending"} : c[f] = a[f]
  <2>1. IsMap(a, Fields)
    BY DEF ActorOK
  <2> HIDE DEF r, p
  <2> QED
    BY <2>1, Zenon DEF IsMap, Fields
<1>3. /\ IsMap(b, Fields) /\ b.tasks = c.tasks \cup {t}
      /\ \A f \in Fields \ {"tasks"} : b[f] = c[f]
  <2> HIDE DEF t, c, b
  <2> QED
    BY <1>1, <1>2, Zenon DEF IsMap, Fields
<1>4. /\ IsMap(p, DOMAIN p) /\ DOMAIN p = DOMAIN a.pending \cup {r}
      /\ p[r] = request /\ \A q \in DOMAIN a.pending : q # r => p[q] = a.pending[q]
  <2> HIDE DEF r, request
  <2> QED
    BY Zenon DEF With, IsMap
<1> HIDE DEF b, c, t, p
<1>5. /\ Keeps(a, b, {"nextRequest", "pending", "tasks"})
      /\ b.nextRequest = r /\ b.tasks = a.tasks \cup {t} /\ b.pending = p
  BY <1>2, <1>3 DEF Keeps, Fields
<1> HIDE DEF r
<1> QED
  BY <1>4, <1>5 DEF Subscribed, b, t, r

SubscribeKeeps(a, b) ==
  /\ b.conn = a.conn /\ b.writable = a.writable /\ b.out = a.out
  /\ b.heartbeatAt = a.heartbeatAt /\ b.bySub = a.bySub
  /\ b.connecting = a.connecting /\ b.generation = a.generation
  /\ b.nextSubscription = a.nextSubscription
  /\ b.reconnectAt = a.reconnectAt /\ b.subs = a.subs /\ b.users = a.users
  /\ b.unsubscribing = a.unsubscribing /\ b.idle = a.idle /\ b.unwritable = a.unwritable
  /\ b.nextConn = a.nextConn

\* subscribe keeps the link in order, and the account it asked for needs no excuse any more.
LEMMA SubscribeLinked ==
  ASSUME NEW a, ActorOK(a), NEW in, NEW S, NEW X, NEW K, Linked(a, in, S, X, K),
         NEW x, MayAsk(a, x), a.conn # None,
         NEW b, Subscribed(a, b, x)
  PROVE  /\ ActorOK(b) /\ Linked(b, in, S, X \ {x}, K) /\ SameCrowd(a, b)
         /\ SubscribeKeeps(a, b) /\ \A y : y # x /\ MayAsk(a, y) => MayAsk(b, y)
<1> DEFINE r == a.nextRequest + 1
           request == [kind |-> "subscribe", account |-> x, subscription |-> a.subs[x].id]
           t == [kind |-> "subscribe", owner |-> a.conn, request |-> r, account |-> x, sub |-> None]
<1>0. /\ Link(a) /\ Wire(a, in) /\ AllAsk(a, X) /\ Ids(a, in, S) /\ Heard(a, in, S, K)
      /\ Cursors(a) /\ Traced(a, in, S) /\ EndsOK(in, S)
      /\ InTypes(in) /\ OutTypes(a) /\ TaskTypes(a)
  BY FrameTypes, InboxTypes DEF Linked
<1>1. \A f \in Fields \ {"nextRequest", "pending", "tasks"} : b[f] = a[f]
  BY DEF Keeps, Subscribed
<1>2. SubscribeKeeps(a, b)
  BY <1>1, SMT DEF Fields, SubscribeKeeps
<1>3. /\ b.nextRequest = r /\ b.tasks = a.tasks \cup {t} /\ DOMAIN b.pending = DOMAIN a.pending \cup {r}
      /\ b.pending[r] = request /\ \A q \in DOMAIN a.pending : q # r => b.pending[q] = a.pending[q]
      /\ IsMap(b.pending, DOMAIN b.pending)
  BY DEF Subscribed
<1>4. r \in Nat /\ x \in Accounts /\ a.conn \in Nat /\ a.subs[x].id \in Nat /\ a.nextRequest \in Nat
  BY DEF ActorOK, SubsOK, IsSub, MayAsk
<1>5. r \notin DOMAIN a.pending /\ r # None
  BY <1>0, <1>4 DEF Link, Owned, None
<1>6. \A q \in DOMAIN a.pending : q # r /\ b.pending[q] = a.pending[q]
  BY <1>3, <1>5
<1>7. request \in Requests /\ t \in Tasks
  BY <1>4 DEF Requests, Tasks, None
<1>8. /\ request.kind = "subscribe" /\ request.account = x /\ request.subscription = a.subs[x].id
      /\ t.kind = "subscribe" /\ t.owner = a.conn /\ t.request = r /\ t.sub = None
  OBVIOUS
<1> HIDE DEF request, t
<1>9. ActorOK(b)
  <2>1. PendingOK(b.pending)
    BY <1>3, <1>4, <1>6, <1>7 DEF ActorOK, PendingOK
  <2>2. b.tasks \in SUBSET Tasks
    BY <1>3, <1>7 DEF ActorOK
  <2> QED
    BY <1>2, <1>3, <1>4, <2>1, <2>2 DEF ActorOK, SubscribeKeeps, Keeps, Subscribed
<1>10. Disconnected(b) /\ Opening(b) /\ Quiet(b)
  BY <1>0, <1>2, <1>3, <1>8 DEF SubscribeKeeps, Link, Disconnected, Opening, Quiet, IsOpening, MayAsk
<1>11. Owned(b)
  <2>1. \A q \in DOMAIN a.pending :
          /\ 0 < q /\ q <= a.nextRequest
          /\ a.pending[q].account \in DOMAIN a.subs
          /\ a.subs[a.pending[q].account].id = a.pending[q].subscription
    BY <1>0 DEF Link, Owned
  <2>2. DOMAIN a.pending \in SUBSET Nat
    BY DEF ActorOK, PendingOK
  <2>3. ASSUME NEW q \in DOMAIN b.pending
        PROVE  /\ 0 < q /\ q <= b.nextRequest
               /\ b.pending[q].account \in DOMAIN b.subs
               /\ b.subs[b.pending[q].account].id = b.pending[q].subscription
    <3>1. CASE q = r
      BY <1>2, <1>3, <1>4, <1>8, <3>1 DEF SubscribeKeeps, MayAsk
    <3>2. CASE q # r
      <4>1. q \in DOMAIN a.pending /\ b.pending[q] = a.pending[q] /\ q \in Nat
        BY <1>3, <1>6, <2>2, <3>2
      <4> QED
        BY <1>2, <1>3, <1>4, <2>1, <4>1 DEF SubscribeKeeps
    <3> QED
      BY <3>1, <3>2
  <2>4. \A y \in DOMAIN a.subs : a.subs[y].ackDue \in Nat
    BY DEF ActorOK, SubsOK, IsSub
  <2>5. \A y \in DOMAIN b.subs :
          b.subs[y].id <= b.nextSubscription /\ b.subs[y].ackDue <= b.nextRequest
    BY <1>0, <1>2, <1>3, <1>4, <2>4 DEF SubscribeKeeps, Link, Owned
  <2>6. \A y, z \in DOMAIN b.subs : b.subs[y].id = b.subs[z].id => y = z
    BY <1>0, <1>2 DEF SubscribeKeeps, Link, Owned
  <2> QED
    BY <2>3, <2>5, <2>6 DEF Owned
<1>12. \A q, y : Asks(b, q, y) <=> Asks(a, q, y) \/ (q = r /\ y = x)
  BY <1>3, <1>5, <1>6, <1>8 DEF Asks
<1>13. OneRequest(b)
  <2>1. \A y \in DOMAIN a.subs : a.subs[y].ackDue # r
    BY <1>0, <1>4 DEF Link, Owned, ActorOK, SubsOK, IsSub
  <2>2. \A y \in DOMAIN b.subs : \A q \in DOMAIN b.pending : Asks(b, q, y) =>
          /\ b.subs[y].sub = None /\ ~b.subs[y].retryAt
          /\ \A z \in DOMAIN b.pending : Asks(b, z, y) => z = q
    <3>1. \A q : ~Asks(a, q, x)
      BY DEF MayAsk, Asks
    <3>2. \A y \in DOMAIN a.subs : \A q, z : Asks(a, q, y) /\ Asks(a, z, y) =>
            a.subs[y].sub = None /\ ~a.subs[y].retryAt /\ z = q
      BY <1>0 DEF Link, OneRequest, Asks
    <3>3. b.subs = a.subs
      BY <1>2 DEF SubscribeKeeps
    <3> QED
      BY <1>12, <3>1, <3>2, <3>3 DEF MayAsk
  <2>3. \A y \in DOMAIN b.subs :
          /\ b.subs[y].sub # None => ~b.subs[y].retryAt
          /\ b.subs[y].ackDue \in DOMAIN b.pending => Asks(b, b.subs[y].ackDue, y)
    BY <1>0, <1>2, <1>3, <1>12, <2>1 DEF SubscribeKeeps, Link, OneRequest
  <2> QED
    BY <2>2, <2>3 DEF OneRequest
<1>14. Fetching(b)
  BY <1>0, <1>2, <1>3, <1>4, <1>6, <1>8 DEF SubscribeKeeps, Link, Fetching, ActorOK, Tasks
<1>15. Listening(b)
  BY <1>0, <1>2 DEF SubscribeKeeps, Link, Listening
<1>16. Wire(b, in)
  <2>1. \A i \in DOMAIN in : in[i].id # r
    BY <1>0, <1>4 DEF Wire
  <2>2. \A i \in DOMAIN a.out : a.out[i].id # r
    BY <1>0, <1>4 DEF Wire
  <2>3. \A i \in DOMAIN in : in[i].id <= b.nextRequest
    BY <1>0, <1>3, <1>4 DEF Wire, InTypes
  <2>4. \A i \in DOMAIN a.out : a.out[i].id <= b.nextRequest
    BY <1>0, <1>3, <1>4 DEF Wire, OutTypes
  <2> QED
    BY <1>0, <1>2, <1>3, <1>6, <2>1, <2>2, <2>3, <2>4 DEF SubscribeKeeps, Wire
<1>17. AllAsk(b, X \ {x})
  <2> SUFFICES ASSUME NEW y \in DOMAIN b.subs \ (X \ {x}) PROVE IsAsking(b, y)
    BY DEF AllAsk
  <2>1. CASE y = x
    BY <2>1, <1>3, <1>8, <1>12 DEF IsAsking, Asks
  <2>2. CASE y # x
    BY <2>2, <1>0, <1>2, <1>3, <1>12 DEF AllAsk, IsAsking, IsOpening, SubscribeKeeps
  <2> QED
    BY <2>1, <2>2
<1>18. Ids(b, in, S)
  <2>1. Unused(a, in, S, r) /\ \A i \in DOMAIN a.out : a.out[i].id # r
    BY <1>0, <1>4 DEF Ids, Unused, Wire
  <2>2. \A k : Unused(a, in, S, k) => Unused(b, in, S, k)
    BY <1>2 DEF SubscribeKeeps, Unused
  <2>3. \A k \in Nat : k <= a.nextRequest => k <= b.nextRequest
    BY <1>3, <1>4
  <2>4. DOMAIN S \in SUBSET Nat /\ DOMAIN a.bySub \in SUBSET Nat
    BY <1>0 DEF EndsOK, ActorOK, BySubOK
  <2>5. \A u \in b.tasks : u.sub <= b.nextRequest
    BY <1>0, <1>3, <1>4, <1>8, <2>3 DEF Ids, TaskTypes, None
  <2>6. \A u \in b.tasks : u.kind = "subscribe" /\ u.request \in DOMAIN b.pending =>
          /\ Unused(b, in, S, u.request)
          /\ \A i \in DOMAIN b.out : b.out[i].id # u.request
    BY <1>0, <1>2, <1>3, <1>8, <2>1, <2>2 DEF SubscribeKeeps, Ids
  <2>7. /\ \A k \in DOMAIN S : k <= b.nextRequest
        /\ \A k \in DOMAIN b.bySub : k <= b.nextRequest
        /\ \A i \in DOMAIN b.out : b.out[i].sub <= b.nextRequest
        /\ \A i \in DOMAIN in : in[i].sub <= b.nextRequest
    BY <1>0, <1>2, <2>3, <2>4 DEF SubscribeKeeps, Ids, InTypes, OutTypes
  <2> QED
    BY <1>0, <1>2, <2>2, <2>5, <2>6, <2>7 DEF SubscribeKeeps, Ids
<1>19. Heard(b, in, S, K)
  BY <1>0, <1>2 DEF SubscribeKeeps, Heard
<1>20. Cursors(b)
  <2>1. ViewsAt(b)
    BY <1>0, <1>2, <1>3, <1>4, <1>6 DEF SubscribeKeeps, Cursors, ViewsAt
  <2>2. AsksAt(b)
    BY <1>0, <1>2, <1>3, <1>4, <1>6 DEF SubscribeKeeps, Cursors, Wire, AsksAt, Asks
  <2>3. SentAt(b)
    BY <1>0, <1>2, <1>3, <1>4, <1>6 DEF SubscribeKeeps, Cursors, SentAt
  <2> QED
    BY <2>1, <2>2, <2>3 DEF Cursors
<1>21. Traced(b, in, S)
  <2>1. \A k \in DOMAIN b.bySub \cup SubscribedIn(in) : k # r
    BY <1>0, <1>2, <1>4 DEF SubscribeKeeps, Ids, SubscribedIn
  <2> QED
    BY <1>0, <1>2, <1>3, <1>6, <2>1, TracedKept DEF SubscribeKeeps
<1>22. \A y : y # x /\ MayAsk(a, y) => MayAsk(b, y)
  BY <1>2, <1>3, <1>12 DEF SubscribeKeeps, MayAsk, Asks
<1>23. SameCrowd(a, b)
  BY <1>2, SameSubs DEF SubscribeKeeps
<1> QED
  BY <1>2, <1>9, <1>10, <1>11, <1>13, <1>14, <1>15, <1>16, <1>17, <1>18, <1>19, <1>20, <1>21,
     <1>22, <1>23 DEF Linked, Link

-----------------------------------------------------------------------------
(* send *)

Sent(a, b, frame) ==
  /\ Keeps(a, b, {"out", "unwritable"}) /\ b.unwritable \in {a.unwritable, a.conn}
  /\ a.conn # None /\ a.writable => b.out = Append(a.out, frame)
  /\ ~(a.conn # None /\ a.writable) => b.out = a.out

\* send_frame queues one frame for the socket, or notes that the socket does not take writes.
LEMMA SendEffect ==
  ASSUME NEW a, ActorOK(a), NEW frame
  PROVE  Sent(a, Send(a, frame), frame)
<1> DEFINE b == Send(a, frame)
<1>0. IsMap(a, Fields) /\ (a.writable = TRUE \/ a.writable = FALSE)
  BY DEF ActorOK
<1>1. CASE a.conn = None
  BY <1>0, <1>1, Zenon DEF Send, Sent, Keeps
<1>2. CASE a.conn # None /\ a.writable
  <2>1. b = [a EXCEPT !.out = Append(@, frame)]
    BY <1>2, Zenon DEF Send
  <2>2. b = [a EXCEPT !.out = Append(a.out, frame)]
    BY <2>1, Zenon
  <2> DEFINE o == Append(a.out, frame)
  <2>3. b = [a EXCEPT !.out = o]
    BY <2>2
  <2> HIDE DEF o, b
  <2>4. IsMap(b, Fields) /\ b.out = o /\ \A f \in Fields \ {"out"} : b[f] = a[f]
    BY <1>0, <2>3, Zenon DEF IsMap, Fields
  <2> QED
    BY <1>2, <2>4 DEF Sent, Keeps, b, o, Fields
<1>3. CASE a.conn # None /\ ~a.writable
  <2>1. b = [a EXCEPT !.unwritable = a.conn]
    BY <1>3, Zenon DEF Send
  <2> HIDE DEF b
  <2>2. IsMap(b, Fields) /\ b.unwritable = a.conn /\ \A f \in Fields \ {"unwritable"} : b[f] = a[f]
    BY <1>0, <2>1, Zenon DEF IsMap, Fields
  <2> QED
    BY <1>3, <2>2 DEF Sent, Keeps, b, Fields
<1> QED
  BY <1>0, <1>1, <1>2, <1>3

SendKeeps(a, b) ==
  /\ b.conn = a.conn /\ b.writable = a.writable
  /\ b.heartbeatAt = a.heartbeatAt /\ b.bySub = a.bySub /\ b.pending = a.pending
  /\ b.connecting = a.connecting /\ b.generation = a.generation
  /\ b.nextSubscription = a.nextSubscription /\ b.nextRequest = a.nextRequest
  /\ b.reconnectAt = a.reconnectAt /\ b.subs = a.subs /\ b.users = a.users
  /\ b.unsubscribing = a.unsubscribing /\ b.idle = a.idle
  /\ b.nextConn = a.nextConn /\ b.tasks = a.tasks

\* A frame that is in order.
MaySend(a, in, S, frame) ==
  /\ frame \in ClientFrames /\ 0 < frame.id /\ frame.id <= a.nextRequest
  /\ frame.id \in DOMAIN a.pending => a.pending[frame.id].kind = frame.kind
  /\ frame.kind # "subscribe" => frame.sub # None
  /\ frame.kind = "subscribe" =>
       /\ frame.sub = None /\ frame.account \in Accounts
       /\ Unused(a, in, S, frame.id)
       /\ frame.id \in DOMAIN a.pending =>
            frame.cursor = a.subs[a.pending[frame.id].account].cursor
  /\ frame.sub <= a.nextRequest /\ frame.cursor <= MaxHistory
  /\ \A i \in DOMAIN a.out : a.out[i].id # frame.id
  /\ \A i \in DOMAIN a.out : a.out[i].kind = "subscribe" => a.out[i].id # frame.sub
  /\ \A t \in a.tasks : t.kind = "subscribe" /\ t.request \in DOMAIN a.pending =>
       t.request # frame.id /\ t.request # frame.sub

\* The subscriptions that a frame leaves to be heard of.
Unheard(K, frame) == IF frame.kind = "unsubscribe" THEN K \ {frame.sub} ELSE K

\* Sending a frame about a live request or subscription keeps the link in order.
LEMMA SendLinked ==
  ASSUME NEW a, ActorOK(a), NEW in, NEW S, NEW X, NEW K, Linked(a, in, S, X, K),
         NEW frame, MaySend(a, in, S, frame), NEW b, Sent(a, b, frame)
  PROVE  /\ ActorOK(b) /\ Linked(b, in, S, X, Unheard(K, frame)) /\ SameCrowd(a, b)
         /\ SendKeeps(a, b)
<1>0. /\ Link(a) /\ Wire(a, in) /\ AllAsk(a, X) /\ Ids(a, in, S) /\ Heard(a, in, S, K)
      /\ Cursors(a) /\ Traced(a, in, S) /\ EndsOK(in, S)
      /\ InTypes(in) /\ OutTypes(a) /\ TaskTypes(a)
  BY FrameTypes, InboxTypes DEF Linked
<1>1. \A f \in Fields \ {"out", "unwritable"} : b[f] = a[f]
  BY DEF Keeps, Sent
<1>2. SendKeeps(a, b)
  BY <1>1, SMT DEF Fields, SendKeeps
<1>3. b.out = a.out \/ (b.out = Append(a.out, frame) /\ a.conn # None /\ a.writable)
  BY DEF Sent
<1>4. /\ frame \in ClientFrames /\ frame.id \in Nat /\ frame.sub \in Nat /\ frame.cursor \in Nat
  BY DEF MaySend, ClientFrames
<1>5. ActorOK(b)
  <2>1. b.out \in Seq(ClientFrames)
    <3>1. a.out \in Seq(ClientFrames)
      BY DEF ActorOK
    <3>2. Append(a.out, frame) \in Seq(ClientFrames)
      BY <1>4, <3>1
    <3> QED
      BY <1>3, <3>1, <3>2
  <2>2. b.unwritable \in Nat
    BY DEF ActorOK, Sent
  <2> QED
    BY <1>2, <2>1, <2>2 DEF ActorOK, SendKeeps, Sent, Keeps
<1>6. /\ \A i \in DOMAIN b.out : b.out[i] = frame \/ (i \in DOMAIN a.out /\ b.out[i] = a.out[i])
      /\ \A i, j \in DOMAIN b.out : i # j =>
           \/ i \in DOMAIN a.out /\ b.out[i] = a.out[i]
           \/ j \in DOMAIN a.out /\ b.out[j] = a.out[j]
      /\ \A i \in DOMAIN a.out : i \in DOMAIN b.out /\ b.out[i] = a.out[i]
      /\ a.conn # None /\ a.writable => \E i \in DOMAIN b.out : b.out[i] = frame
      /\ ~(a.conn # None /\ a.writable) => b.out = a.out
  <2>1. a.out \in Seq(ClientFrames)
    BY DEF ActorOK
  <2>2. CASE b.out = a.out /\ ~(a.conn # None /\ a.writable)
    BY <2>2
  <2>3. CASE b.out = Append(a.out, frame) /\ a.conn # None /\ a.writable
    <3>1. /\ DOMAIN b.out = 1..Len(a.out) + 1 /\ DOMAIN a.out = 1..Len(a.out) /\ Len(a.out) \in Nat
          /\ b.out[Len(a.out) + 1] = frame /\ \A i \in DOMAIN a.out : b.out[i] = a.out[i]
      BY <2>1, <2>3, <1>4
    <3> QED
      BY <2>3, <3>1
  <2> QED
    BY <2>2, <2>3 DEF Sent
<1>7. /\ Disconnected(b) /\ Opening(b) /\ Quiet(b) /\ Owned(b) /\ OneRequest(b) /\ Fetching(b)
      /\ Listening(b)
  <2>1. Disconnected(b)
    BY <1>0, <1>2, <1>6 DEF SendKeeps, Link, Disconnected
  <2>2. Opening(b) /\ Quiet(b) /\ Owned(b)
    BY <1>0, <1>2 DEF SendKeeps, Link, Opening, Quiet, IsOpening, Owned
  <2>3. OneRequest(b) /\ Fetching(b) /\ Listening(b)
    <3>1. OneRequest(b)
      BY <1>0, <1>2 DEF SendKeeps, Link, OneRequest, Asks
    <3>2. Fetching(b)
      BY <1>0, <1>2 DEF SendKeeps, Link, Fetching
    <3>3. Listening(b)
      BY <1>0, <1>2 DEF SendKeeps, Link, Listening
    <3> QED
      BY <3>1, <3>2, <3>3
  <2> QED
    BY <2>1, <2>2, <2>3
<1>8. Wire(b, in)
  BY <1>0, <1>2, <1>6 DEF SendKeeps, Wire, MaySend
<1>9. AllAsk(b, X)
  BY <1>0, <1>2 DEF AllAsk, IsAsking, IsOpening, Asks, SendKeeps
<1>10. Ids(b, in, S)
  <2>1. \A k : Unused(a, in, S, k) /\ k # frame.sub => Unused(b, in, S, k)
    BY <1>2, <1>6 DEF SendKeeps, Unused
  <2>2. /\ frame.kind = "subscribe" => Unused(b, in, S, frame.id)
    BY <2>1 DEF MaySend, None
  <2>3. \A i \in DOMAIN b.out : b.out[i].kind = "subscribe" => Unused(b, in, S, b.out[i].id)
    BY <1>0, <1>6, <2>1, <2>2 DEF Ids, MaySend
  <2>4. \A i \in DOMAIN b.out : b.out[i].kind = "subscribe" =>
          \A j \in DOMAIN b.out : b.out[j].id = b.out[i].id => j = i
    BY <1>0, <1>6 DEF Ids, MaySend
  <2>5. \A t \in b.tasks : t.kind = "subscribe" /\ t.request \in DOMAIN b.pending =>
       /\ Unused(b, in, S, t.request)
       /\ \A i \in DOMAIN b.out : b.out[i].id # t.request
    BY <1>0, <1>2, <1>6, <2>1 DEF Ids, MaySend, SendKeeps
  <2>6. \A i \in DOMAIN b.out : b.out[i].sub <= b.nextRequest
    BY <1>0, <1>2, <1>6 DEF Ids, MaySend, SendKeeps
  <2> QED
    BY <1>0, <1>2, <2>3, <2>4, <2>5, <2>6 DEF Ids, SendKeeps
<1>11. Heard(b, in, S, Unheard(K, frame))
  BY <1>0, <1>2, <1>6 DEF SendKeeps, Heard, Unheard
<1>12. Cursors(b)
  <2>1. ViewsAt(b)
    BY <1>0, <1>2, <1>6 DEF SendKeeps, Cursors, MaySend, ViewsAt
  <2>2. AsksAt(b)
    BY <1>0, <1>2, <1>6 DEF SendKeeps, Cursors, MaySend, AsksAt, Asks
  <2>3. SentAt(b)
    BY <1>0, <1>2, <1>6 DEF SendKeeps, Cursors, MaySend, SentAt
  <2> QED
    BY <2>1, <2>2, <2>3 DEF Cursors
<1>13. Traced(b, in, S)
  BY <1>0, <1>2, TracedKept DEF SendKeeps
<1>14. SameCrowd(a, b)
  BY <1>2, SameSubs DEF SendKeeps
<1> QED
  BY <1>0, <1>2, <1>5, <1>7, <1>8, <1>9, <1>10, <1>11, <1>12, <1>13, <1>14 DEF Linked, Link

-----------------------------------------------------------------------------
(* unsubscribe *)

\* No request is being numbered with the subscription k.
Named(a, k) ==
  /\ k # None /\ k \in Nat /\ k <= a.nextRequest
  /\ \A i \in DOMAIN a.out : a.out[i].kind = "subscribe" => a.out[i].id # k
  /\ \A t \in a.tasks : t.kind = "subscribe" /\ t.request \in DOMAIN a.pending => t.request # k

UnsubscribeKeeps(a, b) ==
  /\ b.conn = a.conn /\ b.writable = a.writable
  /\ b.heartbeatAt = a.heartbeatAt /\ b.bySub = a.bySub /\ b.pending = a.pending
  /\ b.connecting = a.connecting /\ b.generation = a.generation
  /\ b.nextSubscription = a.nextSubscription
  /\ b.reconnectAt = a.reconnectAt /\ b.subs = a.subs /\ b.users = a.users
  /\ b.idle = a.idle /\ b.nextConn = a.nextConn /\ b.tasks = a.tasks
  /\ b.nextRequest = a.nextRequest + 1

Unsubscribed(a, b, k) ==
  LET frame == [kind |-> "unsubscribe", id |-> a.nextRequest + 1, sub |-> k,
                account |-> None, cursor |-> None]
  IN  /\ IsMap(b, Fields) /\ UnsubscribeKeeps(a, b)
      /\ b.unsubscribing = a.unsubscribing \cup {a.nextRequest + 1}
      /\ b.unwritable \in {a.unwritable, a.conn}
      /\ a.conn # None /\ a.writable => b.out = Append(a.out, frame)
      /\ ~(a.conn # None /\ a.writable) => b.out = a.out

\* What is numbered before a frame is sent.
Bumped(a) == [a EXCEPT !.nextRequest = a.nextRequest + 1,
                       !.unsubscribing = a.unsubscribing \cup {a.nextRequest + 1}]
BumpedKeeps(a, c) ==
  /\ IsMap(c, Fields) /\ c.nextRequest = a.nextRequest + 1
  /\ c.unsubscribing = a.unsubscribing \cup {a.nextRequest + 1}
  /\ c.conn = a.conn /\ c.writable = a.writable /\ c.out = a.out
  /\ c.heartbeatAt = a.heartbeatAt /\ c.bySub = a.bySub /\ c.pending = a.pending
  /\ c.connecting = a.connecting /\ c.generation = a.generation
  /\ c.nextSubscription = a.nextSubscription
  /\ c.reconnectAt = a.reconnectAt /\ c.subs = a.subs /\ c.users = a.users
  /\ c.unwritable = a.unwritable /\ c.idle = a.idle
  /\ c.nextConn = a.nextConn /\ c.tasks = a.tasks

\* Taking the next request number changes nothing else.
LEMMA BumpedEffect ==
  ASSUME NEW a, ActorOK(a)
  PROVE  BumpedKeeps(a, Bumped(a)) /\ ActorOK(Bumped(a))
<1> DEFINE r == a.nextRequest + 1
           u == a.unsubscribing \cup {r}
           c == Bumped(a)
<1>1. c = [a EXCEPT !.nextRequest = r, !.unsubscribing = u]
  BY Zenon DEF Bumped
<1>2. /\ IsMap(c, Fields) /\ c.nextRequest = r /\ c.unsubscribing = u
      /\ \A f \in Fields \ {"nextRequest", "unsubscribing"} : c[f] = a[f]
  <2>1. IsMap(a, Fields)
    BY DEF ActorOK
  <2> HIDE DEF c, r, u
  <2> QED
    BY <1>1, <2>1, Zenon DEF Fields, IsMap
<1> HIDE DEF c
<1>3. BumpedKeeps(a, c)
  BY <1>2, SMT DEF Fields, BumpedKeeps
<1>4. r \in Nat /\ u \in SUBSET Nat
  BY DEF ActorOK
<1>5. ActorOK(c)
  BY <1>2, <1>3, <1>4 DEF ActorOK, BumpedKeeps
<1> QED
  BY <1>3, <1>5 DEF c

\* unsubscribe takes the next request number and sends one frame that ends the subscription.
LEMMA UnsubscribeEffect ==
  ASSUME NEW a, ActorOK(a), NEW k
  PROVE  Unsubscribed(a, Unsubscribe(a, k), k)
<1> DEFINE frame == [kind |-> "unsubscribe", id |-> a.nextRequest + 1, sub |-> k,
                     account |-> None, cursor |-> None]
           c == Bumped(a)
           b == Unsubscribe(a, k)
<1>1. b = Send(c, frame)
  <2>1. b = Send([a EXCEPT !.nextRequest = a.nextRequest + 1,
                           !.unsubscribing = @ \cup {a.nextRequest + 1}], frame)
    BY Zenon DEF Unsubscribe
  <2> QED
    BY <2>1, Zenon DEF Bumped
<1>2. BumpedKeeps(a, c) /\ ActorOK(c)
  BY BumpedEffect
<1> HIDE DEF c, frame
<1>3. Sent(c, b, frame)
  BY <1>1, <1>2, SendEffect
<1> HIDE DEF b
<1>4. \A f \in Fields \ {"out", "unwritable"} : b[f] = c[f]
  BY <1>3 DEF Keeps, Sent
<1>5. SendKeeps(c, b)
  BY <1>4, SMT DEF Fields, SendKeeps
<1>6. UnsubscribeKeeps(a, b) /\ b.unsubscribing = a.unsubscribing \cup {a.nextRequest + 1}
  BY <1>2, <1>5 DEF SendKeeps, UnsubscribeKeeps, BumpedKeeps
<1>7. /\ IsMap(b, Fields) /\ b.unwritable \in {a.unwritable, a.conn}
      /\ a.conn # None /\ a.writable => b.out = Append(a.out, frame)
      /\ ~(a.conn # None /\ a.writable) => b.out = a.out
  BY <1>2, <1>3 DEF Sent, Keeps, BumpedKeeps
<1> QED
  BY <1>6, <1>7 DEF Unsubscribed, frame, b

\* Once the unsubscribe is queued the server's subscription that nobody read any more is
\* accounted for.
LEMMA UnsubscribedLinked ==
  ASSUME NEW a, ActorOK(a), NEW in, NEW S, NEW X, NEW K, Linked(a, in, S, X, K),
         NEW k, Named(a, k), NEW b, Unsubscribed(a, b, k)
  PROVE  /\ ActorOK(b) /\ Linked(b, in, S, X, K \ {k})
         /\ SameCrowd(a, b) /\ UnsubscribeKeeps(a, b)
<1> DEFINE r == a.nextRequest + 1
           c == Bumped(a)
           frame == [kind |-> "unsubscribe", id |-> r, sub |-> k, account |-> None, cursor |-> None]
<1>3. BumpedKeeps(a, c) /\ ActorOK(c)
  BY BumpedEffect
<1> HIDE DEF c
<1>0. /\ Link(a) /\ Wire(a, in) /\ AllAsk(a, X) /\ Ids(a, in, S) /\ Heard(a, in, S, K)
      /\ Cursors(a) /\ Traced(a, in, S) /\ EndsOK(in, S)
      /\ InTypes(in) /\ OutTypes(a) /\ TaskTypes(a)
  BY FrameTypes, InboxTypes DEF Linked
<1>5. r \in Nat /\ a.nextRequest \in Nat /\ k \in Nat /\ k # None /\ k <= a.nextRequest
  BY DEF ActorOK, Named
<1>4. /\ c.conn = a.conn /\ c.writable = a.writable /\ c.out = a.out
      /\ c.heartbeatAt = a.heartbeatAt /\ c.bySub = a.bySub /\ c.pending = a.pending
      /\ c.connecting = a.connecting /\ c.generation = a.generation
      /\ c.nextSubscription = a.nextSubscription
      /\ c.reconnectAt = a.reconnectAt /\ c.subs = a.subs /\ c.users = a.users
      /\ c.nextConn = a.nextConn /\ c.tasks = a.tasks /\ c.nextRequest = r
  BY <1>3 DEF BumpedKeeps
<1>7. Linked(c, in, S, X, K)
  <2>0. \A n \in Nat : n <= a.nextRequest => n <= c.nextRequest
    BY <1>4, <1>5
  <2>1. Disconnected(c) /\ Opening(c) /\ Quiet(c)
    BY <1>0, <1>4 DEF Link, Disconnected, Opening, Quiet, IsOpening
  <2>2. Owned(c)
    BY <1>0, <1>4, <2>0 DEF Link, Owned, ActorOK, PendingOK, SubsOK, IsSub
  <2>3. OneRequest(c) /\ Listening(c)
    BY <1>0, <1>4 DEF Link, OneRequest, Asks, Listening
  <2>4. Fetching(c)
    BY <1>0, <1>4, <2>0 DEF Link, Fetching, TaskTypes
  <2>5. Wire(c, in)
    BY <1>0, <1>4, <2>0 DEF Wire, InTypes, OutTypes
  <2>6. AllAsk(c, X)
    BY <1>0, <1>4 DEF AllAsk, IsAsking, IsOpening, Asks
  <2>7. Ids(c, in, S)
    <3>1. \A n : Unused(a, in, S, n) => Unused(c, in, S, n)
      BY <1>4 DEF Unused
    <3>2. DOMAIN S \in SUBSET Nat /\ DOMAIN a.bySub \in SUBSET Nat
      BY <1>0 DEF EndsOK, ActorOK, BySubOK
    <3>3. /\ \A i \in DOMAIN in : in[i].sub <= c.nextRequest
          /\ \A n \in DOMAIN S : n <= c.nextRequest
          /\ \A n \in DOMAIN c.bySub : n <= c.nextRequest
          /\ \A i \in DOMAIN c.out : c.out[i].sub <= c.nextRequest
          /\ \A t \in c.tasks : t.sub <= c.nextRequest
      BY <1>0, <1>4, <2>0, <3>2 DEF Ids, InTypes, OutTypes, TaskTypes
    <3> QED
      BY <1>0, <1>4, <3>1, <3>3 DEF Ids
  <2>8. Heard(c, in, S, K) /\ Cursors(c)
    <3>1. Heard(c, in, S, K)
      BY <1>0, <1>4 DEF Heard
    <3>2. ViewsAt(c)
      BY <1>0, <1>4 DEF Cursors, ViewsAt
    <3>3. AsksAt(c)
      BY <1>0, <1>4 DEF Cursors, AsksAt, Asks
    <3>4. SentAt(c)
      BY <1>0, <1>4 DEF Cursors, SentAt
    <3> QED
      BY <3>1, <3>2, <3>3, <3>4 DEF Cursors
  <2>9. Traced(c, in, S)
    BY <1>0, <1>4, TracedKept
  <2> QED
    BY <1>0, <2>1, <2>2, <2>3, <2>4, <2>5, <2>6, <2>7, <2>8, <2>9 DEF Linked, Link
<1>8. MaySend(c, in, S, frame)
  <2>1. frame \in ClientFrames
    BY <1>5 DEF ClientFrames, None
  <2>2. /\ frame.kind = "unsubscribe" /\ frame.id = r /\ frame.sub = k /\ frame.cursor = None
    OBVIOUS
  <2> HIDE DEF frame
  <2>3. r \notin DOMAIN c.pending
    BY <1>0, <1>4, <1>5 DEF Link, Owned, ActorOK, PendingOK
  <2>4. \A i \in DOMAIN c.out : c.out[i].id # r
    BY <1>0, <1>4, <1>5 DEF Wire, OutTypes
  <2>5. \A t \in c.tasks : t.kind = "subscribe" => t.request # r
    BY <1>0, <1>4, <1>5 DEF Link, Fetching, TaskTypes
  <2>6. frame.cursor <= MaxHistory
    BY <2>2, PrivateOrdersAssumption DEF None
  <2>7. 0 < r /\ r <= c.nextRequest /\ k <= c.nextRequest
    BY <1>4, <1>5
  <2> QED
    BY <1>4, <2>1, <2>2, <2>3, <2>4, <2>5, <2>6, <2>7 DEF MaySend, Named
<1>9. frame.sub = k /\ frame.kind = "unsubscribe"
  OBVIOUS
<1> HIDE DEF frame
<1>10. Sent(c, b, frame)
  <2>1. \A f \in Fields \ {"out", "unwritable"} : b[f] = c[f]
    <3>1. UnsubscribeKeeps(a, b) /\ b.unsubscribing = a.unsubscribing \cup {r}
      BY DEF Unsubscribed
    <3> QED
      BY <1>3, <3>1, SMT DEF Fields, UnsubscribeKeeps, BumpedKeeps
  <2>2. /\ IsMap(b, Fields) /\ b.unwritable \in {c.unwritable, c.conn}
        /\ c.conn # None /\ c.writable => b.out = Append(c.out, frame)
        /\ ~(c.conn # None /\ c.writable) => b.out = c.out
    BY <1>3 DEF Unsubscribed, BumpedKeeps, frame
  <2> QED
    BY <2>1, <2>2 DEF Sent, Keeps
<1>11. /\ ActorOK(b) /\ Linked(b, in, S, X, Unheard(K, frame)) /\ SameCrowd(c, b) /\ SendKeeps(c, b)
  BY <1>3, <1>7, <1>8, <1>10, SendLinked
<1>12. Unheard(K, frame) = K \ {k}
  BY <1>9 DEF Unheard
<1>13. UnsubscribeKeeps(a, b)
  BY DEF Unsubscribed
<1>14. SameCrowd(a, b)
  BY <1>13, SameSubs DEF UnsubscribeKeeps
<1> QED
  BY <1>11, <1>12, <1>13, <1>14

\* The same of unsubscribe as the handlers call it.
LEMMA UnsubscribeLinked ==
  ASSUME NEW a, ActorOK(a), NEW in, NEW S, NEW X, NEW K, Linked(a, in, S, X, K),
         NEW k, Named(a, k)
  PROVE  /\ ActorOK(Unsubscribe(a, k)) /\ Linked(Unsubscribe(a, k), in, S, X, K \ {k})
         /\ SameCrowd(a, Unsubscribe(a, k)) /\ UnsubscribeKeeps(a, Unsubscribe(a, k))
BY UnsubscribeEffect, UnsubscribedLinked

-----------------------------------------------------------------------------
(* One subscription *)

\* b has the subscription t for x, and is a in the fields that are not in fs.
SetSub(a, b, x, t, fs) ==
  /\ Keeps(a, b, {"subs"} \cup fs)
  /\ IsMap(b.subs, DOMAIN b.subs) /\ DOMAIN b.subs = DOMAIN a.subs
  /\ b.subs[x] = t /\ \A y \in DOMAIN a.subs : y # x => b.subs[y] = a.subs[y]

SetSubKeeps(a, b) ==
  /\ b.conn = a.conn /\ b.writable = a.writable /\ b.out = a.out
  /\ b.heartbeatAt = a.heartbeatAt /\ b.pending = a.pending
  /\ b.connecting = a.connecting /\ b.generation = a.generation
  /\ b.nextSubscription = a.nextSubscription /\ b.nextRequest = a.nextRequest
  /\ b.reconnectAt = a.reconnectAt /\ b.users = a.users
  /\ b.unsubscribing = a.unsubscribing /\ b.idle = a.idle /\ b.unwritable = a.unwritable
  /\ b.nextConn = a.nextConn /\ b.tasks = a.tasks

\* A change of one account's view leaves every field but the views as it was.
LEMMA SetSubFields ==
  ASSUME NEW a, NEW b, NEW x, NEW t, NEW fs \in SUBSET {"bySub"}, SetSub(a, b, x, t, fs)
  PROVE  SetSubKeeps(a, b) /\ ("bySub" \notin fs => b.bySub = a.bySub)
<1>1. \A f \in Fields \ {"subs", "bySub"} : b[f] = a[f]
  BY DEF SetSub, Keeps
<1>2. "bySub" \notin fs => b.bySub = a.bySub
  BY DEF SetSub, Keeps, Fields
<1> QED
  BY <1>1, <1>2, SMT DEF SetSubKeeps, Fields

\* Replacing one account's view is a change of that view alone.
LEMMA SetSubEffect ==
  ASSUME NEW a, ActorOK(a), NEW x \in DOMAIN a.subs, NEW t
  PROVE  SetSub(a, [a EXCEPT !.subs[x] = t], x, t, {})
<1> DEFINE m == [a.subs EXCEPT ![x] = t]
           b == [a EXCEPT !.subs[x] = t]
<1>1. b = [a EXCEPT !.subs = m]
  BY Zenon
<1>2. /\ IsMap(m, DOMAIN m) /\ DOMAIN m = DOMAIN a.subs /\ m[x] = t
      /\ \A y \in DOMAIN a.subs : y # x => m[y] = a.subs[y]
  BY Zenon DEF IsMap, ActorOK, SubsOK
<1>3. IsMap(a, Fields)
  BY DEF ActorOK
<1> HIDE DEF m, b
<1>4. IsMap(b, Fields) /\ b.subs = m /\ \A f \in Fields \ {"subs"} : b[f] = a[f]
  BY <1>1, <1>3, Zenon DEF IsMap, Fields
<1>5. Keeps(a, b, {"subs"} \cup {})
  BY <1>4 DEF Keeps
<1> QED
  BY <1>2, <1>4, <1>5 DEF SetSub, b

\* A well-typed view in place of another keeps the actor well typed.
LEMMA SetSubOK ==
  ASSUME NEW a, ActorOK(a), NEW b, NEW x \in DOMAIN a.subs, NEW t, IsSub(t),
         NEW fs \in SUBSET {"bySub"}, SetSub(a, b, x, t, fs), BySubOK(b.bySub)
  PROVE  ActorOK(b)
<1>1. SubsOK(b.subs)
  BY DEF SetSub, ActorOK, SubsOK
<1>2. SetSubKeeps(a, b)
  BY SetSubFields
<1> QED
  BY <1>1, <1>2 DEF ActorOK, SetSubKeeps, SetSub, Keeps

-----------------------------------------------------------------------------
(* retry_subscribe *)

\* Two changes of one view are one change of that view.
LEMMA SetSubTwice ==
  ASSUME NEW a, NEW b, NEW c, NEW x, NEW s, NEW t, SetSub(a, b, x, s, {}), SetSub(b, c, x, t, {})
  PROVE  SetSub(a, c, x, t, {})
BY DEF SetSub, Keeps

\* retry_subscribe marks the view as retried and sets its retry timer.
LEMMA RetryEffect ==
  ASSUME NEW a, ActorOK(a), NEW x \in DOMAIN a.subs
  PROVE  \E t : /\ SetSub(a, RetrySubscribe(a, x), x, t, {})
                /\ IsSub(t) /\ KeepsSub(a.subs[x], t, {"retried", "retryAt"})
                /\ t.retried /\ t.retryAt
<1> DEFINE s == a.subs[x]
           v == [s EXCEPT !.retried = TRUE]
           t == [v EXCEPT !.retryAt = TRUE]
           c == [a EXCEPT !.subs[x] = v]
           b == RetrySubscribe(a, x)
<1>1. b = [c EXCEPT !.subs[x].retryAt = TRUE]
  BY Zenon DEF RetrySubscribe
<1>2. SetSub(a, c, x, v, {})
  BY SetSubEffect
<1>3. IsSub(s)
  BY DEF ActorOK, SubsOK
<1>4. IsSub(v) /\ KeepsSub(s, v, {"retried"}) /\ v.retried = TRUE
  <2> HIDE DEF s
  <2> QED
    BY <1>3, Zenon DEF IsSub, IsMap, SubFields, KeepsSub
<1> HIDE DEF c, v
<1>5. BySubOK(c.bySub)
  BY <1>2, SetSubFields DEF ActorOK
<1>6. ActorOK(c)
  BY <1>2, <1>4, <1>5, SetSubOK
<1>7. c.subs[x] = v /\ x \in DOMAIN c.subs
  BY <1>2 DEF SetSub
<1>8. b = [c EXCEPT !.subs[x] = [c.subs[x] EXCEPT !.retryAt = TRUE]]
  <2> HIDE DEF b
  <2> QED
    BY <1>1, Zenon
<1>9. SetSub(c, b, x, t, {})
  <2>1. b = [c EXCEPT !.subs[x] = t]
    BY <1>7, <1>8, Zenon
  <2> HIDE DEF t, b
  <2>2. SetSub(c, [c EXCEPT !.subs[x] = t], x, t, {})
    BY <1>6, <1>7, SetSubEffect
  <2> QED
    BY <2>1, <2>2, Zenon
<1>10. IsSub(t) /\ KeepsSub(v, t, {"retryAt"}) /\ t.retryAt = TRUE
  BY <1>4, Zenon DEF IsSub, IsMap, SubFields, KeepsSub
<1> HIDE DEF t, s, b
<1>11. KeepsSub(s, t, {"retried", "retryAt"}) /\ t.retried = TRUE
  BY <1>4, <1>10, SMT DEF KeepsSub, SubFields
<1>12. SetSub(a, b, x, t, {})
  BY <1>2, <1>9, SetSubTwice
<1> QED
  BY <1>10, <1>11, <1>12 DEF b, s

RetryKeeps(a, b, x) ==
  /\ SetSubKeeps(a, b) /\ b.bySub = a.bySub
  /\ DOMAIN b.subs = DOMAIN a.subs
  /\ b.subs[x].retryAt
  /\ \A y \in DOMAIN a.subs :
       LET s == a.subs[y]
           u == b.subs[y]
       IN  /\ u.id = s.id /\ u.sub = s.sub /\ u.seq = s.seq /\ u.cursor = s.cursor
           /\ u.staged = s.staged /\ u.orders = s.orders /\ u.state = s.state
           /\ u.stale = s.stale /\ u.ready = s.ready /\ (y # x => u.retryAt = s.retryAt)
           /\ u.confirmed = s.confirmed /\ u.ackDue = s.ackDue /\ u.consumers = s.consumers

\* retry_subscribe keeps the link in order: the timer it sets asks on the account's behalf.
LEMMA RetryLinked ==
  ASSUME NEW a, ActorOK(a), NEW in, NEW S, NEW X, NEW K, Linked(a, in, S, X, K),
         NEW x, MayAsk(a, x), a.conn # None
  PROVE  LET b == RetrySubscribe(a, x)
         IN  ActorOK(b) /\ Linked(b, in, S, X \ {x}, K) /\ SameCrowd(a, b) /\ RetryKeeps(a, b, x)
<1> DEFINE b == RetrySubscribe(a, x)
<1>x. x \in DOMAIN a.subs
  BY DEF MayAsk
<1>1. PICK t : /\ SetSub(a, b, x, t, {})
               /\ IsSub(t) /\ KeepsSub(a.subs[x], t, {"retried", "retryAt"})
               /\ t.retried /\ t.retryAt
  BY <1>x, RetryEffect
<1> HIDE DEF b
<1>0. /\ Link(a) /\ Wire(a, in) /\ AllAsk(a, X) /\ Ids(a, in, S) /\ Heard(a, in, S, K)
      /\ Cursors(a) /\ Traced(a, in, S) /\ EndsOK(in, S)
      /\ InTypes(in) /\ OutTypes(a) /\ TaskTypes(a)
  BY FrameTypes, InboxTypes DEF Linked
<1>2. SetSubKeeps(a, b) /\ b.bySub = a.bySub
  BY <1>1, SetSubFields
<1>3. RetryKeeps(a, b, x)
  <2>1. \A f \in SubFields \ {"retried", "retryAt"} : t[f] = a.subs[x][f]
    BY <1>1 DEF KeepsSub
  <2>2. /\ t.id = a.subs[x].id /\ t.sub = a.subs[x].sub /\ t.seq = a.subs[x].seq
        /\ t.cursor = a.subs[x].cursor /\ t.staged = a.subs[x].staged
        /\ t.orders = a.subs[x].orders /\ t.state = a.subs[x].state
        /\ t.stale = a.subs[x].stale /\ t.ready = a.subs[x].ready
        /\ t.confirmed = a.subs[x].confirmed /\ t.ackDue = a.subs[x].ackDue
        /\ t.consumers = a.subs[x].consumers
    BY <2>1, SMT DEF SubFields
  <2> QED
    BY <1>1, <1>2, <2>2, SMT DEF RetryKeeps, SetSub
<1>4. ActorOK(b)
  <2>1. BySubOK(b.bySub)
    BY <1>2 DEF ActorOK
  <2> QED
    BY <1>1, <1>x, <2>1, SetSubOK
<1>5. Disconnected(b) /\ Opening(b) /\ Quiet(b)
  BY <1>0, <1>3 DEF RetryKeeps, SetSubKeeps, Link, Disconnected, Opening, Quiet, IsOpening
<1>6. Owned(b) /\ Fetching(b) /\ Listening(b)
  BY <1>0, <1>3 DEF RetryKeeps, SetSubKeeps, Link, Owned, Fetching, Listening
<1>7. OneRequest(b)
  BY <1>0, <1>3 DEF RetryKeeps, SetSubKeeps, Link, OneRequest, Asks, MayAsk
<1>8. Wire(b, in) /\ Heard(b, in, S, K)
  BY <1>0, <1>3 DEF RetryKeeps, SetSubKeeps, Wire, Heard
<1>9. AllAsk(b, X \ {x})
  BY <1>0, <1>3 DEF RetryKeeps, SetSubKeeps, AllAsk, IsAsking, IsOpening, Asks
<1>10. Ids(b, in, S)
  BY <1>0, <1>3 DEF RetryKeeps, SetSubKeeps, Ids, Unused
<1>11. Cursors(b)
  <2>1. ViewsAt(b)
    BY <1>0, <1>3 DEF RetryKeeps, SetSubKeeps, Cursors, Link, ViewsAt
  <2>2. AsksAt(b)
    BY <1>0, <1>3 DEF RetryKeeps, SetSubKeeps, Cursors, Link, Owned, AsksAt, Asks
  <2>3. SentAt(b)
    BY <1>0, <1>3 DEF RetryKeeps, SetSubKeeps, Cursors, Link, SentAt
  <2> QED
    BY <2>1, <2>2, <2>3 DEF Cursors
<1>12. Traced(b, in, S)
  BY <1>0, <1>3, TracedKept DEF RetryKeeps, SetSubKeeps, Link, Owned
<1>13. SameCrowd(a, b)
  BY <1>3 DEF RetryKeeps, SetSubKeeps, SameCrowd
<1> QED
  BY <1>0, <1>3, <1>4, <1>5, <1>6, <1>7, <1>8, <1>9, <1>10, <1>11, <1>12, <1>13 DEF Linked, Link, b

-----------------------------------------------------------------------------
(* A request that is over *)

DropRequest(a, r) == [a EXCEPT !.pending = Without(@, {r})]

PendingKeeps(a, b) ==
  /\ b.conn = a.conn /\ b.writable = a.writable /\ b.out = a.out
  /\ b.heartbeatAt = a.heartbeatAt /\ b.bySub = a.bySub
  /\ b.connecting = a.connecting /\ b.generation = a.generation
  /\ b.nextSubscription = a.nextSubscription /\ b.nextRequest = a.nextRequest
  /\ b.reconnectAt = a.reconnectAt /\ b.subs = a.subs /\ b.users = a.users
  /\ b.unsubscribing = a.unsubscribing /\ b.idle = a.idle /\ b.unwritable = a.unwritable
  /\ b.nextConn = a.nextConn /\ b.tasks = a.tasks

DropEffect(a, b, r) ==
  /\ IsMap(b, Fields) /\ PendingKeeps(a, b)
  /\ IsMap(b.pending, DOMAIN b.pending) /\ DOMAIN b.pending = DOMAIN a.pending \ {r}
  /\ \A q \in DOMAIN b.pending : b.pending[q] = a.pending[q]

\* Taking a request out of the table changes only the table.
LEMMA DropRequestEffect ==
  ASSUME NEW a, ActorOK(a), NEW r
  PROVE  DropEffect(a, DropRequest(a, r), r)
<1> DEFINE p == Without(a.pending, {r})
           b == DropRequest(a, r)
<1>1. b = [a EXCEPT !.pending = p]
  BY Zenon DEF DropRequest
<1>2. IsMap(a, Fields)
  BY DEF ActorOK
<1>3. IsMap(p, DOMAIN p) /\ DOMAIN p = DOMAIN a.pending \ {r} /\ \A q \in DOMAIN p : p[q] = a.pending[q]
  BY Zenon DEF IsMap, Without, Restrict
<1> HIDE DEF p, b
<1>4. IsMap(b, Fields) /\ b.pending = p /\ \A f \in Fields \ {"pending"} : b[f] = a[f]
  BY <1>1, <1>2, Zenon DEF IsMap, Fields
<1>5. PendingKeeps(a, b)
  BY <1>4, SMT DEF PendingKeeps, Fields
<1> QED
  BY <1>3, <1>4, <1>5 DEF DropEffect, b

\* The account that asked with r, if any, asks no longer.
Askers(a, r) == {x \in DOMAIN a.subs : Asks(a, r, x)}

\* After an answer took its request out of the table, the account that asked must ask again.
LEMMA DropLinked ==
  ASSUME NEW a, ActorOK(a), NEW in, NEW S, NEW X, NEW K, Linked(a, in, S, X, K),
         NEW r, NEW b, DropEffect(a, b, r)
  PROVE  /\ ActorOK(b) /\ Linked(b, in, S, X \cup Askers(a, r), K) /\ SameCrowd(a, b)
         /\ \A x \in Askers(a, r) : MayAsk(b, x)
<1>0. /\ Link(a) /\ Wire(a, in) /\ AllAsk(a, X) /\ Ids(a, in, S) /\ Heard(a, in, S, K)
      /\ Cursors(a) /\ Traced(a, in, S) /\ EndsOK(in, S)
  BY DEF Linked
<1>1. PendingKeeps(a, b) /\ DOMAIN b.pending = DOMAIN a.pending \ {r}
      /\ \A q \in DOMAIN b.pending : b.pending[q] = a.pending[q]
  BY DEF DropEffect
<1>2. ActorOK(b)
  <2>1. PendingOK(b.pending)
    BY DEF DropEffect, ActorOK, PendingOK
  <2> QED
    BY <1>1, <2>1 DEF ActorOK, PendingKeeps, DropEffect
<1>3. \A q, y : Asks(b, q, y) <=> Asks(a, q, y) /\ q # r
  BY <1>1 DEF Asks
<1>4. Disconnected(b) /\ Opening(b) /\ Quiet(b)
  BY <1>0, <1>1 DEF PendingKeeps, Link, Disconnected, Opening, Quiet, IsOpening
<1>5. Owned(b) /\ Fetching(b) /\ Listening(b)
  BY <1>0, <1>1 DEF PendingKeeps, Link, Owned, Fetching, Listening
<1>6. OneRequest(b)
  BY <1>0, <1>1, <1>3 DEF PendingKeeps, Link, OneRequest, Asks
<1>7. Wire(b, in) /\ Heard(b, in, S, K) /\ Cursors(b)
  <2>1. Wire(b, in)
    BY <1>0, <1>1 DEF PendingKeeps, Wire
  <2>2. Heard(b, in, S, K)
    BY <1>0, <1>1 DEF PendingKeeps, Heard
  <2>3. ViewsAt(b)
    BY <1>0, <1>1 DEF PendingKeeps, Cursors, ViewsAt
  <2>4. AsksAt(b)
    BY <1>0, <1>1 DEF PendingKeeps, Wire, Cursors, AsksAt, Asks
  <2>5. SentAt(b)
    BY <1>0, <1>1 DEF PendingKeeps, Cursors, SentAt
  <2> QED
    BY <2>1, <2>2, <2>3, <2>4, <2>5 DEF Cursors
<1>8. AllAsk(b, X \cup Askers(a, r))
  BY <1>0, <1>1, <1>3 DEF PendingKeeps, AllAsk, IsAsking, IsOpening, Asks, Askers
<1>9. Ids(b, in, S)
  BY <1>0, <1>1 DEF PendingKeeps, Ids, Unused
<1>10. Traced(b, in, S)
  BY <1>0, <1>1, TracedKept DEF PendingKeeps
<1>11. SameCrowd(a, b)
  BY <1>1, SameSubs DEF PendingKeeps
<1>12. \A x \in Askers(a, r) : MayAsk(b, x)
  BY <1>0, <1>1, <1>3 DEF PendingKeeps, MayAsk, Askers, Link, OneRequest, Asks
<1> QED
  BY <1>0, <1>2, <1>4, <1>5, <1>6, <1>7, <1>8, <1>9, <1>10, <1>11, <1>12 DEF Linked, Link

-----------------------------------------------------------------------------
(* The server subscription is dropped *)

Dropped(a, b, x) ==
  LET s == a.subs[x]
      t == b.subs[x]
  IN  /\ SetSubKeeps(a, b) /\ ActorOK(b)
      /\ DOMAIN b.subs = DOMAIN a.subs
      /\ \A y \in DOMAIN a.subs : y # x => b.subs[y] = a.subs[y]
      /\ t.id = s.id /\ t.consumers = s.consumers /\ t.orders = s.orders /\ t.stale = s.stale
      /\ t.confirmed = s.confirmed /\ t.ackDue = s.ackDue /\ t.retryAt = s.retryAt
      /\ t.sub = None /\ t.seq = 0 /\ t.ready = FALSE /\ t.staged = <<>>
      /\ t.state = "disconnected" /\ t.cursor \in {s.cursor, None}
      /\ DOMAIN b.bySub = DOMAIN a.bySub \ {s.sub}
      /\ \A k \in DOMAIN b.bySub : b.bySub[k] = a.bySub[k]

\* After a view let go of its subscription id, the server's subscription and the account's
\* question are what is left to settle.
LEMMA DroppedLinked ==
  ASSUME NEW a, ActorOK(a), NEW in, NEW S, NEW X, Linked(a, in, S, X, {}),
         NEW x \in DOMAIN a.subs, a.subs[x].sub # None, NEW b, Dropped(a, b, x)
  PROVE  /\ Linked(b, in, S, X \cup {x}, {a.subs[x].sub})
         /\ a.subs[x].sub \notin DOMAIN S => Linked(b, in, S, X \cup {x}, {})
         /\ MayAsk(b, x) /\ Named(b, a.subs[x].sub) /\ b.conn # None
<1> DEFINE k == a.subs[x].sub
<1>0. /\ Link(a) /\ Wire(a, in) /\ AllAsk(a, X) /\ Ids(a, in, S) /\ Heard(a, in, S, {})
      /\ Cursors(a) /\ Traced(a, in, S) /\ EndsOK(in, S)
  BY DEF Linked
<1>1. SetSubKeeps(a, b)
  BY DEF Dropped
<1>2. k # None /\ k \in DOMAIN a.bySub /\ a.conn # None /\ ~a.subs[x].retryAt
  BY <1>0 DEF Link, Listening, Disconnected, OneRequest
<1>3. \A r : ~Asks(a, r, x)
  BY <1>0, <1>2 DEF Link, OneRequest, Asks
<1>4. Disconnected(b) /\ Opening(b) /\ Quiet(b)
  BY <1>0, <1>1, <1>2 DEF Dropped, SetSubKeeps, Link, Disconnected, Opening, Quiet, IsOpening
<1>5. Owned(b)
  BY <1>0, <1>1 DEF Dropped, SetSubKeeps, Link, Owned
<1>6. OneRequest(b)
  <2>1. \A q, y : Asks(b, q, y) <=> Asks(a, q, y)
    BY <1>1 DEF SetSubKeeps, Asks
  <2>2. \A y \in DOMAIN b.subs : y # x =>
          /\ y \in DOMAIN a.subs /\ b.subs[y].sub = a.subs[y].sub
          /\ b.subs[y].retryAt = a.subs[y].retryAt /\ b.subs[y].ackDue = a.subs[y].ackDue
    BY DEF Dropped
  <2>3. /\ b.subs[x].sub = None /\ b.subs[x].ackDue = a.subs[x].ackDue
        /\ b.pending = a.pending
    BY <1>1 DEF Dropped, SetSubKeeps
  <2>4. OneRequest(a)
    BY <1>0 DEF Link
  <2>5. \A y \in DOMAIN b.subs : \A q \in DOMAIN b.pending : Asks(b, q, y) =>
          /\ b.subs[y].sub = None /\ ~b.subs[y].retryAt
          /\ \A p \in DOMAIN b.pending : Asks(b, p, y) => p = q
    BY <1>3, <2>1, <2>2, <2>3, <2>4 DEF OneRequest
  <2>6. \A y \in DOMAIN b.subs :
          /\ b.subs[y].sub # None => ~b.subs[y].retryAt
          /\ b.subs[y].ackDue \in DOMAIN b.pending => Asks(b, b.subs[y].ackDue, y)
    BY <1>3, <2>1, <2>2, <2>3, <2>4 DEF OneRequest
  <2> QED
    BY <2>5, <2>6 DEF OneRequest
<1>7. Fetching(b)
  BY <1>0, <1>1 DEF Dropped, SetSubKeeps, Link, Fetching
<1>8. Listening(b)
  BY <1>0, <1>1 DEF Dropped, SetSubKeeps, Link, Listening
<1>9. Wire(b, in)
  BY <1>0, <1>1 DEF SetSubKeeps, Wire
<1>10. Heard(b, in, S, {k})
  BY <1>0, <1>1 DEF Dropped, SetSubKeeps, Heard
<1>11. AllAsk(b, X \cup {x})
  BY <1>0, <1>1 DEF Dropped, SetSubKeeps, AllAsk, IsAsking, IsOpening, Asks
<1>12. Ids(b, in, S)
  BY <1>0, <1>1 DEF Dropped, SetSubKeeps, Ids, Unused
<1>13. \A r \in DOMAIN a.pending : a.pending[r].kind = "subscribe" =>
         a.pending[r].account # x /\ a.pending[r].account \in DOMAIN a.subs
  BY <1>0, <1>3 DEF Asks, Link, Owned
<1>14. Cursors(b)
  <2>1. \A i \in DOMAIN a.out : a.out[i].kind = "subscribe" /\ a.out[i].id \in DOMAIN a.pending =>
          a.pending[a.out[i].id].kind = "subscribe"
    BY <1>0 DEF Wire
  <2>2. \A y \in DOMAIN b.subs :
          /\ b.subs[y].cursor # None => b.subs[y].orders = b.subs[y].cursor
          /\ b.subs[y].orders <= MaxHistory
    BY <1>0 DEF Dropped, Cursors, ViewsAt
  <2>3. \A y \in DOMAIN a.subs : y # x => b.subs[y].cursor = a.subs[y].cursor
    BY DEF Dropped
  <2>4. b.out = a.out /\ b.pending = a.pending
    BY <1>1 DEF SetSubKeeps
  <2> QED
    <3>1. ViewsAt(b)
      BY <1>0, <1>13, <2>1, <2>2, <2>3, <2>4 DEF Cursors, ViewsAt
    <3>2. AsksAt(b)
      BY <1>0, <1>13, <2>1, <2>2, <2>3, <2>4 DEF Cursors, AsksAt, Asks
    <3>3. SentAt(b)
      BY <1>0, <1>13, <2>1, <2>2, <2>3, <2>4 DEF Cursors, SentAt
    <3> QED
      BY <3>1, <3>2, <3>3 DEF Cursors
<1>15. Traced(b, in, S)
  <2>1. \A n \in DOMAIN b.bySub \cup SubscribedIn(in) : n # None
    BY <1>0 DEF Dropped, Link, Listening, SubscribedIn, Wire
  <2> QED
    BY <1>0, <1>1, <1>13, <2>1, TracedKept DEF Dropped, SetSubKeeps
<1>16. MayAsk(b, x)
  BY <1>1, <1>2, <1>3 DEF Dropped, SetSubKeeps, MayAsk, Asks
<1>17. Named(b, k)
  <2>1. k \in Nat
    BY DEF ActorOK, SubsOK, IsSub
  <2>2. /\ k <= b.nextRequest
        /\ \A i \in DOMAIN b.out : b.out[i].kind = "subscribe" => b.out[i].id # k
        /\ \A t \in b.tasks : t.kind = "subscribe" /\ t.request \in DOMAIN b.pending => t.request # k
    BY <1>0, <1>1, <1>2 DEF SetSubKeeps, Ids, Unused
  <2> QED
    BY <1>2, <2>1, <2>2 DEF Named
<1>18. Linked(b, in, S, X \cup {x}, {k})
  BY <1>0, <1>4, <1>5, <1>6, <1>7, <1>8, <1>9, <1>10, <1>11, <1>12, <1>14, <1>15 DEF Linked, Link
<1>19. k \notin DOMAIN S => Linked(b, in, S, X \cup {x}, {})
  <2>1. k \notin DOMAIN S => Heard(b, in, S, {})
    BY <1>10 DEF Heard
  <2> QED
    BY <1>18, <2>1 DEF Linked
<1>20. b.conn # None
  BY <1>1, <1>2 DEF SetSubKeeps
<1> QED
  BY <1>16, <1>17, <1>18, <1>19, <1>20

\* The consumers are told that the stream is down.
LEMMA DroppedCrowd ==
  ASSUME NEW a, ActorOK(a), NEW b, NEW d, ActorOK(d), NEW A, Crowd(a, A, {}),
         NEW x \in DOMAIN a.subs, Dropped(a, b, x), SameCrowd(b, d)
  PROVE  Crowd(Deliver(d, x, "disconnected", None), A, {})
<1>1. /\ d.users = a.users /\ DOMAIN d.subs = DOMAIN a.subs
      /\ \A y \in DOMAIN a.subs :
           /\ d.subs[y].consumers = a.subs[y].consumers /\ d.subs[y].orders = a.subs[y].orders
           /\ d.subs[y].stale = a.subs[y].stale
           /\ y # x => d.subs[y].ready = a.subs[y].ready /\ d.subs[y].state = a.subs[y].state
      /\ d.subs[x].ready = FALSE /\ d.subs[x].state = "disconnected"
  BY DEF Dropped, SetSubKeeps, SameCrowd
<1>2. x \in DOMAIN d.subs /\ None \in Nat /\ "disconnected" \in Events
  BY <1>1 DEF None, Events
<1>3. DeliverEffect(d, Deliver(d, x, "disconnected", None), x, "disconnected", None)
  BY <1>2, DeliverLemma
<1>4. Audience(d, A) /\ Whole(d) /\ Explained(d, A) /\ Orderly(d, A)
  BY <1>1, OrderlyKept DEF Crowd, Audience, Newcomer, Whole, Explained
<1>5. ASSUME NEW y \in DOMAIN a.subs, NEW c \in a.subs[y].consumers
      PROVE  Knows(a.users[c], a.subs[y])
  BY Zenon DEF Crowd, Known, KnownTo
<1>6. ASSUME NEW y \in DOMAIN d.subs, y # x, NEW c \in d.subs[y].consumers
      PROVE  KnownTo(d.users[c], d.subs[y], y \in {})
  <2>1. Knows(a.users[c], a.subs[y])
    BY <1>1, <1>5, <1>6
  <2>2. /\ d.subs[y].orders = a.subs[y].orders /\ d.subs[y].stale = a.subs[y].stale
        /\ d.subs[y].ready = a.subs[y].ready /\ d.subs[y].state = a.subs[y].state
        /\ d.users = a.users
    BY <1>1, <1>6
  <2>3. Knows(d.users[c], d.subs[y])
    BY <2>1, <2>2 DEF Knows
  <2> QED
    BY <2>3 DEF KnownTo
<1>7. ASSUME NEW c \in d.subs[x].consumers
      PROVE  KnowsThen(d.users[c], "disconnected", None, d.subs[x], x \in {})
  <2> DEFINE u == a.users[c]
             v == Told(u, "disconnected", None)
  <2>1. c \in Consumers /\ c \in a.subs[x].consumers /\ d.users[c] = u
    BY <1>1, <1>7 DEF ActorOK, SubsOK, IsSub
  <2>2. IsUser(u)
    BY <2>1 DEF ActorOK, UsersOK
  <2>3. /\ v.connected = FALSE /\ v.ready = FALSE /\ v.view = u.view /\ v.stale = u.stale
    <3> HIDE DEF u
    <3>1. v = [u EXCEPT !.connected = FALSE, !.ready = FALSE]
      BY Zenon DEF Told
    <3> QED
      BY <2>2, <3>1, Zenon DEF IsUser, IsMap, UserFields
  <2>4. Knows(u, a.subs[x]) /\ u.view # Torn
    BY <1>5, <2>1 DEF Crowd, Whole
  <2>5. /\ d.subs[x].orders = a.subs[x].orders /\ d.subs[x].stale = a.subs[x].stale
        /\ d.subs[x].ready = FALSE /\ d.subs[x].state = "disconnected"
    BY <1>1
  <2> HIDE DEF u, v
  <2>6. Knows(v, d.subs[x]) /\ v.view # Torn
    BY <2>3, <2>4, <2>5 DEF Knows
  <2> QED
    BY <2>1, <2>6 DEF KnowsThen, KnownTo, v
<1> QED
  BY <1>2, <1>3, <1>4, <1>6, <1>7, DeliverCrowd

-----------------------------------------------------------------------------
(* resubscribe *)

\* What is left to ask again.
Left(b, k) == IF k = None THEN b ELSE Unsubscribe(b, k)
AskAgain(b, x, retried) == IF retried THEN RetrySubscribe(b, x) ELSE Subscribe(b, x)

\* resubscribe is four steps: drop the id, end the server's subscription, ask again or later,
\* tell the consumers.
LEMMA ResubscribeEffect ==
  ASSUME NEW c, ActorOK(c), NEW x \in DOMAIN c.subs, c.subs[x].state = "connected",
         None \notin DOMAIN c.bySub
  PROVE  \E b : /\ Dropped(c, b, x) /\ b.subs[x].cursor = c.subs[x].cursor
                /\ Resubscribe(c, x) =
                     Deliver(AskAgain(Left(b, c.subs[x].sub), x, c.subs[x].retried),
                             x, "disconnected", None)
<1> DEFINE s == c.subs[x]
           k == s.sub
           t == [s EXCEPT !.sub = None, !.seq = 0, !.ready = FALSE,
                          !.staged = <<>>, !.retried = TRUE, !.state = "disconnected"]
           d == [c EXCEPT !.subs[x] = t]
           m == Without(d.bySub, {k})
           b == IF k = None THEN d ELSE [d EXCEPT !.bySub = m]
<1>1. Resubscribe(c, x) =
        Deliver(AskAgain(Left(b, k), x, s.retried), x, "disconnected", None)
  <2> DEFINE n == s.state = "connected"
             d2 == [c EXCEPT !.subs[x] =
                         [s EXCEPT !.sub = None, !.seq = 0, !.ready = FALSE,
                                   !.staged = <<>>, !.retried = TRUE,
                                   !.state = IF n THEN "disconnected" ELSE @]]
             l == IF s.sub = None THEN d2
                   ELSE Unsubscribe([d2 EXCEPT !.bySub = Without(@, {s.sub})], s.sub)
             g == IF s.retried THEN RetrySubscribe(l, x) ELSE Subscribe(l, x)
  <2>1. Resubscribe(c, x) = IF n THEN Deliver(g, x, "disconnected", None) ELSE g
    BY Zenon DEF Resubscribe
  <2>2. n
    OBVIOUS
  <2>3. d2 = d
    BY <2>2, Zenon
  <2> HIDE DEF n, d2, d
  <2>4. l = Left(b, k)
    BY <2>3, Zenon DEF Left
  <2> HIDE DEF l, b
  <2>5. g = AskAgain(Left(b, k), x, s.retried)
    BY <2>4, Zenon DEF AskAgain
  <2> HIDE DEF g
  <2> QED
    BY <2>1, <2>2, <2>5
<1>2. IsSub(s)
  BY DEF ActorOK, SubsOK
<1>3. /\ IsMap(t, SubFields) /\ t.sub = None /\ t.seq = 0 /\ t.ready = FALSE /\ t.staged = <<>>
      /\ t.retried = TRUE /\ t.state = "disconnected"
      /\ \A f \in SubFields \ {"sub", "seq", "ready", "staged", "retried", "state"} : t[f] = s[f]
  <2>1. IsMap(s, SubFields)
    BY <1>2 DEF IsSub
  <2> HIDE DEF s
  <2> QED
    BY <2>1, Zenon DEF SubFields, IsMap
<1> HIDE DEF t
<1>4. /\ t.id = s.id /\ t.consumers = s.consumers /\ t.orders = s.orders /\ t.stale = s.stale
      /\ t.confirmed = s.confirmed /\ t.ackDue = s.ackDue /\ t.retryAt = s.retryAt
      /\ t.cursor = s.cursor
  BY <1>3, SMT DEF SubFields
<1>5. IsSub(t)
  <2>1. <<>> \in Seq(Nat) /\ 0 \in Nat
    OBVIOUS
  <2> HIDE DEF s
  <2> QED
    BY <1>2, <1>3, <1>4, <2>1 DEF IsSub, None
<1>6. SetSub(c, d, x, t, {})
  BY SetSubEffect
<1> HIDE DEF d
<1>7. SetSubKeeps(c, d) /\ d.bySub = c.bySub
  BY <1>6, SetSubFields
<1>8. ActorOK(d)
  BY <1>5, <1>6, <1>7, SetSubOK DEF ActorOK
<1>9. /\ IsMap(m, DOMAIN m) /\ DOMAIN m = DOMAIN c.bySub \ {k}
      /\ \A n \in DOMAIN m : m[n] = c.bySub[n]
  BY <1>7, Zenon DEF IsMap, Without, Restrict
<1>10. /\ IsMap(b, Fields) /\ \A f \in Fields \ {"bySub"} : b[f] = d[f]
       /\ DOMAIN b.bySub = DOMAIN c.bySub \ {k}
       /\ \A n \in DOMAIN b.bySub : b.bySub[n] = c.bySub[n]
       /\ IsMap(b.bySub, DOMAIN b.bySub)
  <2>0. IsMap(d, Fields) /\ BySubOK(d.bySub)
    BY <1>8 DEF ActorOK
  <2>1. CASE k = None
    BY <1>7, <2>0, <2>1 DEF BySubOK
  <2>2. CASE k # None
    <3> HIDE DEF m
    <3>1. b = [d EXCEPT !.bySub = m]
      BY <2>2
    <3> HIDE DEF b
    <3>2. IsMap(b, Fields) /\ b.bySub = m /\ \A f \in Fields \ {"bySub"} : b[f] = d[f]
      BY <2>0, <3>1, Zenon DEF IsMap, Fields
    <3> QED
      BY <1>9, <3>2
  <2> QED
    BY <2>1, <2>2
<1> HIDE DEF b, m
<1>11. SetSubKeeps(d, b) /\ b.subs = d.subs
  BY <1>10, SMT DEF SetSubKeeps, Fields
<1>12. SetSubKeeps(c, b)
  BY <1>7, <1>11, SMT DEF SetSubKeeps
<1>13. ActorOK(b)
  <2>1. BySubOK(b.bySub)
    BY <1>10 DEF ActorOK, BySubOK
  <2> QED
    BY <1>8, <1>10, <1>11, <2>1 DEF ActorOK, SetSubKeeps
<1>14. Dropped(c, b, x) /\ b.subs[x].cursor = c.subs[x].cursor
  BY <1>3, <1>4, <1>6, <1>10, <1>11, <1>12, <1>13 DEF Dropped, SetSub
<1> QED
  BY <1>1, <1>14

\* What may be lost of a subscription before it is taken again.
Prelude(a, c, x) ==
  LET s == a.subs[x]
      t == c.subs[x]
  IN  /\ SetSubKeeps(a, c) /\ ActorOK(c)
      /\ DOMAIN c.subs = DOMAIN a.subs
      /\ \A y \in DOMAIN a.subs : y # x => c.subs[y] = a.subs[y]
      /\ t.id = s.id /\ t.consumers = s.consumers /\ t.orders = s.orders /\ t.stale = s.stale
      /\ t.confirmed = s.confirmed /\ t.ackDue = s.ackDue /\ t.retryAt = s.retryAt
      /\ t.state = s.state /\ t.cursor \in {s.cursor, None} /\ t.sub \in {s.sub, None}
      /\ DOMAIN c.bySub = IF t.sub = None THEN DOMAIN a.bySub \ {s.sub} ELSE DOMAIN a.bySub
      /\ \A k \in DOMAIN c.bySub : c.bySub[k] = a.bySub[k]

\* What handlers do to a view before they call resubscribe is swallowed by its first step.
LEMMA PreludeDropped ==
  ASSUME NEW a, NEW c, NEW b, NEW x, x \in DOMAIN a.subs, Prelude(a, c, x), Dropped(c, b, x),
         b.subs[x].cursor = c.subs[x].cursor, None \notin DOMAIN a.bySub
  PROVE  Dropped(a, b, x)
<1>1. SetSubKeeps(a, b)
  BY DEF Prelude, Dropped, SetSubKeeps
<1>2. /\ DOMAIN b.subs = DOMAIN a.subs /\ ActorOK(b)
      /\ \A y \in DOMAIN a.subs : y # x => b.subs[y] = a.subs[y]
  BY DEF Prelude, Dropped
<1>3. DOMAIN b.bySub = DOMAIN a.bySub \ {a.subs[x].sub}
  BY DEF Prelude, Dropped
<1>4. \A k \in DOMAIN b.bySub : b.bySub[k] = a.bySub[k]
  BY DEF Prelude, Dropped
<1> QED
  BY <1>1, <1>2, <1>3, <1>4 DEF Prelude, Dropped

\* Leaving the consumers alone twice leaves them alone.
LEMMA SameCrowdTrans ==
  ASSUME NEW a, NEW b, NEW c, SameCrowd(a, b), SameCrowd(b, c)
  PROVE  SameCrowd(a, c)
BY DEF SameCrowd

\* Whoever may ask asks, at once or after a backoff.
LEMMA AskAgainLinked ==
  ASSUME NEW a, ActorOK(a), NEW in, NEW S, NEW X, NEW K, Linked(a, in, S, X, K),
         NEW x, MayAsk(a, x), a.conn # None, NEW retried
  PROVE  LET b == AskAgain(a, x, retried)
         IN  ActorOK(b) /\ Linked(b, in, S, X \ {x}, K) /\ SameCrowd(a, b)
<1>1. CASE retried
  <2>1. AskAgain(a, x, retried) = RetrySubscribe(a, x)
    BY <1>1, Zenon DEF AskAgain
  <2> QED
    BY <2>1, RetryLinked
<1>2. CASE ~retried
  <2>1. AskAgain(a, x, retried) = Subscribe(a, x)
    BY <1>2, Zenon DEF AskAgain
  <2>2. Subscribed(a, Subscribe(a, x), x)
    BY SubscribeEffect DEF MayAsk
  <2> QED
    BY <2>1, <2>2, SubscribeLinked
<1> QED
  BY <1>1, <1>2

\* resubscribe, from any of its callers, keeps everything the invariant says of the stream.
LEMMA ResubscribeFine ==
  ASSUME NEW a, NEW in, NEW S, NEW A, Fine(a, in, S, A, {}, {}),
         NEW x \in DOMAIN a.subs, a.subs[x].sub # None,
         NEW c, Prelude(a, c, x), c.subs[x].sub = None => a.subs[x].sub \notin DOMAIN S
  PROVE  Fine(Resubscribe(c, x), in, S, A, {}, {})
<1> DEFINE k == a.subs[x].sub
<1>0. ActorOK(a) /\ Linked(a, in, S, {}, {}) /\ Crowd(a, A, {}) /\ Listening(a)
  BY DEF Fine, Linked, Link
<1>1. ActorOK(c) /\ x \in DOMAIN c.subs /\ c.subs[x].state = "connected" /\ None \notin DOMAIN c.bySub
      /\ None \notin DOMAIN a.bySub /\ c.subs[x].sub \in {k, None}
  BY <1>0 DEF Prelude, Listening
<1>2. PICK b : /\ Dropped(c, b, x) /\ b.subs[x].cursor = c.subs[x].cursor
               /\ Resubscribe(c, x) =
                    Deliver(AskAgain(Left(b, c.subs[x].sub), x, c.subs[x].retried),
                            x, "disconnected", None)
  BY <1>1, ResubscribeEffect
<1> DEFINE left == Left(b, c.subs[x].sub)
           asks == AskAgain(left, x, c.subs[x].retried)
<1>3. Dropped(a, b, x)
  BY <1>1, <1>2, PreludeDropped
<1>4. /\ Linked(b, in, S, {} \cup {x}, {k})
      /\ k \notin DOMAIN S => Linked(b, in, S, {} \cup {x}, {})
      /\ MayAsk(b, x) /\ Named(b, k) /\ b.conn # None
  <2> HIDE DEF left, asks
  <2>1. Linked(b, in, S, {} \cup {x}, {a.subs[x].sub})
    BY <1>0, <1>3, DroppedLinked
  <2>2. a.subs[x].sub \notin DOMAIN S => Linked(b, in, S, {} \cup {x}, {})
    BY <1>0, <1>3, DroppedLinked
  <2>3. MayAsk(b, x)
    BY <1>0, <1>3, DroppedLinked
  <2>4. Named(b, a.subs[x].sub)
    BY <1>0, <1>3, DroppedLinked
  <2>5. b.conn # None
    BY <1>0, <1>3 DEF Linked, Link, Disconnected, Dropped, SetSubKeeps
  <2> QED
    BY <2>1, <2>2, <2>3, <2>4, <2>5
<1>5. ActorOK(b)
  BY <1>3 DEF Dropped
<1>6. /\ ActorOK(left) /\ Linked(left, in, S, {} \cup {x}, {}) /\ SameCrowd(b, left)
      /\ MayAsk(left, x) /\ left.conn # None
  <2>1. CASE c.subs[x].sub = None
    <3>1. left = b
      BY <2>1, Zenon DEF Left
    <3> QED
      BY <2>1, <3>1, <1>4, <1>5, SameSubs
  <2>2. CASE c.subs[x].sub # None
    <3>1. left = Unsubscribe(b, k)
      BY <1>1, <2>2, Zenon DEF Left
    <3>2. /\ ActorOK(left) /\ Linked(left, in, S, {} \cup {x}, {k} \ {k})
          /\ SameCrowd(b, left) /\ UnsubscribeKeeps(b, left)
      BY <3>1, <1>4, <1>5, UnsubscribeLinked
    <3>3. {k} \ {k} = {}
      OBVIOUS
    <3>4. MayAsk(left, x) /\ left.conn # None
      BY <1>4, <3>2 DEF UnsubscribeKeeps, MayAsk, Asks
    <3> QED
      BY <3>2, <3>3, <3>4
  <2> QED
    BY <2>1, <2>2
<1> HIDE DEF left
<1>7. ActorOK(asks) /\ Linked(asks, in, S, ({} \cup {x}) \ {x}, {}) /\ SameCrowd(left, asks)
  BY <1>6, AskAgainLinked
<1>8. ({} \cup {x}) \ {x} = {}
  OBVIOUS
<1> HIDE DEF asks
<1>9. SameCrowd(b, asks)
  BY <1>6, <1>7, SameCrowdTrans
<1>10. Crowd(Deliver(asks, x, "disconnected", None), A, {})
  BY <1>0, <1>3, <1>7, <1>9, DroppedCrowd
<1>11. x \in DOMAIN asks.subs
  BY <1>3, <1>9 DEF SameCrowd, Dropped
<1>12. None \in Nat /\ "disconnected" \in Events
  BY DEF None, Events
<1> DEFINE z == Deliver(asks, x, "disconnected", None)
<1>13. ActorOK(z) /\ DeliverEffect(asks, z, x, "disconnected", None)
  BY <1>7, <1>11, <1>12, DeliverLemma
<1> HIDE DEF z
<1>14. Linked(z, in, S, {}, {})
  BY <1>7, <1>8, <1>13, DeliverAlike, AlikeLinked
<1>15. z = Resubscribe(c, x)
  BY <1>2 DEF z, asks, left
<1> QED
  BY <1>10, <1>13, <1>14, <1>15 DEF Fine, z

-----------------------------------------------------------------------------
(* detach *)

Detached(a, b) ==
  /\ IsMap(b, Fields) /\ b.conn = None /\ b.writable = FALSE /\ b.out = <<>> /\ b.heartbeatAt = FALSE
  /\ IsMap(b.pending, {}) /\ DOMAIN b.pending = {} /\ IsMap(b.bySub, {}) /\ DOMAIN b.bySub = {}
  /\ b.unsubscribing = {}
  /\ b.idle = a.idle /\ b.unwritable = a.unwritable
  /\ b.nextConn = a.nextConn /\ b.nextSubscription = a.nextSubscription
  /\ b.nextRequest = a.nextRequest /\ b.tasks = a.tasks /\ b.users = a.users
  /\ IsMap(b.subs, DOMAIN b.subs) /\ DOMAIN b.subs = DOMAIN a.subs
  /\ \A x \in DOMAIN a.subs :
       LET s == a.subs[x]
           t == b.subs[x]
       IN  /\ KeepsSub(s, t, {"retryAt", "ackDue", "sub", "seq", "ready", "staged"})
           /\ t.retryAt = FALSE /\ t.ackDue = None /\ t.sub = None /\ t.seq = 0
           /\ t.ready = FALSE /\ t.staged = <<>>

DetachKeeps(a, b) ==
  b.connecting = a.connecting /\ b.generation = a.generation /\ b.reconnectAt = a.reconnectAt

\* The empty table is a map without keys.
LEMMA NoMap == IsMap(NoFunction, {}) /\ DOMAIN NoFunction = {}
BY Zenon DEF NoFunction, IsMap

\* detach forgets the socket, its requests and its timers and marks every view as disconnected.
LEMMA DetachEffect ==
  ASSUME NEW a, ActorOK(a)
  PROVE  Detached(a, Detach(a)) /\ DetachKeeps(a, Detach(a))
<1> DEFINE T(s) == [s EXCEPT !.retryAt = FALSE, !.ackDue = None, !.sub = None,
                             !.seq = 0, !.ready = FALSE, !.staged = <<>>]
           m == [x \in DOMAIN a.subs |-> T(a.subs[x])]
           b == Detach(a)
<1>1. b = [a EXCEPT !.conn = None, !.writable = FALSE, !.out = <<>>, !.heartbeatAt = FALSE,
                    !.pending = NoFunction, !.bySub = NoFunction, !.unsubscribing = {},
                    !.subs = m]
  BY Zenon DEF Detach
<1>2. \A x \in DOMAIN a.subs :
        /\ KeepsSub(a.subs[x], T(a.subs[x]), {"retryAt", "ackDue", "sub", "seq", "ready", "staged"})
        /\ T(a.subs[x]).retryAt = FALSE /\ T(a.subs[x]).ackDue = None /\ T(a.subs[x]).sub = None
        /\ T(a.subs[x]).seq = 0 /\ T(a.subs[x]).ready = FALSE /\ T(a.subs[x]).staged = <<>>
  <2> SUFFICES ASSUME NEW s, IsMap(s, SubFields)
               PROVE  /\ KeepsSub(s, T(s), {"retryAt", "ackDue", "sub", "seq", "ready", "staged"})
                      /\ T(s).retryAt = FALSE /\ T(s).ackDue = None /\ T(s).sub = None
                      /\ T(s).seq = 0 /\ T(s).ready = FALSE /\ T(s).staged = <<>>
    BY DEF ActorOK, SubsOK, IsSub
  <2> QED
    BY Zenon DEF IsMap, SubFields, KeepsSub
<1> HIDE DEF T
<1>3. /\ IsMap(m, DOMAIN m) /\ DOMAIN m = DOMAIN a.subs
      /\ \A x \in DOMAIN a.subs : m[x] = T(a.subs[x])
  BY Zenon DEF IsMap
<1>4. IsMap(a, Fields)
  BY DEF ActorOK
<1> HIDE DEF m, b
<1>5. /\ IsMap(b, Fields) /\ b.conn = None /\ b.writable = FALSE /\ b.out = <<>>
      /\ b.heartbeatAt = FALSE /\ b.pending = NoFunction /\ b.bySub = NoFunction
      /\ b.unsubscribing = {} /\ b.subs = m
      /\ \A f \in Fields \ {"conn", "writable", "out", "heartbeatAt", "pending", "bySub",
                            "unsubscribing", "subs"} : b[f] = a[f]
  BY <1>1, <1>4, Zenon DEF IsMap, Fields
<1>6. /\ b.idle = a.idle /\ b.unwritable = a.unwritable
      /\ b.nextConn = a.nextConn /\ b.nextSubscription = a.nextSubscription
      /\ b.nextRequest = a.nextRequest /\ b.tasks = a.tasks /\ b.users = a.users
      /\ b.connecting = a.connecting /\ b.generation = a.generation /\ b.reconnectAt = a.reconnectAt
  BY <1>5, SMT DEF Fields
<1>7. /\ IsMap(b.subs, DOMAIN b.subs) /\ DOMAIN b.subs = DOMAIN a.subs
      /\ \A x \in DOMAIN a.subs : b.subs[x] = T(a.subs[x])
  BY <1>3, <1>5, Zenon
<1>8. IsMap(b.pending, {}) /\ DOMAIN b.pending = {} /\ IsMap(b.bySub, {}) /\ DOMAIN b.bySub = {}
  BY <1>5, NoMap, Zenon
<1> QED
  BY <1>2, <1>5, <1>6, <1>7, <1>8 DEF Detached, DetachKeeps, b

\* The fields of a subscription that no socket carries.
DetachedFields(a, b) ==
  /\ DOMAIN b.subs = DOMAIN a.subs
  /\ \A x \in DOMAIN a.subs :
       LET s == a.subs[x]
           t == b.subs[x]
       IN  /\ t.id = s.id /\ t.consumers = s.consumers /\ t.cursor = s.cursor
           /\ t.orders = s.orders /\ t.state = s.state /\ t.stale = s.stale
           /\ t.retried = s.retried /\ t.confirmed = s.confirmed
           /\ t.retryAt = FALSE /\ t.ackDue = None /\ t.sub = None /\ t.seq = 0
           /\ t.ready = FALSE /\ t.staged = <<>>

\* The views and the tables after detach, field by field.
LEMMA DetachFields ==
  ASSUME NEW a, NEW b, Detached(a, b)
  PROVE  DetachedFields(a, b)
<1>1. ASSUME NEW x \in DOMAIN a.subs
      PROVE  LET s == a.subs[x]
                 t == b.subs[x]
             IN  /\ t.id = s.id /\ t.consumers = s.consumers /\ t.cursor = s.cursor
                 /\ t.orders = s.orders /\ t.state = s.state /\ t.stale = s.stale
                 /\ t.retried = s.retried /\ t.confirmed = s.confirmed
  <2>1. \A f \in SubFields \ {"retryAt", "ackDue", "sub", "seq", "ready", "staged"} :
          b.subs[x][f] = a.subs[x][f]
    BY DEF Detached, KeepsSub
  <2> QED
    BY <2>1, SMT DEF SubFields
<1> QED
  BY <1>1 DEF Detached, DetachedFields

\* detach keeps the actor well typed.
LEMMA DetachOK ==
  ASSUME NEW a, ActorOK(a), NEW b, Detached(a, b),
         b.connecting \in BOOLEAN, b.generation \in Nat, b.reconnectAt \in BOOLEAN
  PROVE  ActorOK(b)
<1>1. DetachedFields(a, b)
  BY DetachFields
<1>2. SubsOK(b.subs)
  <2>1. \A x \in DOMAIN a.subs : IsSub(b.subs[x])
    <3> SUFFICES ASSUME NEW x \in DOMAIN a.subs PROVE IsSub(b.subs[x])
      OBVIOUS
    <3>1. IsSub(a.subs[x])
      BY DEF ActorOK, SubsOK
    <3>2. <<>> \in Seq(Nat) /\ None \in Nat /\ 0 \in Nat
      BY DEF None
    <3>3. IsMap(b.subs[x], SubFields)
      BY DEF Detached, KeepsSub
    <3> QED
      BY <1>1, <3>1, <3>2, <3>3 DEF DetachedFields, IsSub
  <2> QED
    BY <2>1 DEF Detached, ActorOK, SubsOK
<1>3. PendingOK(b.pending) /\ BySubOK(b.bySub)
  BY DEF Detached, PendingOK, BySubOK
<1>4. b.out \in Seq(ClientFrames) /\ b.conn \in Nat
  BY DEF Detached, None
<1> QED
  BY <1>2, <1>3, <1>4 DEF Detached, ActorOK

\* Nobody asks, and nobody was told, while there is somebody.
LEMMA DetachFine ==
  ASSUME NEW a, NEW in, NEW S, NEW A, NEW X, NEW Y, Fine(a, in, S, A, X, Y)
  PROVE  Fine(Detach(a), in, S, A, DOMAIN a.subs, DOMAIN a.subs)
<1> DEFINE b == Detach(a)
           D == DOMAIN a.subs
<1>1. Detached(a, b) /\ DetachKeeps(a, b) /\ ActorOK(a)
  BY DetachEffect DEF Fine
<1> HIDE DEF b
<1>2. DetachedFields(a, b)
  BY <1>1, DetachFields
<1>3. ActorOK(b)
  BY <1>1, DetachOK DEF DetachKeeps, ActorOK
<1>0. /\ Link(a) /\ Wire(a, in) /\ Ids(a, in, S) /\ Cursors(a) /\ EndsOK(in, S) /\ Traced(a, in, S)
      /\ Audience(a, A) /\ Known(a, Y) /\ Whole(a) /\ Explained(a, A)
      /\ Orderly(a, A)
  BY DEF Fine, Linked, Crowd
<1>4. Disconnected(b) /\ Opening(b) /\ Quiet(b)
  BY <1>0, <1>1, <1>2 DEF Detached, DetachKeeps, DetachedFields, Link, Disconnected, Opening, Quiet,
     IsOpening
<1>5. Owned(b)
  <2>1. \A x \in DOMAIN a.subs : a.subs[x].id <= a.nextSubscription
    BY <1>0 DEF Link, Owned
  <2>2. None <= a.nextRequest
    BY <1>1 DEF None, ActorOK
  <2> QED
    BY <1>0, <1>1, <1>2, <2>1, <2>2 DEF Detached, DetachedFields, Link, Owned
<1>6. OneRequest(b) /\ Fetching(b) /\ Listening(b)
  BY <1>0, <1>1, <1>2 DEF Detached, DetachedFields, Link, OneRequest, Asks, Fetching, Listening
<1>7. Wire(b, in) /\ Heard(b, in, S, {})
  BY <1>0, <1>1 DEF Detached, Wire, Heard
<1>8. AllAsk(b, D)
  BY <1>1 DEF Detached, AllAsk
<1>9. Ids(b, in, S)
  BY <1>0, <1>1 DEF Detached, Ids, Unused
<1>10. Cursors(b)
  <2>1. ViewsAt(b)
    BY <1>0, <1>1, <1>2 DEF Detached, DetachedFields, Cursors, ViewsAt
  <2>2. AsksAt(b)
    BY <1>0, <1>1, <1>2 DEF Detached, DetachedFields, Cursors, AsksAt, Asks
  <2>3. SentAt(b)
    BY <1>0, <1>1, <1>2 DEF Detached, DetachedFields, Cursors, SentAt
  <2> QED
    BY <2>1, <2>2, <2>3 DEF Cursors
<1>11. Traced(b, in, S)
  <2>1. \A k \in SubscribedIn(in) : k # None
    BY <1>0 DEF SubscribedIn, Wire
  <2> QED
    BY <1>0, <1>1, <1>2, <2>1, TracedKept DEF Detached, DetachedFields
<1>12. Audience(b, A) /\ Whole(b) /\ Explained(b, A) /\ Orderly(b, A)
  BY <1>0, <1>1, <1>2, OrderlyKept DEF Detached, DetachedFields, Audience, Newcomer, Whole, Explained
<1>13. Known(b, D)
  <2> SUFFICES ASSUME NEW x \in DOMAIN a.subs, NEW c \in a.subs[x].consumers
               PROVE  KnownTo(b.users[c], b.subs[x], x \in D)
    BY <1>2 DEF DetachedFields, Known
  <2>1. KnownTo(a.users[c], a.subs[x], x \in Y)
    BY <1>0, Zenon DEF Known
  <2>2. a.subs[x].ready => a.subs[x].state = "connected"
    BY <1>0 DEF Link, Listening
  <2>3. KnewBefore(a.users[c], b.subs[x])
    <3>1. CASE Knows(a.users[c], a.subs[x])
      BY <3>1, <2>2, <1>2 DEF Knows, KnewBefore, DetachedFields
    <3>2. CASE KnewBefore(a.users[c], a.subs[x])
      BY <3>2, <1>2 DEF KnewBefore, DetachedFields
    <3> QED
      BY <2>1, <3>1, <3>2 DEF KnownTo
  <2>4. b.users = a.users
    BY <1>1 DEF Detached
  <2> QED
    BY <2>3, <2>4 DEF KnownTo
<1> QED
  BY <1>0, <1>3, <1>4, <1>5, <1>6, <1>7, <1>8, <1>9, <1>10, <1>11, <1>12, <1>13
     DEF Fine, Linked, Link, Crowd, b

-----------------------------------------------------------------------------
(* teardown *)

\* e is a without the subscription of x, and without what is asked for it.
Removed(a, e, x) ==
  LET s == a.subs[x]
  IN  /\ IsMap(e, Fields)
      /\ e.conn = a.conn /\ e.writable = a.writable /\ e.out = a.out
      /\ e.heartbeatAt = a.heartbeatAt /\ e.connecting = a.connecting /\ e.generation = a.generation
      /\ e.nextSubscription = a.nextSubscription /\ e.nextRequest = a.nextRequest
      /\ e.reconnectAt = a.reconnectAt /\ e.users = a.users
      /\ e.unsubscribing = a.unsubscribing /\ e.idle = a.idle /\ e.unwritable = a.unwritable
      /\ e.nextConn = a.nextConn /\ e.tasks = a.tasks
      /\ IsMap(e.subs, DOMAIN e.subs) /\ DOMAIN e.subs = DOMAIN a.subs \ {x}
      /\ \A y \in DOMAIN e.subs : e.subs[y] = a.subs[y]
      /\ IsMap(e.bySub, DOMAIN e.bySub)
      /\ DOMAIN e.bySub = IF s.sub = None THEN DOMAIN a.bySub ELSE DOMAIN a.bySub \ {s.sub}
      /\ \A k \in DOMAIN e.bySub : e.bySub[k] = a.bySub[k]
      /\ IsMap(e.pending, DOMAIN e.pending)
      /\ DOMAIN e.pending = {r \in DOMAIN a.pending : a.pending[r].subscription # s.id}
      /\ \A r \in DOMAIN e.pending : e.pending[r] = a.pending[r]

\* Removing an account keeps the actor well typed.
LEMMA RemovedOK ==
  ASSUME NEW a, ActorOK(a), NEW e, NEW x, Removed(a, e, x)
  PROVE  ActorOK(e)
<1>1. SubsOK(e.subs)
  BY DEF Removed, ActorOK, SubsOK
<1>2. PendingOK(e.pending)
  BY DEF Removed, ActorOK, PendingOK
<1>3. BySubOK(e.bySub)
  <2>1. DOMAIN e.bySub \subseteq DOMAIN a.bySub
    BY DEF Removed
  <2> QED
    BY <2>1 DEF Removed, ActorOK, BySubOK
<1> QED
  BY <1>1, <1>2, <1>3 DEF Removed, ActorOK

\* Removing an account that is not the last leaves only its subscription on the server to be
\* ended.
LEMMA RemovedLinked ==
  ASSUME NEW a, ActorOK(a), NEW in, NEW S, NEW X, Linked(a, in, S, X, {}),
         NEW x \in DOMAIN a.subs, NEW e, Removed(a, e, x), DOMAIN e.subs # {}
  PROVE  /\ Linked(e, in, S, X, IF a.subs[x].sub = None THEN {} ELSE {a.subs[x].sub})
         /\ a.subs[x].sub # None => Named(e, a.subs[x].sub)
<1> DEFINE s == a.subs[x]
           k == s.sub
           K == IF a.subs[x].sub = None THEN {} ELSE {a.subs[x].sub}
<1>0. /\ Link(a) /\ Wire(a, in) /\ AllAsk(a, X) /\ Ids(a, in, S) /\ Heard(a, in, S, {})
      /\ Cursors(a) /\ EndsOK(in, S) /\ Traced(a, in, S)
  BY DEF Linked
<1>1. /\ e.conn = a.conn /\ e.writable = a.writable /\ e.out = a.out
      /\ e.heartbeatAt = a.heartbeatAt /\ e.connecting = a.connecting /\ e.generation = a.generation
      /\ e.nextSubscription = a.nextSubscription /\ e.nextRequest = a.nextRequest
      /\ e.reconnectAt = a.reconnectAt /\ e.tasks = a.tasks
  BY DEF Removed
<1>2. /\ DOMAIN e.subs = DOMAIN a.subs \ {x} /\ \A y \in DOMAIN e.subs : e.subs[y] = a.subs[y]
      /\ DOMAIN e.bySub \subseteq DOMAIN a.bySub /\ \A n \in DOMAIN e.bySub : e.bySub[n] = a.bySub[n]
      /\ \A n \in DOMAIN a.bySub : n \in DOMAIN e.bySub \/ (n = k /\ k # None)
      /\ k # None => k \notin DOMAIN e.bySub
  BY DEF Removed
<1>3. /\ \A r \in DOMAIN e.pending : r \in DOMAIN a.pending /\ e.pending[r] = a.pending[r]
      /\ \A r \in DOMAIN a.pending : r \in DOMAIN e.pending <=> a.pending[r].subscription # s.id
  BY DEF Removed
<1>4. \A r \in DOMAIN a.pending : r \in DOMAIN e.pending <=> a.pending[r].account # x
  BY <1>0, <1>3 DEF Link, Owned
<1>5. Disconnected(e) /\ Opening(e) /\ Quiet(e)
  BY <1>0, <1>1, <1>2, <1>3 DEF Link, Disconnected, Opening, Quiet, IsOpening
<1>6. Owned(e)
  BY <1>0, <1>1, <1>2, <1>3, <1>4 DEF Link, Owned
<1>7. \A r, y : Asks(e, r, y) => Asks(a, r, y)
  BY <1>3 DEF Asks
<1>8. \A r, y : Asks(a, r, y) /\ y # x => Asks(e, r, y)
  BY <1>3, <1>4 DEF Asks
<1>9. OneRequest(e)
  <2>1. \A y \in DOMAIN e.subs : \A r \in DOMAIN e.pending : Asks(e, r, y) =>
          /\ e.subs[y].sub = None /\ ~e.subs[y].retryAt
          /\ \A q \in DOMAIN e.pending : Asks(e, q, y) => q = r
    BY <1>0, <1>2, <1>3, <1>7 DEF Link, OneRequest
  <2>2. \A y \in DOMAIN e.subs :
          /\ e.subs[y].sub # None => ~e.subs[y].retryAt
          /\ e.subs[y].ackDue \in DOMAIN e.pending => Asks(e, e.subs[y].ackDue, y)
    BY <1>0, <1>2, <1>3, <1>8 DEF Link, OneRequest
  <2> QED
    BY <2>1, <2>2 DEF OneRequest
<1>10. Fetching(e)
  BY <1>0, <1>1, <1>3 DEF Link, Fetching
<1>11. Listening(e)
  BY <1>0, <1>2 DEF Link, Listening
<1>12. Wire(e, in)
  BY <1>0, <1>1, <1>3 DEF Wire
<1>13. AllAsk(e, X)
  <2> SUFFICES ASSUME NEW y \in DOMAIN e.subs \ X PROVE IsAsking(e, y)
    BY DEF AllAsk
  <2>1. IsAsking(a, y) /\ y # x /\ e.subs[y] = a.subs[y]
    BY <1>0, <1>2 DEF AllAsk
  <2> QED
    BY <1>1, <1>3, <1>8, <2>1 DEF IsAsking, IsOpening, Asks
<1>14. Ids(e, in, S)
  <2>1. \A n : Unused(a, in, S, n) => Unused(e, in, S, n)
    BY <1>1, <1>2 DEF Unused
  <2> QED
    BY <1>0, <1>1, <1>2, <1>3, <2>1 DEF Ids
<1>15. Heard(e, in, S, K)
  BY <1>0, <1>1, <1>2 DEF Heard
<1>16. Cursors(e)
  <2>1. \A r \in DOMAIN e.pending : e.pending[r].account \in DOMAIN e.subs
    BY <1>6 DEF Owned
  <2> QED
    <3>1. ViewsAt(e)
      BY <1>0, <1>1, <1>2, <1>3, <2>1 DEF Cursors, ViewsAt
    <3>2. AsksAt(e)
      BY <1>0, <1>1, <1>2, <1>3, <2>1 DEF Cursors, AsksAt, Asks
    <3>3. SentAt(e)
      BY <1>0, <1>1, <1>2, <1>3, <2>1 DEF Cursors, SentAt
    <3> QED
      BY <3>1, <3>2, <3>3 DEF Cursors
<1>17. Traced(e, in, S)
  <2>1. \A r \in DOMAIN e.pending : e.pending[r].account \in DOMAIN e.subs
    BY <1>6 DEF Owned
  <2> QED
    BY <1>0, <1>2, <1>3, <2>1, TracedKept
<1>18. k # None => Named(e, k)
  <2> SUFFICES ASSUME k # None PROVE Named(e, k)
    OBVIOUS
  <2>1. k \in Nat /\ k \in DOMAIN a.bySub
    BY <1>0 DEF Link, Listening, ActorOK, SubsOK, IsSub
  <2>2. /\ k <= e.nextRequest
        /\ \A i \in DOMAIN e.out : e.out[i].kind = "subscribe" => e.out[i].id # k
        /\ \A t \in e.tasks : t.kind = "subscribe" /\ t.request \in DOMAIN e.pending => t.request # k
    BY <1>0, <1>1, <1>3, <2>1 DEF Ids, Unused
  <2> QED
    BY <2>1, <2>2 DEF Named
<1> QED
  BY <1>0, <1>5, <1>6, <1>9, <1>10, <1>11, <1>12, <1>13, <1>14, <1>15, <1>16, <1>17, <1>18
     DEF Linked, Link

\* Nobody is left: what was being opened is of the past.
Emptied(a, b) ==
  /\ DOMAIN b.subs = {} /\ b.conn = None /\ b.writable = FALSE /\ b.out = <<>>
  /\ b.heartbeatAt = FALSE /\ DOMAIN b.pending = {} /\ DOMAIN b.bySub = {}
  /\ b.connecting = FALSE /\ b.reconnectAt = FALSE /\ b.generation = a.generation + 1
  /\ b.tasks = a.tasks /\ b.nextRequest \in {a.nextRequest, a.nextRequest + 1}

\* With no account and no socket left there is nothing the link could disagree about.
LEMMA EmptiedLinked ==
  ASSUME NEW a, ActorOK(a), NEW in, NEW S, NEW X, NEW K, Linked(a, in, S, X, K), NEW b, Emptied(a, b)
  PROVE  Linked(b, in, S, X, {})
<1>0. /\ Link(a) /\ Wire(a, in) /\ Ids(a, in, S) /\ EndsOK(in, S) /\ Traced(a, in, S)
      /\ InTypes(in) /\ TaskTypes(a) /\ a.nextRequest \in Nat /\ a.generation \in Nat
  BY FrameTypes, InboxTypes DEF Linked, ActorOK
<1>1. \A n \in Nat : n <= a.nextRequest => n <= b.nextRequest
  BY <1>0 DEF Emptied
<1>2. \A t \in b.tasks : t.kind = "open" => t.owner < b.generation /\ t = OpenTask(t.owner)
  <2>1. \A t \in a.tasks : t.kind = "open" => t.owner <= a.generation /\ t = OpenTask(t.owner)
    BY <1>0 DEF Link, Opening
  <2> QED
    BY <1>0, <2>1 DEF TaskTypes, Emptied
<1>3. ~IsOpening(b)
  <2>1. \A t \in b.tasks : t.kind = "open" => t.owner # b.generation
    BY <1>0, <1>2 DEF TaskTypes, Emptied
  <2> QED
    BY <2>1 DEF IsOpening
<1>4. Opening(b)
  <2>1. \A t \in b.tasks : t.kind = "open" => t.owner <= b.generation
    BY <1>0, <1>2 DEF TaskTypes, Emptied
  <2> QED
    BY <1>2, <1>3, <2>1 DEF Opening, Emptied
<1>5. Disconnected(b) /\ Quiet(b) /\ Owned(b) /\ OneRequest(b) /\ Listening(b)
  BY <1>3 DEF Emptied, Disconnected, Quiet, Owned, OneRequest, Listening
<1>6. Fetching(b)
  BY <1>0, <1>1 DEF Emptied, Link, Fetching, TaskTypes
<1>7. Wire(b, in) /\ AllAsk(b, X) /\ Heard(b, in, S, {}) /\ Cursors(b)
  BY <1>0, <1>1 DEF Emptied, Wire, InTypes, AllAsk, Heard, Cursors, ViewsAt, AsksAt, Asks, SentAt
<1>8. Ids(b, in, S)
  <2>1. DOMAIN S \in SUBSET Nat
    BY <1>0 DEF EndsOK
  <2> QED
    BY <1>0, <1>1, <2>1 DEF Emptied, Ids, InTypes, TaskTypes
<1>9. Traced(b, in, S)
  BY <1>0, TracedKept DEF Emptied
<1> QED
  BY <1>0, <1>4, <1>5, <1>6, <1>7, <1>8, <1>9 DEF Linked, Link

\* shutdown detaches, and voids the socket being opened by counting the generation up.
LEMMA ShutdownEffect ==
  ASSUME NEW a, ActorOK(a)
  PROVE  LET b == Shutdown(a)
         IN  /\ Detached(a, b) /\ b.generation = a.generation + 1
             /\ b.connecting = FALSE /\ b.reconnectAt = FALSE /\ ActorOK(b)
<1> DEFINE d == Detach(a)
           n == d.generation + 1
           b == Shutdown(a)
<1>1. b = [d EXCEPT !.generation = n, !.connecting = FALSE, !.reconnectAt = FALSE]
  BY Zenon DEF Shutdown
<1>2. Detached(a, d) /\ DetachKeeps(a, d)
  BY DetachEffect
<1>3. IsMap(d, Fields)
  BY <1>2 DEF Detached
<1>n. n = a.generation + 1
  BY <1>2 DEF DetachKeeps
<1> HIDE DEF d, n, b
<1>4. /\ IsMap(b, Fields) /\ b.generation = n /\ b.connecting = FALSE /\ b.reconnectAt = FALSE
      /\ \A f \in Fields \ {"generation", "connecting", "reconnectAt"} : b[f] = d[f]
  BY <1>1, <1>3, Zenon DEF IsMap, Fields
<1>5. /\ b.subs = d.subs /\ b.pending = d.pending /\ b.bySub = d.bySub
      /\ b.unsubscribing = d.unsubscribing /\ b.idle = d.idle /\ b.conn = d.conn
      /\ b.writable = d.writable /\ b.out = d.out /\ b.unwritable = d.unwritable
      /\ b.nextConn = d.nextConn /\ b.nextSubscription = d.nextSubscription
      /\ b.nextRequest = d.nextRequest /\ b.heartbeatAt = d.heartbeatAt /\ b.tasks = d.tasks
      /\ b.users = d.users
  BY <1>4, SMT DEF Fields
<1>6. Detached(a, b)
  BY <1>2, <1>4, <1>5, Zenon DEF Detached
<1>7. n \in Nat
  BY <1>n DEF ActorOK
<1>8. ActorOK(b)
  BY <1>4, <1>6, <1>7, DetachOK
<1> QED
  BY <1>4, <1>6, <1>8, <1>n DEF b

\* teardown removes the account, ends its subscription, and shuts the socket down after the
\* last account.
LEMMA TeardownEffect ==
  ASSUME NEW a, ActorOK(a), NEW x \in DOMAIN a.subs
  PROVE  \E e, done :
           /\ Removed(a, e, x)
           /\ a.subs[x].sub = None => done = e
           /\ a.subs[x].sub # None => Unsubscribed(e, done, a.subs[x].sub)
           /\ Teardown(a, x) = IF DOMAIN done.subs = {} THEN Shutdown(done) ELSE done
<1> DEFINE s == a.subs[x]
           k == s.sub
           ss == Without(a.subs, {x})
           gone == [a EXCEPT !.subs = ss]
           m == IF k = None THEN a.bySub ELSE Without(a.bySub, {k})
           cut == IF k = None THEN gone ELSE [gone EXCEPT !.bySub = m]
           left == IF k = None THEN cut ELSE Unsubscribe(cut, k)
           own == OwnRequests(a, s.id)
           p == Without(a.pending, own)
           done == [left EXCEPT !.pending = p]
           e == [cut EXCEPT !.pending = p]
<1>0. IsMap(a, Fields)
  BY DEF ActorOK
<1>1. /\ IsMap(ss, DOMAIN ss) /\ DOMAIN ss = DOMAIN a.subs \ {x}
      /\ \A y \in DOMAIN ss : ss[y] = a.subs[y]
  BY Zenon DEF IsMap, Without, Restrict
<1>2. /\ IsMap(p, DOMAIN p) /\ DOMAIN p = DOMAIN a.pending \ own
      /\ \A r \in DOMAIN p : p[r] = a.pending[r]
  <2> HIDE DEF own
  <2> QED
    BY Zenon DEF IsMap, Without, Restrict
<1>3. /\ IsMap(m, DOMAIN m)
      /\ DOMAIN m = IF k = None THEN DOMAIN a.bySub ELSE DOMAIN a.bySub \ {k}
      /\ \A n \in DOMAIN m : m[n] = a.bySub[n]
  <2>1. CASE k = None
    BY <2>1 DEF ActorOK, BySubOK
  <2>2. CASE k # None
    <3> HIDE DEF k
    <3> DEFINE w == Without(a.bySub, {k})
    <3>1. IsMap(w, DOMAIN w) /\ DOMAIN w = DOMAIN a.bySub \ {k} /\ \A n \in DOMAIN w : w[n] = a.bySub[n]
      BY Zenon DEF IsMap, Without, Restrict
    <3>2. m = w
      BY <2>2
    <3> QED
      BY <2>2, <3>1, <3>2, Zenon
  <2> QED
    BY <2>1, <2>2
<1>4. DOMAIN p = {r \in DOMAIN a.pending : a.pending[r].subscription # s.id}
  BY <1>2 DEF OwnRequests
<1> HIDE DEF ss, p, own
<1>5. IsMap(gone, Fields) /\ gone.subs = ss /\ \A f \in Fields \ {"subs"} : gone[f] = a[f]
  <2> HIDE DEF gone
  <2>1. gone = [a EXCEPT !.subs = ss]
    BY DEF gone
  <2> QED
    BY <1>0, <2>1, Zenon DEF IsMap, Fields
<1> HIDE DEF gone
<1>6. /\ IsMap(cut, Fields) /\ cut.subs = ss /\ cut.bySub = m
      /\ \A f \in Fields \ {"subs", "bySub"} : cut[f] = a[f]
  <2>1. CASE k = None
    <3>1. cut = gone /\ m = a.bySub
      BY <2>1
    <3> HIDE DEF cut, m
    <3> QED
      BY <1>5, <3>1, SMT DEF Fields
  <2>2. CASE k # None
    <3> HIDE DEF m, k
    <3>1. cut = [gone EXCEPT !.bySub = m]
      BY <2>2
    <3> HIDE DEF cut
    <3>2. IsMap(cut, Fields) /\ cut.bySub = m /\ \A f \in Fields \ {"bySub"} : cut[f] = gone[f]
      BY <1>5, <3>1, Zenon DEF IsMap, Fields
    <3> QED
      BY <1>5, <3>2, SMT DEF Fields
  <2> QED
    BY <2>1, <2>2
<1>7. ActorOK(cut)
  <2>1. SubsOK(cut.subs)
    BY <1>1, <1>6 DEF ActorOK, SubsOK
  <2>2. BySubOK(cut.bySub)
    <3>1. DOMAIN m \subseteq DOMAIN a.bySub
      BY <1>3
    <3> HIDE DEF m, cut
    <3> QED
      BY <1>3, <1>6, <3>1 DEF ActorOK, BySubOK
  <2> HIDE DEF cut, m
  <2>3. /\ cut.pending = a.pending /\ cut.users = a.users /\ cut.unsubscribing = a.unsubscribing
        /\ cut.idle = a.idle /\ cut.conn = a.conn /\ cut.writable = a.writable
        /\ cut.out = a.out /\ cut.unwritable = a.unwritable /\ cut.connecting = a.connecting
        /\ cut.generation = a.generation /\ cut.nextConn = a.nextConn
        /\ cut.nextSubscription = a.nextSubscription /\ cut.nextRequest = a.nextRequest
        /\ cut.reconnectAt = a.reconnectAt /\ cut.heartbeatAt = a.heartbeatAt
        /\ cut.tasks = a.tasks
    BY <1>6, SMT DEF Fields
  <2> QED
    BY <1>6, <2>1, <2>2, <2>3 DEF ActorOK
<1>8. Teardown(a, x) = IF DOMAIN done.subs = {} THEN Shutdown(done) ELSE done
  <2> DEFINE g == [a EXCEPT !.subs = Without(@, {x})]
             l == IF s.sub = None THEN g
                  ELSE Unsubscribe([g EXCEPT !.bySub = Without(@, {s.sub})], s.sub)
             d == [l EXCEPT !.pending = Without(@, OwnRequests(l, s.id))]
  <2>1. Teardown(a, x) = IF DOMAIN d.subs = {} THEN Shutdown(d) ELSE d
    BY Zenon DEF Teardown
  <2>2. g = gone
    BY Zenon DEF gone, ss
  <2>3. gone.bySub = a.bySub
    BY <1>5 DEF Fields
  <2> HIDE DEF g
  <2>4. l = left
    <3>1. CASE k = None
      BY <2>2, <3>1
    <3>2. CASE k # None
      <4>1. m = Without(a.bySub, {k})
        BY <3>2
      <4>2. l = Unsubscribe([g EXCEPT !.bySub = Without(@, {k})], k)
        BY <3>2
      <4>3. [g EXCEPT !.bySub = Without(@, {k})] = [gone EXCEPT !.bySub = m]
        BY <2>2, <2>3, <4>1, Zenon
      <4>4. left = Unsubscribe([gone EXCEPT !.bySub = m], k)
        BY <3>2
      <4> HIDE DEF l, left, m, k
      <4> QED
        BY <4>2, <4>3, <4>4, Zenon
    <3> QED
      BY <3>1, <3>2
  <2>5. left.pending = a.pending
    <3>1. cut.pending = a.pending
      BY <1>6 DEF Fields
    <3>2. CASE k = None
      BY <3>1, <3>2
    <3>3. CASE k # None
      <4> HIDE DEF cut
      <4>1. left = Unsubscribe(cut, k)
        BY <3>3
      <4> HIDE DEF left
      <4>2. Unsubscribed(cut, left, k)
        BY <1>7, <4>1, UnsubscribeEffect
      <4> QED
        BY <3>1, <4>2 DEF Unsubscribed, UnsubscribeKeeps
    <3> QED
      BY <3>2, <3>3
  <2> HIDE DEF l, left
  <2>6. OwnRequests(l, s.id) = own
    BY <2>4, <2>5, Zenon DEF OwnRequests, own
  <2>7. d = done
    BY <2>4, <2>5, <2>6, Zenon DEF p
  <2> HIDE DEF d, done
  <2> QED
    BY <2>1, <2>7
<1>9. /\ IsMap(e, Fields) /\ e.pending = p /\ \A f \in Fields \ {"pending"} : e[f] = cut[f]
  <2> HIDE DEF cut, m
  <2>1. e = [cut EXCEPT !.pending = p]
    BY DEF e
  <2> HIDE DEF e
  <2> QED
    BY <1>6, <2>1, Zenon DEF IsMap, Fields
<1>10. Removed(a, e, x)
  <2> HIDE DEF e, cut, m
  <2>1. /\ e.subs = ss /\ e.bySub = m /\ e.pending = p
        /\ e.users = a.users /\ e.unsubscribing = a.unsubscribing
        /\ e.idle = a.idle /\ e.conn = a.conn /\ e.writable = a.writable
        /\ e.out = a.out /\ e.unwritable = a.unwritable /\ e.connecting = a.connecting
        /\ e.generation = a.generation /\ e.nextConn = a.nextConn
        /\ e.nextSubscription = a.nextSubscription /\ e.nextRequest = a.nextRequest
        /\ e.reconnectAt = a.reconnectAt /\ e.heartbeatAt = a.heartbeatAt
        /\ e.tasks = a.tasks
    BY <1>6, <1>9, SMT DEF Fields
  <2> QED
    BY <1>1, <1>2, <1>3, <1>4, <1>9, <2>1 DEF Removed
<1>11. k = None => done = e
  OBVIOUS
<1>12. k # None => Unsubscribed(e, done, k)
  <2> SUFFICES ASSUME k # None PROVE Unsubscribed(e, done, k)
    OBVIOUS
  <2> HIDE DEF cut, e, k, m
  <2>1. left = Unsubscribe(cut, k)
    OBVIOUS
  <2> HIDE DEF left
  <2>2. Unsubscribed(cut, left, k)
    BY <1>7, <2>1, UnsubscribeEffect
  <2>3. IsMap(done, Fields) /\ done.pending = p /\ \A f \in Fields \ {"pending"} : done[f] = left[f]
    <3>1. IsMap(left, Fields)
      BY <2>2 DEF Unsubscribed
    <3>2. done = [left EXCEPT !.pending = p]
      BY DEF done
    <3> HIDE DEF done
    <3> QED
      BY <3>1, <3>2, Zenon DEF IsMap, Fields
  <2> HIDE DEF done
  <2>4. /\ done.subs = left.subs /\ done.bySub = left.bySub /\ done.pending = p
        /\ done.users = left.users /\ done.unsubscribing = left.unsubscribing
        /\ done.idle = left.idle /\ done.conn = left.conn /\ done.writable = left.writable
        /\ done.out = left.out /\ done.unwritable = left.unwritable
        /\ done.connecting = left.connecting
        /\ done.generation = left.generation /\ done.nextConn = left.nextConn
        /\ done.nextSubscription = left.nextSubscription /\ done.nextRequest = left.nextRequest
        /\ done.reconnectAt = left.reconnectAt /\ done.heartbeatAt = left.heartbeatAt
        /\ done.tasks = left.tasks
    BY <2>3, SMT DEF Fields
  <2>5. /\ e.subs = cut.subs /\ e.bySub = cut.bySub /\ e.pending = p
        /\ e.users = cut.users /\ e.unsubscribing = cut.unsubscribing
        /\ e.idle = cut.idle /\ e.conn = cut.conn /\ e.writable = cut.writable
        /\ e.out = cut.out /\ e.unwritable = cut.unwritable
        /\ e.connecting = cut.connecting
        /\ e.generation = cut.generation /\ e.nextConn = cut.nextConn
        /\ e.nextSubscription = cut.nextSubscription /\ e.nextRequest = cut.nextRequest
        /\ e.reconnectAt = cut.reconnectAt /\ e.heartbeatAt = cut.heartbeatAt
        /\ e.tasks = cut.tasks
    BY <1>9, SMT DEF Fields
  <2>6. UnsubscribeKeeps(e, done)
    BY <2>2, <2>4, <2>5 DEF Unsubscribed, UnsubscribeKeeps
  <2> QED
    BY <2>2, <2>3, <2>4, <2>5, <2>6, Zenon DEF Unsubscribed
<1> HIDE DEF e, done
<1> QED
  BY <1>8, <1>10, <1>11, <1>12

\* b is a without the subscription of x.
TornDown(a, b, x) ==
  /\ b.users = a.users /\ DOMAIN b.subs = DOMAIN a.subs \ {x}
  /\ \A y \in DOMAIN b.subs : b.subs[y] = a.subs[y]

\* Ending a subscription keeps the actor well typed.
LEMMA UnsubscribedOK ==
  ASSUME NEW e, ActorOK(e), NEW k \in Nat, NEW done, Unsubscribed(e, done, k)
  PROVE  ActorOK(done)
<1>0. UnsubscribeKeeps(e, done)
  BY DEF Unsubscribed
<1>1. done.nextRequest = e.nextRequest + 1 /\ e.nextRequest \in Nat
  BY <1>0 DEF UnsubscribeKeeps, ActorOK
<1>2. done.unsubscribing \in SUBSET Nat /\ done.nextRequest \in Nat /\ done.unwritable \in Nat
  <2>1. e.nextRequest + 1 \in Nat
    BY <1>1
  <2>2. done.unsubscribing \in SUBSET Nat
    BY <2>1, Zenon DEF Unsubscribed, ActorOK
  <2>3. done.unwritable \in Nat
    BY DEF Unsubscribed, ActorOK
  <2> QED
    BY <1>1, <2>1, <2>2, <2>3
<1>3. CASE e.conn # None /\ e.writable
  <2> DEFINE frame == [kind |-> "unsubscribe", id |-> e.nextRequest + 1, sub |-> k,
                       account |-> None, cursor |-> None]
  <2>1. frame \in ClientFrames
    BY <1>1 DEF ClientFrames, None
  <2>2. done.out = Append(e.out, frame)
    BY <1>3 DEF Unsubscribed
  <2> HIDE DEF frame
  <2>3. done.out \in Seq(ClientFrames)
    BY <2>1, <2>2 DEF ActorOK
  <2> QED
    BY <1>0, <1>2, <2>3 DEF ActorOK, UnsubscribeKeeps, Unsubscribed
<1>4. CASE ~(e.conn # None /\ e.writable)
  BY <1>0, <1>2, <1>4 DEF ActorOK, UnsubscribeKeeps, Unsubscribed
<1> QED
  BY <1>3, <1>4

\* teardown keeps the link in order.
LEMMA TeardownLinked ==
  ASSUME NEW a, ActorOK(a), NEW in, NEW S, NEW X, Linked(a, in, S, X, {}), NEW x \in DOMAIN a.subs
  PROVE  /\ ActorOK(Teardown(a, x)) /\ Linked(Teardown(a, x), in, S, X, {})
         /\ TornDown(a, Teardown(a, x), x)
<1> DEFINE k == a.subs[x].sub
           b == Teardown(a, x)
<1>1. PICK e, done :
           /\ Removed(a, e, x)
           /\ a.subs[x].sub = None => done = e
           /\ a.subs[x].sub # None => Unsubscribed(e, done, a.subs[x].sub)
           /\ Teardown(a, x) = IF DOMAIN done.subs = {} THEN Shutdown(done) ELSE done
  BY TeardownEffect
<1>2. ActorOK(e)
  BY <1>1, RemovedOK
<1> HIDE DEF b
<1>3. CASE DOMAIN e.subs # {}
  <2>1. /\ Linked(e, in, S, X, IF a.subs[x].sub = None THEN {} ELSE {a.subs[x].sub})
        /\ a.subs[x].sub # None => Named(e, a.subs[x].sub)
    BY <1>1, <1>3, RemovedLinked
  <2>2. CASE k = None
    <3>1. done = e /\ Linked(e, in, S, X, {})
      BY <1>1, <2>1, <2>2
    <3>2. b = e
      BY <1>1, <1>3, <3>1, Zenon DEF b
    <3> QED
      BY <1>1, <1>2, <3>1, <3>2 DEF Removed, TornDown, b
  <2>3. CASE k # None
    <3>1. Unsubscribed(e, done, k) /\ Named(e, k) /\ Linked(e, in, S, X, {k})
      BY <1>1, <2>1, <2>3
    <3>2. /\ ActorOK(done) /\ Linked(done, in, S, X, {k} \ {k})
          /\ UnsubscribeKeeps(e, done)
      BY <1>2, <3>1, UnsubscribedLinked
    <3>3. {k} \ {k} = {}
      OBVIOUS
    <3>4. done.subs = e.subs /\ done.users = e.users
      BY <3>2 DEF UnsubscribeKeeps
    <3>5. b = done
      BY <1>1, <1>3, <3>4, Zenon DEF b
    <3> QED
      BY <1>1, <3>2, <3>3, <3>4, <3>5 DEF Removed, TornDown, b
  <2> QED
    BY <2>2, <2>3
<1>4. CASE DOMAIN e.subs = {}
  <2>1. /\ ActorOK(done) /\ done.subs = e.subs /\ done.users = e.users /\ done.tasks = e.tasks
        /\ done.generation = e.generation /\ done.nextRequest \in {e.nextRequest, e.nextRequest + 1}
    <3>1. CASE k = None
      BY <1>1, <1>2, <3>1
    <3>2. CASE k # None
      <4>1. Unsubscribed(e, done, k)
        BY <1>1, <3>2
      <4>2. UnsubscribeKeeps(e, done)
        BY <4>1 DEF Unsubscribed
      <4>3. ActorOK(done)
        <5>1. k \in Nat
          BY DEF ActorOK, SubsOK, IsSub
        <5> HIDE DEF k
        <5> QED
          BY <1>2, <4>1, <5>1, UnsubscribedOK
      <4> QED
        BY <4>2, <4>3 DEF UnsubscribeKeeps
    <3> QED
      BY <3>1, <3>2
  <2>2. b = Shutdown(done)
    BY <1>1, <1>4, <2>1, Zenon DEF b
  <2>3. /\ Detached(done, b) /\ b.generation = done.generation + 1
        /\ b.connecting = FALSE /\ b.reconnectAt = FALSE /\ ActorOK(b)
    BY <2>1, <2>2, ShutdownEffect
  <2>4. Emptied(a, b)
    BY <1>1, <1>4, <2>1, <2>3 DEF Removed, Detached, Emptied
  <2>5. Linked(b, in, S, X, {})
    BY <2>4, EmptiedLinked
  <2>6. TornDown(a, b, x)
    <3>1. DOMAIN b.subs = {} /\ DOMAIN a.subs \ {x} = {} /\ b.users = a.users
      BY <1>1, <1>4, <2>1, <2>3 DEF Removed, Detached
    <3> QED
      BY <3>1 DEF TornDown
  <2> QED
    BY <2>3, <2>5, <2>6 DEF b
<1> QED
  BY <1>3, <1>4

-----------------------------------------------------------------------------
(* terminate *)

\* What the consumers are left with when their stream ended.
Goodbye(s, u) ==
  LET v == [u EXCEPT !.ended = "error"]
  IN  IF s.state # "disconnected" /\ Accepts(v) THEN Offer(v, "disconnected", None) ELSE v

\* The last event of a terminated account ends its consumer with the error and leaves its view.
LEMMA GoodbyeEffect ==
  ASSUME NEW s, NEW u, IsUser(u)
  PROVE  /\ IsUser(Goodbye(s, u)) /\ Goodbye(s, u).ended = "error"
         /\ Goodbye(s, u).view = u.view /\ Goodbye(s, u).handle = u.handle
<1> DEFINE v == [u EXCEPT !.ended = "error"]
<1>1. /\ IsMap(v, UserFields) /\ v.ended = "error" /\ \A f \in UserFields \ {"ended"} : v[f] = u[f]
  BY Zenon DEF IsUser, IsMap, UserFields
<1>2. /\ v.handle = u.handle /\ v.queued = u.queued /\ v.connected = u.connected
      /\ v.view = u.view /\ v.ready = u.ready /\ v.stale = u.stale
  BY <1>1, SMT DEF UserFields
<1>3. IsUser(v)
  BY <1>1, <1>2 DEF IsUser
<1>4. Goodbye(s, u) = IF s.state # "disconnected" /\ Accepts(v)
                      THEN Offer(v, "disconnected", None) ELSE v
  BY Zenon DEF Goodbye
<1> HIDE DEF v
<1>5. CASE s.state # "disconnected" /\ Accepts(v)
  <2>1. OfferEffect(v, Offer(v, "disconnected", None), "disconnected", None)
    BY <1>3, OfferLemma DEF Events, None
  <2>2. Told(v, "disconnected", None).view = v.view
    <3>1. IsMap(v, UserFields) /\ Told(v, "disconnected", None)
            = [v EXCEPT !.connected = FALSE, !.ready = FALSE]
      BY <1>3, Zenon DEF Told, IsUser
    <3> QED
      BY <3>1, Zenon DEF IsMap, UserFields
  <2> QED
    BY <1>1, <1>2, <1>4, <1>5, <2>1, <2>2 DEF OfferEffect
<1>6. CASE ~(s.state # "disconnected" /\ Accepts(v))
  BY <1>1, <1>2, <1>3, <1>4, <1>6
<1> QED
  BY <1>5, <1>6

\* terminate, which ends one account for good, keeps everything the invariant says of the
\* stream.
LEMMA TerminateFine ==
  ASSUME NEW a, NEW in, NEW S, NEW A, NEW X, NEW Y, Fine(a, in, S, A, X, Y), NEW x \in DOMAIN a.subs
  PROVE  /\ Fine(Terminate(a, x), in, S, A, X, Y)
         /\ DOMAIN Terminate(a, x).subs = DOMAIN a.subs \ {x}
<1> DEFINE b == Report(a, x)
           s == b.subs[x]
           d == Teardown(b, x)
           us == [c \in Consumers |-> IF c \in s.consumers THEN Goodbye(s, d.users[c]) ELSE d.users[c]]
           t == Terminate(a, x)
<1>1. Fine(b, in, S, A, X, Y) /\ DeliverEffect(a, b, x, "error", None)
  BY ReportFine
<1>2. t = [d EXCEPT !.users = us]
  BY Zenon DEF Terminate, Goodbye
<1> HIDE DEF b
<1>3. x \in DOMAIN b.subs /\ DOMAIN b.subs = DOMAIN a.subs /\ ActorOK(b) /\ Linked(b, in, S, X, {})
      /\ Crowd(b, A, Y)
  BY <1>1 DEF DeliverEffect, KeepsSubs, Fine
<1>4. ActorOK(d) /\ Linked(d, in, S, X, {}) /\ TornDown(b, d, x)
  BY <1>3, TeardownLinked
<1> HIDE DEF d
<1>5. IsMap(us, Consumers) /\ \A c \in Consumers :
        us[c] = IF c \in s.consumers THEN Goodbye(s, d.users[c]) ELSE d.users[c]
  BY Zenon DEF IsMap
<1> HIDE DEF us, t
<1>6. IsMap(t, Fields) /\ t.users = us /\ \A f \in Fields \ {"users"} : t[f] = d[f]
  <2>1. IsMap(d, Fields)
    BY <1>4 DEF ActorOK
  <2> QED
    BY <1>2, <2>1, Zenon DEF IsMap, Fields
<1>7. \A c \in Consumers : IsUser(d.users[c])
  BY <1>4 DEF ActorOK, UsersOK
<1>8. \A c \in Consumers : IsUser(Goodbye(s, d.users[c]))
        /\ Goodbye(s, d.users[c]).ended = "error"
        /\ Goodbye(s, d.users[c]).view = d.users[c].view
        /\ Goodbye(s, d.users[c]).handle = d.users[c].handle
  BY <1>7, GoodbyeEffect
<1>9. /\ UsersOK(us)
      /\ \A c \in Consumers : /\ us[c].view = d.users[c].view /\ us[c].handle = d.users[c].handle
                              /\ c \in s.consumers => us[c].ended = "error"
                              /\ c \notin s.consumers => us[c] = d.users[c]
  BY <1>5, <1>7, <1>8, SMT DEF UsersOK
<1>10. Alike(d, t)
  <2>1. t.subs = d.subs
    BY <1>6 DEF Fields
  <2>2. SubsOK(d.subs)
    BY <1>4 DEF ActorOK
  <2> QED
    BY <1>6, <2>1, <2>2 DEF Alike, Keeps, KeepsSubs, KeepsSub, SubsOK, IsSub
<1>11. Linked(t, in, S, X, {})
  BY <1>4, <1>10, AlikeLinked
<1>12. ActorOK(t)
  <2>1. /\ t.subs = d.subs /\ t.pending = d.pending /\ t.bySub = d.bySub
        /\ t.unsubscribing = d.unsubscribing /\ t.idle = d.idle /\ t.conn = d.conn
        /\ t.writable = d.writable /\ t.out = d.out /\ t.unwritable = d.unwritable
        /\ t.nextConn = d.nextConn /\ t.nextSubscription = d.nextSubscription
        /\ t.nextRequest = d.nextRequest /\ t.heartbeatAt = d.heartbeatAt /\ t.tasks = d.tasks
        /\ t.connecting = d.connecting /\ t.generation = d.generation
        /\ t.reconnectAt = d.reconnectAt
    BY <1>6, SMT DEF Fields
  <2> QED
    BY <1>4, <1>6, <1>9, <2>1 DEF ActorOK
<1>13. /\ t.users = us /\ d.users = b.users /\ t.subs = d.subs
       /\ DOMAIN t.subs = DOMAIN b.subs \ {x} /\ \A y \in DOMAIN t.subs : t.subs[y] = b.subs[y]
  BY <1>4, <1>6 DEF TornDown, Fields
<1>14. Audience(b, A) /\ Known(b, Y) /\ Whole(b) /\ Explained(b, A) /\ Orderly(b, A)
  BY <1>3 DEF Crowd
<1>15. Audience(t, A)
  <2>1. \A c \in Consumers : Newcomer(t, A, c) => Newcomer(b, A, c)
    BY <1>9, <1>13 DEF Newcomer
  <2>2. \A c \in Consumers : Newcomer(t, A, c) => us[c] = b.users[c]
    BY <1>3, <1>9, <1>13, <1>14, <2>1 DEF Audience
  <2> QED
    BY <1>13, <1>14, <2>1, <2>2 DEF Audience
<1>16. Known(t, Y)
  <2> SUFFICES ASSUME NEW y \in DOMAIN t.subs, NEW c \in t.subs[y].consumers
               PROVE  KnownTo(t.users[c], t.subs[y], y \in Y)
    BY DEF Known
  <2>1. y \in DOMAIN b.subs /\ t.subs[y] = b.subs[y] /\ y # x
    BY <1>13
  <2>2. c \in Consumers /\ c \notin s.consumers
    BY <1>3, <1>14, <2>1 DEF Audience, ActorOK, SubsOK, IsSub
  <2>3. t.users[c] = b.users[c]
    BY <1>9, <1>13, <2>2
  <2> QED
    BY <1>14, <2>1, <2>3, Zenon DEF Known
<1>17. Whole(t)
  BY <1>9, <1>13, <1>14 DEF Whole
<1>18. Explained(t, A)
  <2> SUFFICES ASSUME NEW c \in Consumers, t.users[c].handle = "open", c \notin ArrivingIn(A),
                      \A y \in DOMAIN t.subs : c \notin t.subs[y].consumers
               PROVE  t.users[c].ended # "no"
    BY DEF Explained
  <2>1. CASE c \in s.consumers
    BY <1>9, <1>13, <2>1
  <2>2. CASE c \notin s.consumers
    BY <1>9, <1>13, <1>14, <2>2 DEF Explained
  <2> QED
    BY <2>1, <2>2
<1>19. Orderly(t, A)
  BY <1>9, <1>13, <1>14, OrderlyKept
<1> QED
  BY <1>3, <1>11, <1>12, <1>13, <1>15, <1>16, <1>17, <1>18, <1>19 DEF Fine, Crowd, t

\* Whoever asks or was told does not matter when nobody is left.
LEMMA NobodyFine ==
  ASSUME NEW a, NEW in, NEW S, NEW A, NEW X, NEW Y, Fine(a, in, S, A, X, Y), DOMAIN a.subs = {}
  PROVE  Fine(a, in, S, A, {}, {})
BY DEF Fine, Linked, AllAsk, Crowd, Known

\* Changes of the subscriptions that leave alone what they listen to.
SubsKept(a, b) ==
  /\ SetSubKeeps(a, b) /\ b.bySub = a.bySub /\ DOMAIN b.subs = DOMAIN a.subs
  /\ \A x \in DOMAIN a.subs : b.subs[x].id = a.subs[x].id /\ b.subs[x].sub = a.subs[x].sub

\* A change inside the views keeps the link in order, when the parts that read the views still
\* hold.
LEMMA SubsLinked ==
  ASSUME NEW a, NEW in, NEW S, NEW X, NEW K, Linked(a, in, S, X, K),
         NEW b, SubsKept(a, b), NEW Z,
         \A x \in DOMAIN a.subs : b.subs[x].ackDue <= a.nextRequest,
         \A x \in DOMAIN a.subs : a.conn = None =>
           ~b.subs[x].retryAt /\ b.subs[x].ackDue = None,
         OneRequest(b), Listening(b), AllAsk(b, Z), Cursors(b), Traced(b, in, S)
  PROVE  Linked(b, in, S, Z, K)
<1>0. /\ Link(a) /\ Wire(a, in) /\ Ids(a, in, S) /\ Heard(a, in, S, K) /\ EndsOK(in, S)
  BY DEF Linked
<1>1. Disconnected(b) /\ Opening(b) /\ Quiet(b)
  BY <1>0 DEF SubsKept, SetSubKeeps, Link, Disconnected, Opening, Quiet, IsOpening
<1>2. Owned(b) /\ Fetching(b)
  BY <1>0 DEF SubsKept, SetSubKeeps, Link, Owned, Fetching
<1>3. Wire(b, in) /\ Heard(b, in, S, K)
  BY <1>0 DEF SubsKept, SetSubKeeps, Wire, Heard
<1>4. Ids(b, in, S)
  BY <1>0 DEF SubsKept, SetSubKeeps, Ids, Unused
<1> QED
  BY <1>0, <1>1, <1>2, <1>3, <1>4 DEF Linked, Link

-----------------------------------------------------------------------------
(* The loops over the accounts.  What a loop keeps is a condition on what it *)
(* has made of the actor after the accounts of s.                            *)

Chosen(s) == CHOOSE x \in s : TRUE

\* The end of every stream.
EndStep(e, x, b) == Terminate(b, x)
EndInv(e, s, b) == Fine(b, e.in, e.S, e.A, e.X, e.Y) /\ DOMAIN b.subs = e.D \ s
Ends == INSTANCE FoldInduction WITH Step <- EndStep, Pick <- Chosen, Inv <- EndInv

\* A report to everybody.
ReportStep(e, x, b) == Report(b, x)
ReportInv(e, s, b) ==
  /\ Fine(b, e.in, e.S, e.A, e.X, e.Y) /\ b.conn = e.conn /\ b.connecting = e.connecting
  /\ DOMAIN b.subs = e.D
Reports == INSTANCE FoldInduction WITH Step <- ReportStep, Pick <- Chosen, Inv <- ReportInv

\* The end of the socket is told to the accounts that were connected.
TellStep(e, x, c) ==
  IF c.subs[x].state = "connected"
  THEN Deliver([c EXCEPT !.subs[x].state = "disconnected"], x, "disconnected", None)
  ELSE c
TellInv(e, s, b) ==
  Fine(b, e.in, e.S, e.A, {}, e.D \ s) /\ b.conn = None /\ DOMAIN b.subs = e.D
Tells == INSTANCE FoldInduction WITH Step <- TellStep, Pick <- Chosen, Inv <- TellInv

\* The member that a fold over a set takes next belongs to the set.
LEMMA ChosenIsIn ==
  ASSUME NEW S, S # {}
  PROVE  Chosen(S) \in S
BY Zenon DEF Chosen

\* The accounts that are streamed are finitely many, so that a loop over them ends.
LEMMA FiniteAccounts ==
  ASSUME NEW a, ActorOK(a)
  PROVE  IsFiniteSet(DOMAIN a.subs)
BY FS_Subset, PrivateOrdersAssumption DEF ActorOK, SubsOK

\* Terminating every account, as an authentication failure does, keeps the invariant and leaves
\* no account.
LEMMA TerminateAllFine ==
  ASSUME NEW a, NEW in, NEW S, NEW A, NEW X, NEW Y, Fine(a, in, S, A, X, Y)
  PROVE  Fine(TerminateAll(a), in, S, A, {}, {}) /\ DOMAIN TerminateAll(a).subs = {}
<1> DEFINE D == DOMAIN a.subs
           e == [in |-> in, S |-> S, A |-> A, X |-> X, Y |-> Y, D |-> D]
           b == TerminateAll(a)
<1>1. e.in = in /\ e.S = S /\ e.A = A /\ e.X = X /\ e.Y = Y /\ e.D = D
  BY Zenon
<1> HIDE DEF e
<1>2. b = Ends!Over(e, a, D)
  BY Zenon DEF TerminateAll, FoldSet, MapThenFoldSet, Ends!Over, Ends!MapThenFoldSet, EndStep, Chosen
<1>3. IsFiniteSet(D) /\ Ends!IsFiniteSet(D)
  <2>1. IsFiniteSet(D)
    BY FiniteAccounts DEF Fine
  <2> QED
    BY <2>1, Zenon DEF IsFiniteSet, Ends!IsFiniteSet
<1>4. Ends!Picks(D)
  BY ChosenIsIn, Zenon DEF Ends!Picks
<1>5. EndInv(e, {}, a)
  BY <1>1 DEF EndInv
<1>6. ASSUME NEW s \in SUBSET D, NEW c, s # {}, EndInv(e, s \ {Chosen(s)}, c)
      PROVE  EndInv(e, s, EndStep(e, Chosen(s), c))
  <2> DEFINE x == Chosen(s)
  <2>1. x \in s
    BY <1>6, ChosenIsIn
  <2> HIDE DEF x
  <2>2. Fine(c, in, S, A, X, Y) /\ DOMAIN c.subs = D \ (s \ {x})
    BY <1>1, <1>6, Zenon DEF EndInv, x
  <2>3. x \in DOMAIN c.subs
    BY <2>1, <2>2
  <2>4. Fine(Terminate(c, x), in, S, A, X, Y) /\ DOMAIN Terminate(c, x).subs = DOMAIN c.subs \ {x}
    BY <2>2, <2>3, TerminateFine
  <2>5. DOMAIN Terminate(c, x).subs = D \ s
    BY <2>1, <2>2, <2>4
  <2> QED
    BY <1>1, <2>4, <2>5, Zenon DEF EndInv, EndStep, x
<1> HIDE DEF D
<1>7. EndInv(e, D, Ends!Over(e, a, D))
  BY <1>3, <1>4, <1>5, <1>6, Ends!FoldInduction, Zenon
<1>8. Fine(b, in, S, A, X, Y) /\ DOMAIN b.subs = {}
  <2>1. Fine(b, in, S, A, X, Y) /\ DOMAIN b.subs = D \ D
    BY <1>1, <1>2, <1>7, Zenon DEF EndInv
  <2> QED
    BY <2>1
<1> QED
  BY <1>8, NobodyFine

\* Reporting an error to every account keeps the invariant.
LEMMA ReportAllFine ==
  ASSUME NEW a, NEW in, NEW S, NEW A, NEW X, NEW Y, Fine(a, in, S, A, X, Y)
  PROVE  /\ Fine(ReportAll(a), in, S, A, X, Y) /\ ReportAll(a).conn = a.conn
         /\ DOMAIN ReportAll(a).subs = DOMAIN a.subs /\ ReportAll(a).connecting = a.connecting
<1> DEFINE D == DOMAIN a.subs
           e == [in |-> in, S |-> S, A |-> A, X |-> X, Y |-> Y, D |-> D, conn |-> a.conn,
                 connecting |-> a.connecting]
           b == ReportAll(a)
<1>1. /\ e.in = in /\ e.S = S /\ e.A = A /\ e.X = X /\ e.Y = Y /\ e.D = D /\ e.conn = a.conn
      /\ e.connecting = a.connecting
  BY Zenon
<1> HIDE DEF e
<1>2. b = Reports!Over(e, a, D)
  BY Zenon DEF ReportAll, FoldSet, MapThenFoldSet, Reports!Over, Reports!MapThenFoldSet,
     ReportStep, Chosen
<1>3. IsFiniteSet(D) /\ Reports!IsFiniteSet(D)
  <2>1. IsFiniteSet(D)
    BY FiniteAccounts DEF Fine
  <2> QED
    BY <2>1, Zenon DEF IsFiniteSet, Reports!IsFiniteSet
<1>4. Reports!Picks(D)
  BY ChosenIsIn, Zenon DEF Reports!Picks
<1>5. ReportInv(e, {}, a)
  BY <1>1 DEF ReportInv
<1>6. ASSUME NEW s \in SUBSET D, NEW c, s # {}, ReportInv(e, s \ {Chosen(s)}, c)
      PROVE  ReportInv(e, s, ReportStep(e, Chosen(s), c))
  <2> DEFINE x == Chosen(s)
  <2>1. x \in s
    BY <1>6, ChosenIsIn
  <2> HIDE DEF x
  <2>2. /\ Fine(c, in, S, A, X, Y) /\ c.conn = a.conn /\ DOMAIN c.subs = D
        /\ c.connecting = a.connecting
    BY <1>1, <1>6, Zenon DEF ReportInv
  <2>3. Fine(Report(c, x), in, S, A, X, Y) /\ DeliverEffect(c, Report(c, x), x, "error", None)
    BY <2>1, <2>2, ReportFine
  <2>4. /\ Report(c, x).conn = c.conn /\ DOMAIN Report(c, x).subs = DOMAIN c.subs
        /\ Report(c, x).connecting = c.connecting
    BY <2>3, DeliverAlike, AlikeFields
  <2> QED
    BY <1>1, <2>2, <2>3, <2>4, Zenon DEF ReportInv, ReportStep, x
<1> HIDE DEF D
<1>7. ReportInv(e, D, Reports!Over(e, a, D))
  BY <1>3, <1>4, <1>5, <1>6, Reports!FoldInduction, Zenon
<1> QED
  BY <1>1, <1>2, <1>7, Zenon DEF ReportInv, D

-----------------------------------------------------------------------------
(* One field of the actor *)

\* b has v in its field f, and is a in the others.
SetField(a, b, f, v) ==
  /\ IsMap(b, Fields) /\ b[f] = v /\ \A g \in Fields \ {f} : b[g] = a[g]

\* A change of one field leaves each other field as it was.
LEMMA SetFieldSame ==
  ASSUME NEW a, NEW b, NEW f, NEW v, SetField(a, b, f, v)
  PROVE  /\ f # "subs" => b.subs = a.subs
         /\ f # "pending" => b.pending = a.pending
         /\ f # "bySub" => b.bySub = a.bySub
         /\ f # "unsubscribing" => b.unsubscribing = a.unsubscribing
         /\ f # "idle" => b.idle = a.idle
         /\ f # "conn" => b.conn = a.conn
         /\ f # "writable" => b.writable = a.writable
         /\ f # "out" => b.out = a.out
         /\ f # "unwritable" => b.unwritable = a.unwritable
         /\ f # "connecting" => b.connecting = a.connecting
         /\ f # "generation" => b.generation = a.generation
         /\ f # "nextConn" => b.nextConn = a.nextConn
         /\ f # "nextSubscription" => b.nextSubscription = a.nextSubscription
         /\ f # "nextRequest" => b.nextRequest = a.nextRequest
         /\ f # "reconnectAt" => b.reconnectAt = a.reconnectAt
         /\ f # "heartbeatAt" => b.heartbeatAt = a.heartbeatAt
         /\ f # "tasks" => b.tasks = a.tasks
         /\ f # "users" => b.users = a.users
BY SMT DEF SetField, Fields

\* An assignment to one field of the actor is a change of that field alone.
LEMMA SetFields ==
  ASSUME NEW a, IsMap(a, Fields), NEW v
  PROVE  /\ SetField(a, [a EXCEPT !.reconnectAt = v], "reconnectAt", v)
         /\ SetField(a, [a EXCEPT !.heartbeatAt = v], "heartbeatAt", v)
         /\ SetField(a, [a EXCEPT !.unwritable = v], "unwritable", v)
         /\ SetField(a, [a EXCEPT !.idle = v], "idle", v)
         /\ SetField(a, [a EXCEPT !.connecting = v], "connecting", v)
         /\ SetField(a, [a EXCEPT !.tasks = v], "tasks", v)
         /\ SetField(a, [a EXCEPT !.users = v], "users", v)
         /\ SetField(a, [a EXCEPT !.unsubscribing = v], "unsubscribing", v)
         /\ SetField(a, [a EXCEPT !.subs = v], "subs", v)
         /\ SetField(a, [a EXCEPT !.out = v], "out", v)
<1>1. SetField(a, [a EXCEPT !.reconnectAt = v], "reconnectAt", v)
  BY Zenon DEF SetField, IsMap, Fields
<1>2. SetField(a, [a EXCEPT !.heartbeatAt = v], "heartbeatAt", v)
  BY Zenon DEF SetField, IsMap, Fields
<1>3. SetField(a, [a EXCEPT !.unwritable = v], "unwritable", v)
  BY Zenon DEF SetField, IsMap, Fields
<1>4. SetField(a, [a EXCEPT !.idle = v], "idle", v)
  BY Zenon DEF SetField, IsMap, Fields
<1>5. SetField(a, [a EXCEPT !.connecting = v], "connecting", v)
  BY Zenon DEF SetField, IsMap, Fields
<1>6. SetField(a, [a EXCEPT !.tasks = v], "tasks", v)
  BY Zenon DEF SetField, IsMap, Fields
<1>7. SetField(a, [a EXCEPT !.users = v], "users", v)
  BY Zenon DEF SetField, IsMap, Fields
<1>8. SetField(a, [a EXCEPT !.unsubscribing = v], "unsubscribing", v)
  BY Zenon DEF SetField, IsMap, Fields
<1>9. SetField(a, [a EXCEPT !.subs = v], "subs", v)
  BY Zenon DEF SetField, IsMap, Fields
<1>10. SetField(a, [a EXCEPT !.out = v], "out", v)
  BY Zenon DEF SetField, IsMap, Fields
<1> QED
  BY <1>1, <1>2, <1>3, <1>4, <1>5, <1>6, <1>7, <1>8, <1>9, <1>10

\* Marks that no part of the invariant reads.
LEMMA MarkFine ==
  ASSUME NEW a, NEW in, NEW S, NEW A, NEW X, NEW Y, Fine(a, in, S, A, X, Y), NEW b, NEW v,
         \/ SetField(a, b, "idle", v) /\ v \in SUBSET Accounts
         \/ SetField(a, b, "unwritable", v) /\ v \in Nat
  PROVE  Fine(b, in, S, A, X, Y)
<1>0. ActorOK(a) /\ Linked(a, in, S, X, {}) /\ Crowd(a, A, Y)
  BY DEF Fine
<1>1. IsMap(b, Fields) /\ b.idle \in SUBSET Accounts /\ b.unwritable \in Nat
  BY <1>0, SetFieldSame DEF SetField, ActorOK
<1>2. /\ b.conn = a.conn /\ b.writable = a.writable /\ b.out = a.out
      /\ b.heartbeatAt = a.heartbeatAt /\ b.bySub = a.bySub /\ b.pending = a.pending
      /\ b.connecting = a.connecting /\ b.generation = a.generation
      /\ b.nextSubscription = a.nextSubscription /\ b.nextRequest = a.nextRequest
      /\ b.reconnectAt = a.reconnectAt /\ b.subs = a.subs /\ b.users = a.users
      /\ b.unsubscribing = a.unsubscribing /\ b.nextConn = a.nextConn /\ b.tasks = a.tasks
  BY SetFieldSame
<1>3. ActorOK(b)
  BY <1>0, <1>1, <1>2 DEF ActorOK
<1>4. Alike(a, b)
  <2>1. \A f \in Fields \ {"users", "idle", "subs", "unwritable"} : b[f] = a[f]
    BY DEF SetField
  <2>2. KeepsSubs(a, b, {"consumers", "retried"})
    BY <1>0, <1>2 DEF KeepsSubs, KeepsSub, ActorOK, SubsOK, IsSub
  <2> QED
    BY <1>1, <2>1, <2>2 DEF Alike, Keeps
<1>5. Linked(b, in, S, X, {})
  BY <1>0, <1>4, AlikeLinked
<1>6. Crowd(b, A, Y)
  BY <1>0, <1>2, SameSubs, CrowdKept
<1> QED
  BY <1>3, <1>5, <1>6 DEF Fine

-----------------------------------------------------------------------------
(* on_closed *)

\* schedule_reconnect keeps the invariant; the timer it sets asks on behalf of every account.
LEMMA ScheduleReconnectFine ==
  ASSUME NEW a, NEW in, NEW S, NEW A, NEW X, NEW Y, Fine(a, in, S, A, X, Y),
         a.conn = None, a.connecting = FALSE, DOMAIN a.subs # {}
  PROVE  /\ Fine(ScheduleReconnect(a), in, S, A, {}, Y)
         /\ ScheduleReconnect(a).conn = None /\ ScheduleReconnect(a).subs = a.subs
<1> DEFINE b == ScheduleReconnect(a)
<1>0. /\ Link(a) /\ Wire(a, in) /\ AllAsk(a, X) /\ Ids(a, in, S) /\ Heard(a, in, S, {})
      /\ Cursors(a) /\ Traced(a, in, S) /\ EndsOK(in, S) /\ ActorOK(a) /\ Crowd(a, A, Y)
  BY DEF Fine, Linked
<1>1. SetField(a, b, "reconnectAt", TRUE)
  BY <1>0, SetFields DEF ScheduleReconnect, ActorOK
<1> HIDE DEF b
<1>2. /\ b.conn = a.conn /\ b.writable = a.writable /\ b.out = a.out
      /\ b.heartbeatAt = a.heartbeatAt /\ b.bySub = a.bySub /\ b.pending = a.pending
      /\ b.connecting = a.connecting /\ b.generation = a.generation
      /\ b.nextSubscription = a.nextSubscription /\ b.nextRequest = a.nextRequest
      /\ b.subs = a.subs /\ b.users = a.users /\ b.idle = a.idle /\ b.unwritable = a.unwritable
      /\ b.unsubscribing = a.unsubscribing /\ b.nextConn = a.nextConn /\ b.tasks = a.tasks
      /\ b.reconnectAt = TRUE /\ IsMap(b, Fields)
  BY <1>1, SetFieldSame DEF SetField
<1>3. ActorOK(b)
  BY <1>0, <1>2 DEF ActorOK
<1>4. Disconnected(b) /\ Opening(b) /\ Quiet(b)
  BY <1>0, <1>2 DEF Link, Disconnected, Opening, Quiet, IsOpening
<1>5. Owned(b) /\ OneRequest(b) /\ Fetching(b) /\ Listening(b)
  <2>1. Owned(b)
    BY <1>0, <1>2 DEF Link, Owned
  <2>2. OneRequest(b)
    BY <1>0, <1>2 DEF Link, OneRequest, Asks
  <2>3. Fetching(b)
    BY <1>0, <1>2 DEF Link, Fetching
  <2>4. Listening(b)
    BY <1>0, <1>2 DEF Link, Listening
  <2> QED
    BY <2>1, <2>2, <2>3, <2>4
<1>6. Wire(b, in) /\ Heard(b, in, S, {}) /\ Cursors(b)
  <2>1. Wire(b, in)
    BY <1>0, <1>2 DEF Wire
  <2>2. Heard(b, in, S, {})
    BY <1>0, <1>2 DEF Heard
  <2>3. ViewsAt(b)
    BY <1>0, <1>2 DEF Cursors, ViewsAt
  <2>4. AsksAt(b)
    BY <1>0, <1>2 DEF Wire, Cursors, AsksAt, Asks
  <2>5. SentAt(b)
    BY <1>0, <1>2 DEF Cursors, SentAt
  <2> QED
    BY <2>1, <2>2, <2>3, <2>4, <2>5 DEF Cursors
<1>7. AllAsk(b, {})
  BY <1>2 DEF AllAsk, IsAsking
<1>8. Ids(b, in, S)
  BY <1>0, <1>2 DEF Ids, Unused
<1>9. Traced(b, in, S)
  BY <1>0, <1>2, TracedKept
<1>10. Crowd(b, A, Y)
  BY <1>0, <1>2, SameSubs, CrowdKept
<1> QED
  BY <1>0, <1>2, <1>3, <1>4, <1>5, <1>6, <1>7, <1>8, <1>9, <1>10 DEF Fine, Linked, Link, b

\* A subscription without a socket changes its state.
LEMMA StateLinked ==
  ASSUME NEW a, ActorOK(a), NEW in, NEW S, NEW X, NEW K, Linked(a, in, S, X, K),
         NEW x \in DOMAIN a.subs, a.conn = None, NEW t, KeepsSub(a.subs[x], t, {"state"}),
         NEW b, SetSub(a, b, x, t, {})
  PROVE  Linked(b, in, S, X, K)
<1>0. /\ Link(a) /\ AllAsk(a, X) /\ Cursors(a) /\ Traced(a, in, S)
  BY DEF Linked
<1>1. /\ t.id = a.subs[x].id /\ t.sub = a.subs[x].sub /\ t.seq = a.subs[x].seq
      /\ t.cursor = a.subs[x].cursor /\ t.staged = a.subs[x].staged
      /\ t.orders = a.subs[x].orders /\ t.stale = a.subs[x].stale
      /\ t.ready = a.subs[x].ready /\ t.retryAt = a.subs[x].retryAt
      /\ t.ackDue = a.subs[x].ackDue
  <2>1. \A f \in SubFields \ {"state"} : t[f] = a.subs[x][f]
    BY DEF KeepsSub
  <2> QED
    BY <2>1, SMT DEF SubFields
<1>2. SetSubKeeps(a, b) /\ b.bySub = a.bySub /\ DOMAIN b.subs = DOMAIN a.subs
      /\ b.subs[x] = t /\ \A y \in DOMAIN a.subs : y # x => b.subs[y] = a.subs[y]
  <2>1. SetSubKeeps(a, b) /\ b.bySub = a.bySub
    BY SetSubFields
  <2> QED
    BY <2>1 DEF SetSub
<1>3. \A y \in DOMAIN a.subs :
        /\ b.subs[y].id = a.subs[y].id /\ b.subs[y].sub = a.subs[y].sub
        /\ b.subs[y].seq = a.subs[y].seq /\ b.subs[y].cursor = a.subs[y].cursor
        /\ b.subs[y].staged = a.subs[y].staged /\ b.subs[y].orders = a.subs[y].orders
        /\ b.subs[y].ready = a.subs[y].ready /\ b.subs[y].retryAt = a.subs[y].retryAt
        /\ b.subs[y].ackDue = a.subs[y].ackDue
  BY <1>1, <1>2
<1>4. SubsKept(a, b)
  BY <1>2, <1>3 DEF SubsKept
<1>5. OneRequest(b) /\ AllAsk(b, X)
  BY <1>0, <1>2, <1>3 DEF SetSubKeeps, Link, OneRequest, Asks, AllAsk, IsAsking, IsOpening
<1>6. Listening(b)
  BY <1>0, <1>2, <1>3 DEF SetSubKeeps, Link, Listening, Disconnected
<1>7. Cursors(b)
  <2>1. ViewsAt(b)
    BY <1>0, <1>2, <1>3 DEF SetSubKeeps, Cursors, Link, ViewsAt
  <2>2. AsksAt(b)
    BY <1>0, <1>2, <1>3 DEF SetSubKeeps, Cursors, Link, Owned, AsksAt, Asks
  <2>3. SentAt(b)
    BY <1>0, <1>2, <1>3 DEF SetSubKeeps, Cursors, Link, SentAt
  <2> QED
    BY <2>1, <2>2, <2>3 DEF Cursors
<1>8. Traced(b, in, S)
  BY <1>0, <1>2, <1>3, TracedKept DEF SetSubKeeps, Link, Owned
<1>9. \A y \in DOMAIN a.subs : b.subs[y].ackDue <= a.nextRequest
  BY <1>0, <1>3 DEF Link, Owned
<1>10. \A y \in DOMAIN a.subs : ~b.subs[y].retryAt /\ b.subs[y].ackDue = None
  BY <1>0, <1>3 DEF Link, Disconnected
<1> QED
  BY <1>4, <1>5, <1>6, <1>7, <1>8, <1>9, <1>10, SubsLinked

\* on_closed tells one account that the socket is gone: that account's consumers are no longer
\* behind.
LEMMA TellFine ==
  ASSUME NEW a, NEW in, NEW S, NEW A, NEW Y, Fine(a, in, S, A, {}, Y), a.conn = None,
         NEW x \in DOMAIN a.subs, NEW e
  PROVE  LET b == TellStep(e, x, a)
         IN  Fine(b, in, S, A, {}, Y \ {x}) /\ b.conn = None /\ DOMAIN b.subs = DOMAIN a.subs
<1> DEFINE s == a.subs[x]
           t == [s EXCEPT !.state = "disconnected"]
           d == [a EXCEPT !.subs[x] = t]
           b == Deliver(d, x, "disconnected", None)
<1>0. /\ ActorOK(a) /\ Linked(a, in, S, {}, {}) /\ Crowd(a, A, Y) /\ ~s.ready /\ IsSub(s)
  BY DEF Fine, Linked, Link, Listening, Disconnected, ActorOK, SubsOK
<1>1. \A y \in DOMAIN a.subs : \A c \in a.subs[y].consumers : KnownTo(a.users[c], a.subs[y], y \in Y)
  BY <1>0, Zenon DEF Crowd, Known
<1>2. CASE s.state # "connected"
  <2>1. TellStep(e, x, a) = a
    BY <1>2, Zenon DEF TellStep
  <2>2. ASSUME NEW c \in s.consumers PROVE Knows(a.users[c], s)
    <3>1. c \in Consumers
      BY <1>0 DEF ActorOK, SubsOK, IsSub
    <3>2. a.users[c].ready \in BOOLEAN /\ s.ready \in BOOLEAN /\ a.users[c].connected \in BOOLEAN
      BY <1>0, <3>1 DEF ActorOK, UsersOK, IsUser, IsSub
    <3>3. Knows(a.users[c], s) \/ KnewBefore(a.users[c], s)
      BY <1>1 DEF KnownTo
    <3> QED
      BY <1>0, <1>2, <3>2, <3>3 DEF Knows, KnewBefore
  <2>3. Known(a, Y \ {x})
    <3> SUFFICES ASSUME NEW y \in DOMAIN a.subs, NEW c \in a.subs[y].consumers
                 PROVE  KnownTo(a.users[c], a.subs[y], y \in Y \ {x})
      BY DEF Known
    <3>1. CASE y = x
      BY <2>2, <3>1 DEF KnownTo
    <3>2. CASE y # x
      <4>1. y \in Y \ {x} <=> y \in Y
        BY <3>2
      <4> QED
        BY <1>1, <4>1 DEF KnownTo
    <3> QED
      BY <3>1, <3>2
  <2> QED
    BY <1>0, <2>1, <2>3 DEF Fine, Crowd
<1>3. CASE s.state = "connected"
  <2>1. TellStep(e, x, a) = b
    <3>1. [a EXCEPT !.subs[x].state = "disconnected"] = d
      BY Zenon
    <3> HIDE DEF d
    <3> QED
      BY <1>3, <3>1, Zenon DEF TellStep
  <2>2. /\ IsMap(t, SubFields) /\ t.state = "disconnected"
        /\ \A f \in SubFields \ {"state"} : t[f] = s[f]
    <3>1. IsMap(s, SubFields)
      BY <1>0 DEF IsSub
    <3> HIDE DEF s
    <3> QED
      BY <3>1, Zenon DEF IsMap, SubFields
  <2>3. SetSub(a, d, x, t, {})
    BY <1>0, SetSubEffect
  <2> HIDE DEF t, d
  <2>4. KeepsSub(s, t, {"state"})
    BY <2>2 DEF KeepsSub
  <2>5. /\ t.id = s.id /\ t.consumers = s.consumers /\ t.sub = s.sub /\ t.seq = s.seq
        /\ t.cursor = s.cursor /\ t.staged = s.staged /\ t.orders = s.orders /\ t.stale = s.stale
        /\ t.ready = s.ready /\ t.retried = s.retried /\ t.retryAt = s.retryAt
        /\ t.confirmed = s.confirmed /\ t.ackDue = s.ackDue
    BY <2>2, SMT DEF SubFields
  <2>6. IsSub(t)
    <3> HIDE DEF s
    <3> QED
      BY <1>0, <2>2, <2>5 DEF IsSub
  <2>7. SetSubKeeps(a, d) /\ d.bySub = a.bySub /\ DOMAIN d.subs = DOMAIN a.subs
        /\ d.subs[x] = t /\ \A y \in DOMAIN a.subs : y # x => d.subs[y] = a.subs[y]
    BY <2>3, SetSubFields DEF SetSub
  <2>8. ActorOK(d)
    <3>1. BySubOK(d.bySub)
      BY <1>0, <2>7 DEF ActorOK
    <3> QED
      BY <1>0, <2>3, <2>6, <3>1, SetSubOK
  <2>9. Linked(d, in, S, {}, {})
    BY <1>0, <2>3, <2>4, StateLinked
  <2>10. /\ d.users = a.users /\ d.conn = None /\ x \in DOMAIN d.subs
    BY <2>7 DEF SetSubKeeps
  <2>11. DeliverEffect(d, b, x, "disconnected", None) /\ ActorOK(b)
    BY <2>8, <2>10, DeliverLemma DEF Events, None
  <2>12. Audience(d, A) /\ Whole(d) /\ Explained(d, A) /\ Orderly(d, A)
    BY OrderlyKept, <1>0, <2>5, <2>7, <2>10 DEF Crowd, Audience, Newcomer, Whole, Explained
  <2>13. ASSUME NEW y \in DOMAIN d.subs, y # x, NEW c \in d.subs[y].consumers
         PROVE  KnownTo(d.users[c], d.subs[y], y \in Y \ {x})
    <3>1. y \in Y \ {x} <=> y \in Y
      BY <2>13
    <3>2. KnownTo(a.users[c], a.subs[y], y \in Y) /\ d.subs[y] = a.subs[y]
      BY <1>1, <2>7, <2>13
    <3> QED
      BY <2>10, <3>1, <3>2 DEF KnownTo
  <2>14. ASSUME NEW c \in d.subs[x].consumers
         PROVE  KnowsThen(d.users[c], "disconnected", None, d.subs[x], x \in Y \ {x})
    <3> DEFINE u == a.users[c]
               v == Told(u, "disconnected", None)
    <3>1. c \in Consumers /\ c \in s.consumers /\ d.users[c] = u
      BY <1>0, <2>5, <2>7, <2>10, <2>14 DEF ActorOK, SubsOK, IsSub
    <3>2. IsUser(u)
      BY <1>0, <3>1 DEF ActorOK, UsersOK
    <3>3. /\ v.connected = FALSE /\ v.ready = FALSE /\ v.view = u.view /\ v.stale = u.stale
      <4> HIDE DEF u
      <4>1. v = [u EXCEPT !.connected = FALSE, !.ready = FALSE]
        BY Zenon DEF Told
      <4> QED
        BY <3>2, <4>1, Zenon DEF IsUser, IsMap, UserFields
    <3>4. u.view = s.orders /\ u.stale = s.stale /\ u.view # Torn
      <4>1. Knows(u, s) \/ KnewBefore(u, s)
        BY <1>1, <3>1 DEF KnownTo
      <4>2. u.view # Torn
        BY <1>0, <3>1 DEF Crowd, Whole
      <4> QED
        BY <4>1, <4>2 DEF Knows, KnewBefore
    <3>5. s.ready = FALSE
      BY <1>0 DEF IsSub
    <3> HIDE DEF u, v, s
    <3>6. Knows(v, t) /\ v.view # Torn
      BY <2>2, <2>5, <3>3, <3>4, <3>5 DEF Knows
    <3> QED
      BY <2>7, <3>1, <3>6 DEF KnowsThen, KnownTo, v
  <2>15. Crowd(b, A, Y \ {x})
    BY <2>8, <2>10, <2>11, <2>12, <2>13, <2>14, DeliverCrowd DEF Events, None
  <2>16. Linked(b, in, S, {}, {}) /\ b.conn = None /\ DOMAIN b.subs = DOMAIN a.subs
    BY <2>7, <2>9, <2>10, <2>11, DeliverAlike, AlikeLinked, AlikeFields
  <2> QED
    BY <2>1, <2>11, <2>15, <2>16 DEF Fine
<1> QED
  BY <1>2, <1>3

\* After on_closed told every account no consumer is behind.
LEMMA TellAllFine ==
  ASSUME NEW a, NEW in, NEW S, NEW A, Fine(a, in, S, A, {}, DOMAIN a.subs), a.conn = None
  PROVE  LET b == Tells!Over([in |-> in, S |-> S, A |-> A, D |-> DOMAIN a.subs], a, DOMAIN a.subs)
         IN  Fine(b, in, S, A, {}, {}) /\ b.conn = None
<1> DEFINE D == DOMAIN a.subs
           e == [in |-> in, S |-> S, A |-> A, D |-> D]
           b == Tells!Over(e, a, D)
<1>1. e.in = in /\ e.S = S /\ e.A = A /\ e.D = D
  BY Zenon
<1> HIDE DEF e
<1>3. IsFiniteSet(D) /\ Tells!IsFiniteSet(D)
  <2>1. IsFiniteSet(D)
    BY FiniteAccounts DEF Fine
  <2> QED
    BY <2>1, Zenon DEF IsFiniteSet, Tells!IsFiniteSet
<1>4. Tells!Picks(D)
  BY ChosenIsIn, Zenon DEF Tells!Picks
<1>5. TellInv(e, {}, a)
  <2>1. D \ {} = D
    OBVIOUS
  <2> QED
    BY <1>1, <2>1, Zenon DEF TellInv
<1>6. ASSUME NEW s \in SUBSET D, NEW c, s # {}, TellInv(e, s \ {Chosen(s)}, c)
      PROVE  TellInv(e, s, TellStep(e, Chosen(s), c))
  <2> DEFINE x == Chosen(s)
             Y == D \ (s \ {x})
  <2>1. x \in s
    BY <1>6, ChosenIsIn
  <2> HIDE DEF x
  <2>2. Fine(c, in, S, A, {}, Y) /\ c.conn = None /\ DOMAIN c.subs = D
    BY <1>1, <1>6, Zenon DEF TellInv, x
  <2>3. x \in DOMAIN c.subs
    BY <2>1, <2>2
  <2>4. Y \ {x} = D \ s
    BY <2>1
  <2> HIDE DEF Y
  <2> DEFINE d == TellStep(e, x, c)
  <2>5. Fine(d, in, S, A, {}, Y \ {x}) /\ d.conn = None /\ DOMAIN d.subs = DOMAIN c.subs
    BY <2>2, <2>3, TellFine
  <2> HIDE DEF d
  <2> QED
    BY <1>1, <2>2, <2>4, <2>5, Zenon DEF TellInv, x, d
<1>7. TellInv(e, D, Tells!Over(e, a, D))
  <2> HIDE DEF D
  <2> QED
    BY <1>3, <1>4, <1>5, <1>6, Tells!FoldInduction, Zenon
<1>8. Fine(b, in, S, A, {}, D \ D) /\ b.conn = None
  BY <1>1, <1>7, Zenon DEF TellInv
<1>9. D \ D = {}
  OBVIOUS
<1> QED
  BY <1>8, <1>9 DEF e

\* on_closed keeps the invariant, whether the close is final or the stream reconnects.
LEMMA OnClosedFine ==
  ASSUME NEW a, NEW in, NEW S, NEW A, NEW X, NEW Y, Fine(a, in, S, A, X, Y), a.conn # None,
         NEW terminal \in BOOLEAN
  PROVE  Fine(OnClosed(a, terminal), in, S, A, {}, {})
<1> DEFINE b == Detach(a)
           D == DOMAIN b.subs
           r == ScheduleReconnect(b)
           o == OnClosed(a, terminal)
<1>1. Fine(b, in, S, A, D, D) /\ b.conn = None /\ b.connecting = FALSE
  <2>1. Detached(a, b) /\ DetachKeeps(a, b)
    BY DetachEffect DEF Fine
  <2>3. a.connecting = FALSE
    BY DEF Fine, Linked, Link, Opening, ActorOK
  <2>2. Fine(b, in, S, A, DOMAIN a.subs, DOMAIN a.subs)
    BY DetachFine
  <2> HIDE DEF b
  <2> QED
    BY <2>1, <2>2, <2>3 DEF Detached, DetachKeeps
<1>2. o = IF D = {} THEN b ELSE IF terminal THEN TerminateAll(b)
          ELSE Tells!Over([in |-> in, S |-> S, A |-> A, D |-> D], r, D)
  BY Zenon DEF OnClosed, FoldSet, MapThenFoldSet, Tells!Over, Tells!MapThenFoldSet, TellStep, Chosen
<1> HIDE DEF b, o
<1>3. CASE D = {}
  <2>1. o = b
    BY <1>2, <1>3, Zenon
  <2> QED
    BY <1>1, <1>3, <2>1, NobodyFine DEF o
<1>4. CASE D # {} /\ terminal
  <2>1. o = TerminateAll(b)
    BY <1>2, <1>4, Zenon
  <2> QED
    BY <1>1, <2>1, TerminateAllFine DEF o
<1>5. CASE D # {} /\ ~terminal
  <2>1. o = Tells!Over([in |-> in, S |-> S, A |-> A, D |-> D], r, D)
    BY <1>2, <1>5, Zenon
  <2>2. Fine(r, in, S, A, {}, D) /\ r.conn = None /\ DOMAIN r.subs = D
    BY <1>1, <1>5, ScheduleReconnectFine
  <2> HIDE DEF r, D
  <2> QED
    BY <2>1, <2>2, TellAllFine DEF o
<1> QED
  BY <1>3, <1>4, <1>5

-----------------------------------------------------------------------------
(* finish_event *)

\* Nobody notices the end of a stream that nobody reads.
LEMMA TornDownCrowd ==
  ASSUME NEW a, NEW b, NEW x, TornDown(a, b, x), NEW A, NEW Y, Crowd(a, A, Y),
         x \in DOMAIN a.subs => a.subs[x].consumers = {}
  PROVE  Crowd(b, A, Y)
<1>1. Audience(b, A)
  BY DEF TornDown, Crowd, Audience, Newcomer
<1>2. Known(b, Y)
  <2> SUFFICES ASSUME NEW y \in DOMAIN b.subs, NEW c \in b.subs[y].consumers
               PROVE  KnownTo(b.users[c], b.subs[y], y \in Y)
    BY DEF Known
  <2>1. y \in DOMAIN a.subs /\ b.subs[y] = a.subs[y] /\ b.users = a.users
    BY DEF TornDown
  <2>2. KnownTo(a.users[c], a.subs[y], y \in Y)
    BY <2>1, Zenon DEF Crowd, Known
  <2> QED
    BY <2>1, <2>2
<1>3. Whole(b)
  BY DEF TornDown, Crowd, Whole
<1>4. Explained(b, A)
  <2> SUFFICES ASSUME NEW c \in Consumers, b.users[c].handle = "open", c \notin ArrivingIn(A),
                      \A y \in DOMAIN b.subs : c \notin b.subs[y].consumers
               PROVE  b.users[c].ended # "no"
    BY DEF Explained
  <2>1. \A y \in DOMAIN a.subs : c \notin a.subs[y].consumers
    BY DEF TornDown
  <2> QED
    BY <2>1 DEF TornDown, Crowd, Explained
<1>5. Orderly(b, A)
  BY OrderlyKept DEF TornDown, Crowd
<1> QED
  BY <1>1, <1>2, <1>3, <1>4, <1>5 DEF Crowd

\* The streams that nobody reads end.
EmptyStep(e, x, c) == IF IsIdle(c, x) THEN Teardown(c, x) ELSE c
EmptyInv(e, s, b) == Fine(b, e.in, e.S, e.A, {}, {})
Empties == INSTANCE FoldInduction WITH Step <- EmptyStep, Pick <- Chosen, Inv <- EmptyInv

\* Tearing down an account that lost its last consumer keeps the invariant.
LEMMA TeardownIdleFine ==
  ASSUME NEW a, NEW in, NEW S, NEW A, Fine(a, in, S, A, {}, {}), NEW x, NEW e
  PROVE  Fine(EmptyStep(e, x, a), in, S, A, {}, {})
<1>1. CASE ~IsIdle(a, x)
  <2>1. EmptyStep(e, x, a) = a
    BY <1>1, Zenon DEF EmptyStep
  <2> QED
    BY <2>1
<1>2. CASE IsIdle(a, x)
  <2>1. EmptyStep(e, x, a) = Teardown(a, x)
    BY <1>2, Zenon DEF EmptyStep
  <2>2. x \in DOMAIN a.subs /\ a.subs[x].consumers = {}
    BY <1>2 DEF IsIdle
  <2>3. /\ ActorOK(Teardown(a, x)) /\ Linked(Teardown(a, x), in, S, {}, {})
        /\ TornDown(a, Teardown(a, x), x)
    BY <2>2, TeardownLinked DEF Fine
  <2>4. Crowd(Teardown(a, x), A, {})
    BY <2>2, <2>3, TornDownCrowd DEF Fine
  <2> QED
    BY <2>1, <2>3, <2>4 DEF Fine
<1> QED
  BY <1>1, <1>2

\* finish_event, which ends every handler, keeps the invariant.
LEMMA FinishEventFine ==
  ASSUME NEW a, NEW in, NEW S, NEW A, Fine(a, in, S, A, {}, {})
  PROVE  Fine(FinishEvent(a), in, S, A, {}, {})
<1> DEFINE w == [a EXCEPT !.unwritable = None]
           b == IF a.unwritable = None THEN a
                ELSE IF a.unwritable # a.conn THEN w ELSE OnClosed(w, FALSE)
           d == [b EXCEPT !.idle = {}]
           e == [in |-> in, S |-> S, A |-> A]
           I == b.idle
           f == FinishEvent(a)
<1>1. f = Empties!Over(e, d, I)
  BY Zenon DEF FinishEvent, FoldSet, MapThenFoldSet, Empties!Over, Empties!MapThenFoldSet,
     EmptyStep, Chosen
<1>12. SetField(a, w, "unwritable", None)
  BY SetFields DEF Fine, ActorOK
<1>2. Fine(w, in, S, A, {}, {})
  BY <1>12, MarkFine DEF None
<1>11. w.conn = a.conn
  <2> HIDE DEF w
  <2> QED
    BY <1>12, SetFieldSame
<1> HIDE DEF w
<1>3. Fine(b, in, S, A, {}, {})
  <2>1. w.conn # None => Fine(OnClosed(w, FALSE), in, S, A, {}, {})
    BY <1>2, OnClosedFine
  <2>2. a.unwritable # None /\ a.unwritable = a.conn => Fine(OnClosed(w, FALSE), in, S, A, {}, {})
    BY <1>11, <2>1
  <2> QED
    BY <1>2, <2>2, Zenon
<1> HIDE DEF b
<1>4. Fine(d, in, S, A, {}, {})
  <2>1. SetField(b, d, "idle", {})
    BY <1>3, SetFields DEF Fine, ActorOK
  <2> HIDE DEF d
  <2> QED
    BY <1>3, <2>1, MarkFine
<1>5. e.in = in /\ e.S = S /\ e.A = A
  BY Zenon
<1> HIDE DEF d, e, f
<1>6. IsFiniteSet(I) /\ Empties!IsFiniteSet(I)
  <2>1. I \in SUBSET Accounts
    BY <1>3 DEF Fine, ActorOK
  <2>2. IsFiniteSet(I)
    BY <2>1, FS_Subset, PrivateOrdersAssumption
  <2> QED
    BY <2>2, Zenon DEF IsFiniteSet, Empties!IsFiniteSet
<1>7. Empties!Picks(I)
  BY ChosenIsIn, Zenon DEF Empties!Picks
<1>8. EmptyInv(e, {}, d)
  BY <1>4, <1>5 DEF EmptyInv
<1>9. ASSUME NEW s \in SUBSET I, NEW c, s # {}, EmptyInv(e, s \ {Chosen(s)}, c)
      PROVE  EmptyInv(e, s, EmptyStep(e, Chosen(s), c))
  BY <1>5, <1>9, TeardownIdleFine, Zenon DEF EmptyInv
<1> HIDE DEF I
<1>10. EmptyInv(e, I, Empties!Over(e, d, I))
  BY <1>6, <1>7, <1>8, <1>9, Empties!FoldInduction, Zenon
<1> QED
  BY <1>1, <1>5, <1>10, Zenon DEF EmptyInv, f

-----------------------------------------------------------------------------
(* A socket is opened *)

Opened(a, b) ==
  /\ IsMap(b, Fields) /\ b.connecting = TRUE /\ b.tasks = a.tasks \cup {OpenTask(a.generation)}
  /\ b.conn = a.conn /\ b.writable = a.writable /\ b.out = a.out
  /\ b.heartbeatAt = a.heartbeatAt /\ b.bySub = a.bySub /\ b.pending = a.pending
  /\ b.generation = a.generation /\ b.nextConn = a.nextConn
  /\ b.nextSubscription = a.nextSubscription /\ b.nextRequest = a.nextRequest
  /\ b.subs = a.subs /\ b.users = a.users /\ b.idle = a.idle /\ b.unwritable = a.unwritable
  /\ b.unsubscribing = a.unsubscribing /\ b.reconnectAt = a.reconnectAt

\* open starts the task that connects, of a new generation, and notes that it runs.
LEMMA OpenEffect ==
  ASSUME NEW a, ActorOK(a)
  PROVE  Opened(a, Open(a))
<1> DEFINE t == OpenTask(a.generation)
           c == [a EXCEPT !.connecting = TRUE]
           T == c.tasks \cup {t}
           b == Open(a)
<1>1. b = [c EXCEPT !.tasks = T]
  BY Zenon DEF Open, Spawn, OpenTask
<1>2. SetField(a, c, "connecting", TRUE)
  BY SetFields DEF ActorOK
<1> HIDE DEF c, T, t
<1>3. SetField(c, b, "tasks", T)
  <2>1. IsMap(c, Fields)
    BY <1>2 DEF SetField
  <2>2. SetField(c, [c EXCEPT !.tasks = T], "tasks", T)
    BY <2>1, SetFields
  <2> QED
    BY <1>1, <2>2, Zenon
<1> HIDE DEF b
<1>4. c.connecting = TRUE /\ b.tasks = T /\ IsMap(b, Fields)
  BY <1>2, <1>3 DEF SetField
<1>50. SetField(a, c, "connecting", c.connecting)
  BY <1>2, Zenon DEF SetField
<1>5. c.tasks = a.tasks
  BY <1>50, SetFieldSame
<1>6. T = a.tasks \cup {t}
  BY <1>5 DEF T
<1>7. b.connecting = c.connecting
  BY <1>3, SetFieldSame
<1>8. /\ c.conn = a.conn /\ c.writable = a.writable /\ c.out = a.out
      /\ c.heartbeatAt = a.heartbeatAt /\ c.bySub = a.bySub /\ c.pending = a.pending
      /\ c.generation = a.generation /\ c.nextConn = a.nextConn
      /\ c.nextSubscription = a.nextSubscription /\ c.nextRequest = a.nextRequest
      /\ c.subs = a.subs /\ c.users = a.users /\ c.idle = a.idle /\ c.unwritable = a.unwritable
      /\ c.unsubscribing = a.unsubscribing /\ c.reconnectAt = a.reconnectAt
  BY <1>50, SetFieldSame
<1>9. /\ b.conn = c.conn /\ b.writable = c.writable /\ b.out = c.out
      /\ b.heartbeatAt = c.heartbeatAt /\ b.bySub = c.bySub /\ b.pending = c.pending
      /\ b.generation = c.generation /\ b.nextConn = c.nextConn
      /\ b.nextSubscription = c.nextSubscription /\ b.nextRequest = c.nextRequest
      /\ b.subs = c.subs /\ b.users = c.users /\ b.idle = c.idle /\ b.unwritable = c.unwritable
      /\ b.unsubscribing = c.unsubscribing /\ b.reconnectAt = c.reconnectAt
  BY <1>3, SetFieldSame
<1>10. Opened(a, b)
  BY <1>4, <1>6, <1>7, <1>8, <1>9 DEF Opened, t
<1> QED
  BY <1>10 DEF b

\* Then every account asks.
LEMMA OpenFine ==
  ASSUME NEW a, NEW in, NEW S, NEW A, NEW X, NEW Y, Fine(a, in, S, A, X, Y),
         a.conn = None, DOMAIN a.subs # {}
  PROVE  Fine(Open(a), in, S, A, {}, Y)
<1> DEFINE b == Open(a)
           t == OpenTask(a.generation)
<1>0. /\ Link(a) /\ Wire(a, in) /\ AllAsk(a, X) /\ Ids(a, in, S) /\ Heard(a, in, S, {})
      /\ Cursors(a) /\ Traced(a, in, S) /\ EndsOK(in, S) /\ ActorOK(a) /\ Crowd(a, A, Y)
  BY DEF Fine, Linked
<1>1. Opened(a, b)
  BY <1>0, OpenEffect
<1> HIDE DEF b
<1>2. t \in Tasks /\ t.kind = "open" /\ t.owner = a.generation /\ t.sub = None
  BY <1>0 DEF OpenTask, Tasks, ActorOK, None
<1>3. t = OpenTask(t.owner)
  BY <1>2, Zenon DEF t
<1> HIDE DEF t
<1>4. ActorOK(b)
  BY <1>0, <1>1, <1>2 DEF ActorOK, Opened, t
<1>5. b.tasks = a.tasks \cup {t}
  BY <1>1 DEF Opened, t
<1>6. IsOpening(b)
  BY <1>1, <1>2, <1>5 DEF IsOpening, Opened
<1>7. Opening(b)
  <2>1. \A u \in b.tasks : u.kind = "open" => u.owner <= b.generation /\ u = OpenTask(u.owner)
    <3>1. a.generation <= b.generation
      BY <1>0, <1>1 DEF Opened, ActorOK
    <3> QED
      BY <1>0, <1>1, <1>2, <1>3, <1>5, <3>1 DEF Link, Opening, Opened
  <2> QED
    BY <1>1, <1>6, <2>1 DEF Opened, Opening
<1>8. Disconnected(b) /\ Quiet(b)
  BY <1>0, <1>1 DEF Link, Disconnected, Quiet, Opened
<1>9. Owned(b) /\ OneRequest(b) /\ Listening(b)
  <2>1. Owned(b)
    BY <1>0, <1>1 DEF Link, Owned, Opened
  <2>2. OneRequest(b)
    BY <1>0, <1>1 DEF Link, OneRequest, Asks, Opened
  <2>3. Listening(b)
    BY <1>0, <1>1 DEF Link, Listening, Opened
  <2> QED
    BY <2>1, <2>2, <2>3
<1>10. Fetching(b)
  BY <1>0, <1>1, <1>2, <1>5 DEF Link, Fetching, Opened
<1>11. Wire(b, in) /\ Heard(b, in, S, {}) /\ Cursors(b)
  <2>1. Wire(b, in)
    BY <1>0, <1>1 DEF Wire, Opened
  <2>2. Heard(b, in, S, {})
    BY <1>0, <1>1 DEF Heard, Opened
  <2>3. ViewsAt(b)
    BY <1>0, <1>1 DEF Cursors, Opened, ViewsAt
  <2>4. AsksAt(b)
    BY <1>0, <1>1 DEF Wire, Cursors, Opened, AsksAt, Asks
  <2>5. SentAt(b)
    BY <1>0, <1>1 DEF Cursors, Opened, SentAt
  <2> QED
    BY <2>1, <2>2, <2>3, <2>4, <2>5 DEF Cursors
<1>12. AllAsk(b, {})
  BY <1>1, <1>6 DEF AllAsk, IsAsking, Opened
<1>13. Ids(b, in, S)
  <2>1. None <= b.nextRequest
    BY <1>0, <1>1 DEF Opened, ActorOK, None
  <2> QED
    BY <1>0, <1>1, <1>2, <1>5, <2>1 DEF Ids, Unused, Opened
<1>14. Traced(b, in, S)
  BY <1>0, <1>1, TracedKept DEF Opened
<1>15. Crowd(b, A, Y)
  BY <1>0, <1>1, SameSubs, CrowdKept DEF Opened
<1> QED
  BY <1>0, <1>4, <1>7, <1>8, <1>9, <1>10, <1>11, <1>12, <1>13, <1>14, <1>15
     DEF Fine, Linked, Link, b

-----------------------------------------------------------------------------
(* The first consumer of an account *)

Started(a, b, x, s) ==
  /\ IsMap(b, Fields) /\ b.nextSubscription = a.nextSubscription + 1
  /\ IsMap(b.subs, DOMAIN b.subs) /\ DOMAIN b.subs = DOMAIN a.subs \cup {x} /\ b.subs[x] = s
  /\ \A y \in DOMAIN a.subs : y # x => b.subs[y] = a.subs[y]
  /\ b.conn = a.conn /\ b.writable = a.writable /\ b.out = a.out
  /\ b.heartbeatAt = a.heartbeatAt /\ b.bySub = a.bySub /\ b.pending = a.pending
  /\ b.generation = a.generation /\ b.nextConn = a.nextConn /\ b.connecting = a.connecting
  /\ b.nextRequest = a.nextRequest /\ b.tasks = a.tasks
  /\ b.users = a.users /\ b.idle = a.idle /\ b.unwritable = a.unwritable
  /\ b.unsubscribing = a.unsubscribing /\ b.reconnectAt = a.reconnectAt

\* A new account is entered under a fresh number.
LEMMA StartedEffect ==
  ASSUME NEW a, ActorOK(a), NEW x, NEW s
  PROVE  Started(a, [a EXCEPT !.nextSubscription = a.nextSubscription + 1,
                              !.subs = With(a.subs, x, s)], x, s)
<1> DEFINE n == a.nextSubscription + 1
           m == With(a.subs, x, s)
           b == [a EXCEPT !.nextSubscription = n, !.subs = m]
<1>1. /\ IsMap(m, DOMAIN m) /\ DOMAIN m = DOMAIN a.subs \cup {x} /\ m[x] = s
      /\ \A y \in DOMAIN a.subs : y # x => m[y] = a.subs[y]
  BY Zenon DEF With, IsMap
<1> HIDE DEF n, m
<1>2. /\ IsMap(b, Fields) /\ b.nextSubscription = n /\ b.subs = m
      /\ \A f \in Fields \ {"nextSubscription", "subs"} : b[f] = a[f]
  BY Zenon DEF ActorOK, IsMap, Fields
<1> HIDE DEF b
<1>3. /\ b.conn = a.conn /\ b.writable = a.writable /\ b.out = a.out
      /\ b.heartbeatAt = a.heartbeatAt /\ b.bySub = a.bySub /\ b.pending = a.pending
      /\ b.generation = a.generation /\ b.nextConn = a.nextConn /\ b.connecting = a.connecting
      /\ b.nextRequest = a.nextRequest /\ b.tasks = a.tasks
      /\ b.users = a.users /\ b.idle = a.idle /\ b.unwritable = a.unwritable
      /\ b.unsubscribing = a.unsubscribing /\ b.reconnectAt = a.reconnectAt
  BY <1>2, SMT DEF Fields
<1>4. b.nextSubscription = a.nextSubscription + 1
  BY <1>2 DEF n
<1>5. Started(a, b, x, s)
  BY <1>1, <1>2, <1>3, <1>4 DEF Started
<1> QED
  BY <1>5 DEF b, n, m

\* A new account's view is empty and has neither an id nor a timer.
LEMMA NewSubscriptionIs ==
  ASSUME NEW n \in Nat, NEW c \in Consumers
  PROVE  LET s == NewSubscription(n, c)
         IN  /\ IsSub(s) /\ s.id = n /\ s.consumers = {c} /\ s.sub = None /\ s.seq = 0
             /\ s.cursor = None /\ s.staged = <<>> /\ s.orders = None /\ s.state = "pending"
             /\ s.stale = FALSE /\ s.ready = FALSE /\ s.retryAt = FALSE /\ s.ackDue = None
<1> DEFINE s == NewSubscription(n, c)
<1>1. /\ s.id = n /\ s.consumers = {c} /\ s.sub = None /\ s.seq = 0
      /\ s.cursor = None /\ s.staged = <<>> /\ s.orders = None /\ s.state = "pending"
      /\ s.stale = FALSE /\ s.ready = FALSE /\ s.retryAt = FALSE /\ s.ackDue = None
      /\ s.retried = FALSE /\ s.confirmed = FALSE
  BY Zenon DEF NewSubscription
<1>2. IsMap(s, SubFields)
  BY Zenon DEF NewSubscription, IsMap, SubFields
<1>3. <<>> \in Seq(Nat) /\ None \in Nat /\ 0 \in Nat
  BY DEF None
<1> HIDE DEF s
<1>4. IsSub(s)
  BY <1>1, <1>2, <1>3 DEF IsSub
<1> QED
  BY <1>1, <1>4 DEF s

\* The commands still to come are those of A without c.
Arrived(a, A, B, c) ==
  /\ c \in ArrivingIn(A) /\ c \notin ArrivingIn(B)
  /\ \A d : d \in ArrivingIn(B) => d \in ArrivingIn(A)
  /\ \A d : d \in ArrivingIn(A) => d \in ArrivingIn(B) \/ d = c
  /\ Orderly(a, B)
  /\ a.users[c].handle # "new"

\* Entering a new account keeps the invariant, but for the question that account has yet to
\* ask.
LEMMA StartedFine ==
  ASSUME NEW a, NEW in, NEW S, NEW A, NEW B, Fine(a, in, S, A, {}, {}),
         NEW x \in Accounts \ DOMAIN a.subs, NEW c \in Consumers, Arrived(a, A, B, c),
         NEW b, Started(a, b, x, NewSubscription(a.nextSubscription + 1, c))
  PROVE  Fine(b, in, S, B, {x}, {}) /\ MayAsk(b, x)
<1> DEFINE n == a.nextSubscription + 1
           s == NewSubscription(n, c)
<1>0. /\ Link(a) /\ Wire(a, in) /\ AllAsk(a, {}) /\ Ids(a, in, S) /\ Heard(a, in, S, {})
      /\ Cursors(a) /\ Traced(a, in, S) /\ EndsOK(in, S) /\ ActorOK(a) /\ Crowd(a, A, {})
  BY DEF Fine, Linked
<1>1. n \in Nat /\ a.nextSubscription \in Nat
  BY <1>0 DEF ActorOK
<1>2. /\ IsSub(s) /\ s.id = n /\ s.consumers = {c} /\ s.sub = None /\ s.seq = 0
      /\ s.cursor = None /\ s.staged = <<>> /\ s.orders = None /\ s.state = "pending"
      /\ s.stale = FALSE /\ s.ready = FALSE /\ s.retryAt = FALSE /\ s.ackDue = None
  BY <1>1, NewSubscriptionIs
<1>3. Started(a, b, x, s)
  OBVIOUS
<1> HIDE DEF s
<1>4. /\ DOMAIN b.subs = DOMAIN a.subs \cup {x} /\ b.subs[x] = s
      /\ \A y \in DOMAIN a.subs : y # x /\ b.subs[y] = a.subs[y]
      /\ b.nextSubscription = n
      /\ b.conn = a.conn /\ b.writable = a.writable /\ b.out = a.out
      /\ b.heartbeatAt = a.heartbeatAt /\ b.bySub = a.bySub /\ b.pending = a.pending
      /\ b.generation = a.generation /\ b.connecting = a.connecting
      /\ b.nextRequest = a.nextRequest /\ b.tasks = a.tasks
      /\ b.users = a.users /\ b.reconnectAt = a.reconnectAt
  BY <1>3 DEF Started
<1>5. ActorOK(b)
  <2>1. SubsOK(b.subs)
    BY <1>0, <1>2, <1>3, <1>4 DEF Started, ActorOK, SubsOK
  <2> QED
    BY <1>0, <1>1, <1>3, <1>4, <2>1 DEF Started, ActorOK
<1>6. Disconnected(b) /\ Opening(b) /\ Quiet(b)
  BY <1>0, <1>2, <1>4 DEF Link, Disconnected, Opening, Quiet, IsOpening
<1>7. Owned(b)
  <2>1. \A y \in DOMAIN a.subs : a.subs[y].id < n /\ a.subs[y].id <= b.nextSubscription
    <3>1. \A y \in DOMAIN a.subs : a.subs[y].id <= a.nextSubscription /\ a.subs[y].id \in Nat
      BY <1>0 DEF Link, Owned, ActorOK, SubsOK, IsSub
    <3> QED
      BY <1>1, <1>4, <3>1
  <2>2. None <= b.nextRequest /\ n <= b.nextSubscription
    BY <1>0, <1>1, <1>4 DEF ActorOK, None
  <2>3. \A y, z \in DOMAIN b.subs : b.subs[y].id = b.subs[z].id => y = z
    <3>1. \A y \in DOMAIN a.subs : a.subs[y].id # n
      BY <1>1, <2>1
    <3> QED
      BY <1>0, <1>2, <1>4, <3>1 DEF Link, Owned
  <2> QED
    BY <1>0, <1>2, <1>4, <2>1, <2>2, <2>3 DEF Link, Owned
<1>8. \A r : ~Asks(a, r, x)
  BY <1>0 DEF Asks, Link, Owned
<1>9. OneRequest(b)
  <2>1. None \notin DOMAIN a.pending
    BY <1>0 DEF Link, Owned, None
  <2> QED
    BY <1>0, <1>2, <1>4, <1>8, <2>1 DEF Link, OneRequest, Asks
<1>10. Fetching(b)
  BY <1>0, <1>4 DEF Link, Fetching
<1>11. Listening(b)
  BY <1>0, <1>2, <1>4 DEF Link, Listening
<1>12. Wire(b, in) /\ Heard(b, in, S, {})
  BY <1>0, <1>4 DEF Wire, Heard
<1>13. AllAsk(b, {x})
  BY <1>0, <1>4 DEF AllAsk, IsAsking, IsOpening, Asks
<1>14. Ids(b, in, S)
  BY <1>0, <1>4 DEF Ids, Unused
<1>15. Cursors(b)
  <2>1. None <= MaxHistory
    BY PrivateOrdersAssumption DEF None
  <2> QED
    <3>1. ViewsAt(b)
      BY <1>0, <1>2, <1>4, <2>1 DEF Cursors, ViewsAt, Link, Owned
    <3>2. AsksAt(b)
      BY <1>0, <1>2, <1>4, <2>1 DEF Cursors, AsksAt, Asks, Link, Owned
    <3>3. SentAt(b)
      BY <1>0, <1>2, <1>4, <2>1 DEF Cursors, SentAt
    <3> QED
      BY <3>1, <3>2, <3>3 DEF Cursors
<1>16. Traced(b, in, S)
  <2>1. \A k \in DOMAIN b.bySub \cup SubscribedIn(in) : k # None
    BY <1>0, <1>4 DEF Link, Listening, SubscribedIn, Wire
  <2> QED
    BY <1>0, <1>2, <1>4, <2>1, TracedKept DEF Link, Owned
<1>17. MayAsk(b, x)
  BY <1>2, <1>4, <1>8 DEF MayAsk, Asks
<1>18. /\ a.users[c].view = None /\ ~a.users[c].connected
       /\ ~a.users[c].ready /\ ~a.users[c].stale /\ a.users[c].ended = "no"
       /\ \A y \in DOMAIN a.subs : c \notin a.subs[y].consumers
  BY <1>0 DEF Crowd, Audience, Newcomer, Arrived
<1>19. Audience(b, B)
  <2>1. \A d \in Consumers : Newcomer(b, B, d) => d # c /\ Newcomer(a, A, d)
    BY <1>4 DEF Newcomer, Arrived
  <2>2. \A d \in Consumers : Newcomer(b, B, d) =>
          /\ b.users[d].view = None /\ ~b.users[d].connected
          /\ ~b.users[d].ready /\ ~b.users[d].stale /\ b.users[d].ended = "no"
          /\ \A y \in DOMAIN b.subs : d \notin b.subs[y].consumers
    BY <1>0, <1>2, <1>4, <2>1 DEF Crowd, Audience
  <2>3. \A y, z \in DOMAIN b.subs : \A d \in b.subs[y].consumers : d \in b.subs[z].consumers => y = z
    BY <1>0, <1>2, <1>4, <1>18 DEF Crowd, Audience
  <2> QED
    BY <2>2, <2>3 DEF Audience
<1>20. Known(b, {})
  <2> SUFFICES ASSUME NEW y \in DOMAIN b.subs, NEW d \in b.subs[y].consumers
               PROVE  Knows(b.users[d], b.subs[y])
    BY DEF Known, KnownTo
  <2>1. CASE y = x
    <3>1. /\ a.users[c].connected = FALSE /\ a.users[c].ready = FALSE /\ a.users[c].stale = FALSE
      BY <1>0, <1>18 DEF ActorOK, UsersOK, IsUser
    <3> QED
      BY <1>2, <1>4, <1>18, <2>1, <3>1 DEF Knows
  <2>2. CASE y # x
    <3>1. y \in DOMAIN a.subs /\ b.subs[y] = a.subs[y] /\ b.users = a.users
      BY <1>4, <2>2
    <3>2. KnownTo(a.users[d], a.subs[y], y \in {})
      BY <1>0, <3>1, Zenon DEF Crowd, Known
    <3> QED
      BY <3>1, <3>2 DEF KnownTo
  <2> QED
    BY <2>1, <2>2
<1>21. Whole(b)
  BY <1>0, <1>4 DEF Crowd, Whole
<1>22. Explained(b, B)
  <2> SUFFICES ASSUME NEW d \in Consumers, b.users[d].handle = "open", d \notin ArrivingIn(B),
                      \A y \in DOMAIN b.subs : d \notin b.subs[y].consumers
               PROVE  b.users[d].ended # "no"
    BY DEF Explained
  <2>1. d # c /\ \A y \in DOMAIN a.subs : d \notin a.subs[y].consumers
    BY <1>2, <1>4
  <2>2. d \notin ArrivingIn(A)
    BY <2>1 DEF Arrived
  <2> QED
    BY <1>0, <1>4, <2>1, <2>2 DEF Crowd, Explained
<1>23. Orderly(b, B)
  BY <1>4, OrderlyKept DEF Arrived
<1> QED
  BY <1>0, <1>5, <1>6, <1>7, <1>9, <1>10, <1>11, <1>12, <1>13, <1>14, <1>15, <1>16, <1>17,
     <1>19, <1>20, <1>21, <1>22, <1>23 DEF Fine, Linked, Link, Crowd

\* add for an account nobody streams yet keeps the invariant.
LEMMA StartFine ==
  ASSUME NEW a, NEW in, NEW S, NEW A, NEW B, Fine(a, in, S, A, {}, {}),
         NEW x \in Accounts \ DOMAIN a.subs, NEW c \in Consumers, Arrived(a, A, B, c)
  PROVE  Fine(Start(a, x, c), in, S, B, {}, {})
<1> DEFINE n == a.nextSubscription + 1
           s == NewSubscription(n, c)
           b == [a EXCEPT !.nextSubscription = n, !.subs = With(a.subs, x, s)]
           z == Start(a, x, c)
<1>1. z = IF a.conn # None THEN Subscribe(b, x)
          ELSE IF ~a.connecting /\ ~a.reconnectAt THEN Open(b) ELSE b
  BY Zenon DEF Start
<1>2. Started(a, b, x, s)
  BY StartedEffect DEF Fine
<1> HIDE DEF b, z
<1>3. Fine(b, in, S, B, {x}, {}) /\ MayAsk(b, x)
  BY <1>2, StartedFine
<1>4. b.conn = a.conn /\ x \in DOMAIN b.subs /\ b.connecting = a.connecting
      /\ b.reconnectAt = a.reconnectAt /\ b.tasks = a.tasks /\ b.generation = a.generation
  BY <1>2 DEF Started
<1>5. CASE a.conn # None
  <2>1. z = Subscribe(b, x)
    BY <1>1, <1>5
  <2>2. Subscribed(b, Subscribe(b, x), x)
    BY <1>3, <1>4, <1>5, SubscribeEffect DEF Fine
  <2>3. ActorOK(Subscribe(b, x)) /\ Linked(Subscribe(b, x), in, S, {x} \ {x}, {})
        /\ SameCrowd(b, Subscribe(b, x))
    BY <1>3, <1>4, <1>5, <2>2, SubscribeLinked DEF Fine
  <2>4. {x} \ {x} = {}
    OBVIOUS
  <2>5. Crowd(Subscribe(b, x), B, {})
    BY <1>3, <2>3, CrowdKept DEF Fine
  <2> QED
    BY <2>1, <2>3, <2>4, <2>5 DEF Fine, z
<1>6. CASE a.conn = None /\ ~a.connecting /\ ~a.reconnectAt
  <2>1. z = Open(b)
    BY <1>1, <1>6
  <2> QED
    BY <1>3, <1>4, <1>6, <2>1, OpenFine DEF z
<1>7. CASE a.conn = None /\ (a.connecting \/ a.reconnectAt)
  <2>1. z = b
    BY <1>1, <1>7
  <2>2. (a.reconnectAt /\ ~a.connecting) \/ (a.connecting /\ IsOpening(a))
    <3> SUFFICES ASSUME ~(a.reconnectAt /\ ~a.connecting) PROVE a.connecting /\ IsOpening(a)
      OBVIOUS
    <3>1. Link(a) /\ AllAsk(a, {})
      BY DEF Fine, Linked
    <3>2. PICK y \in DOMAIN a.subs : TRUE
      BY <1>7, <3>1 DEF Link, Quiet
    <3>3. IsAsking(a, y)
      BY <3>1 DEF AllAsk
    <3>4. DOMAIN a.pending = {}
      BY <1>7, <3>1 DEF Link, Disconnected
    <3> QED
      BY <1>7, <3>3, <3>4 DEF IsAsking
  <2>3. IsAsking(b, x)
    BY <1>4, <1>7, <2>2 DEF IsAsking, IsOpening
  <2>4. AllAsk(b, {})
    BY <1>3, <2>3 DEF Fine, Linked, AllAsk
  <2> QED
    BY <1>3, <2>1, <2>4 DEF Fine, Linked, z
<1> QED
  BY <1>5, <1>6, <1>7

-----------------------------------------------------------------------------
(* A consumer that joins is told what the others know *)

Greetings == [event : {"connected", "snapshot", "ready", "stale"}, n : Nat]
Holds(p, v) == \E i \in DOMAIN p : p[i] = v

\* A concatenation holds what its parts hold.
LEMMA ConcatHolds ==
  ASSUME NEW E, NEW p \in Seq(E), NEW q \in Seq(E)
  PROVE  p \o q \in Seq(E) /\ \A v : Holds(p \o q, v) <=> Holds(p, v) \/ Holds(q, v)
<1>1. p \o q \in Seq(E)
  OBVIOUS
<1>2. ASSUME NEW v, Holds(p \o q, v) PROVE Holds(p, v) \/ Holds(q, v)
  <2>1. PICK i \in DOMAIN (p \o q) : (p \o q)[i] = v
    BY <1>2 DEF Holds
  <2>2. CASE i <= Len(p)
    <3>1. i \in DOMAIN p /\ (p \o q)[i] = p[i]
      BY <2>2
    <3> QED
      BY <2>1, <3>1 DEF Holds
  <2>3. CASE i > Len(p)
    <3>1. i - Len(p) \in DOMAIN q /\ (p \o q)[i] = q[i - Len(p)]
      BY <2>3
    <3> QED
      BY <2>1, <3>1 DEF Holds
  <2> QED
    BY <2>2, <2>3
<1>3. ASSUME NEW v, Holds(p, v) PROVE Holds(p \o q, v)
  <2>1. PICK i \in DOMAIN p : p[i] = v
    BY <1>3 DEF Holds
  <2>2. i \in DOMAIN (p \o q) /\ (p \o q)[i] = p[i]
    OBVIOUS
  <2> QED
    BY <2>1, <2>2 DEF Holds
<1>4. ASSUME NEW v, Holds(q, v) PROVE Holds(p \o q, v)
  <2>1. PICK i \in DOMAIN q : q[i] = v
    BY <1>4 DEF Holds
  <2>2. i + Len(p) \in DOMAIN (p \o q) /\ (p \o q)[i + Len(p)] = q[i]
    OBVIOUS
  <2> QED
    BY <2>1, <2>2 DEF Holds
<1> QED
  BY <1>1, <1>2, <1>3, <1>4

\* The list of at most one event holds that event exactly when it was wanted.
LEMMA OneHolds ==
  ASSUME NEW E, NEW e \in E, NEW P
  PROVE  LET p == IF P THEN <<e>> ELSE <<>>
         IN  p \in Seq(E) /\ \A v : Holds(p, v) <=> P /\ v = e
<1>1. <<e>> \in Seq(E) /\ <<>> \in Seq(E)
  OBVIOUS
<1>2. \A v : Holds(<<e>>, v) <=> v = e
  BY DEF Holds
<1>3. \A v : ~Holds(<<>>, v)
  BY DEF Holds
<1> QED
  BY <1>1, <1>2, <1>3

\* What a consumer that joins late is told: that it is connected, the orders, that they are
\* ready, that they are stale.
LEMMA WelcomeHolds ==
  ASSUME NEW s, IsSub(s)
  PROVE  /\ Welcome(s) \in Seq(Greetings)
         /\ \A v : Holds(Welcome(s), v) <=>
              \/ s.state = "connected" /\ v = [event |-> "connected", n |-> None]
              \/ s.orders # None /\ v = [event |-> "snapshot", n |-> s.orders]
              \/ s.ready /\ v = [event |-> "ready", n |-> None]
              \/ s.stale /\ v = [event |-> "stale", n |-> 1]
<1> DEFINE e1 == [event |-> "connected", n |-> None]
           e2 == [event |-> "snapshot", n |-> s.orders]
           e3 == [event |-> "ready", n |-> None]
           e4 == [event |-> "stale", n |-> 1]
           p1 == IF s.state = "connected" THEN <<e1>> ELSE <<>>
           p2 == IF s.orders # None THEN <<e2>> ELSE <<>>
           p3 == IF s.ready THEN <<e3>> ELSE <<>>
           p4 == IF s.stale THEN <<e4>> ELSE <<>>
<1>1. e1 \in Greetings /\ e2 \in Greetings /\ e3 \in Greetings /\ e4 \in Greetings
  BY DEF IsSub, Greetings, None
<1>2. Welcome(s) = ((p1 \o p2) \o p3) \o p4
  BY Zenon DEF Welcome
<1> HIDE DEF e1, e2, e3, e4
<1>3. p1 \in Seq(Greetings) /\ \A v : Holds(p1, v) <=> s.state = "connected" /\ v = e1
  BY <1>1, OneHolds, Zenon
<1>4. p2 \in Seq(Greetings) /\ \A v : Holds(p2, v) <=> s.orders # None /\ v = e2
  BY <1>1, OneHolds, Zenon
<1>5. p3 \in Seq(Greetings) /\ \A v : Holds(p3, v) <=> s.ready /\ v = e3
  BY <1>1, OneHolds, Zenon
<1>6. p4 \in Seq(Greetings) /\ \A v : Holds(p4, v) <=> s.stale /\ v = e4
  BY <1>1, OneHolds, Zenon
<1> HIDE DEF p1, p2, p3, p4
<1> DEFINE q2 == p1 \o p2
           q3 == q2 \o p3
           q4 == q3 \o p4
<1>7. q2 \in Seq(Greetings) /\ \A v : Holds(q2, v) <=> Holds(p1, v) \/ Holds(p2, v)
  BY <1>3, <1>4, ConcatHolds, Zenon
<1> HIDE DEF q2
<1>8. q3 \in Seq(Greetings) /\ \A v : Holds(q3, v) <=> Holds(q2, v) \/ Holds(p3, v)
  BY <1>5, <1>7, ConcatHolds, Zenon
<1> HIDE DEF q3
<1>9. q4 \in Seq(Greetings) /\ \A v : Holds(q4, v) <=> Holds(q3, v) \/ Holds(p4, v)
  BY <1>6, <1>8, ConcatHolds, Zenon
<1> HIDE DEF q4
<1>10. Welcome(s) = q4
  BY <1>2, Zenon DEF q2, q3, q4
<1>11. \A v : Holds(Welcome(s), v) <=>
         \/ s.state = "connected" /\ v = e1
         \/ s.orders # None /\ v = e2
         \/ s.ready /\ v = e3
         \/ s.stale /\ v = e4
  BY <1>3, <1>4, <1>5, <1>6, <1>7, <1>8, <1>9, <1>10, Zenon
<1> QED
  BY <1>9, <1>10, <1>11, Zenon DEF e1, e2, e3, e4

\* offer_all
GreetStep(e, i, v) == IF v.ended = "no" THEN Offer(v, e.seq[i].event, e.seq[i].n) ELSE v
GreetInv(e, s, v) ==
  /\ IsUser(v) /\ v.handle = e.u.handle /\ v.view \in {None, e.orders}
  /\ e.u.handle = "dropped" => v = e.u
  /\ v.ended = "no" /\ v.handle # "dropped" =>
       /\ v.connected <=> \E i \in s : e.seq[i].event = "connected"
       /\ v.ready <=> \E i \in s : e.seq[i].event = "ready"
       /\ v.stale <=> \E i \in s : e.seq[i].event = "stale"
       /\ v.view = IF \E i \in s : e.seq[i].event = "snapshot" THEN e.orders ELSE None
Greets == INSTANCE FoldInduction WITH Step <- GreetStep, Pick <- Max, Inv <- GreetInv

\* The largest position of a list is one of its positions.
LEMMA MaxIsIn ==
  ASSUME NEW n \in Nat, NEW S \in SUBSET (1..n), S # {}
  PROVE  Max(S) \in S
<1> DEFINE T == {m \in 0..n : n - m \in S}
<1>1. T \subseteq Nat /\ T # {}
  <2>1. PICK k \in S : k \in 1..n
    OBVIOUS
  <2>2. n - k \in 0..n /\ n - (n - k) = k
    BY <2>1
  <2>3. n - k \in T
    BY <2>1, <2>2
  <2>4. T \subseteq 0..n
    OBVIOUS
  <2> HIDE DEF T
  <2> QED
    BY <2>3, <2>4
<1> HIDE DEF T
<1>2. PICK m \in T : \A k \in 0..m-1 : k \notin T
  BY <1>1, Greets!LeastMember, Zenon
<1>3. n - m \in S /\ m \in 0..n
  BY <1>2 DEF T
<1>4. \A y \in S : n - m >= y
  <2> SUFFICES ASSUME NEW y \in S, ~(n - m >= y) PROVE FALSE
    OBVIOUS
  <2>1. y \in 1..n /\ n - y \in 0..m-1 /\ n - y \in 0..n /\ n - (n - y) = y
    BY <1>3
  <2>2. n - y \in T
    BY <2>1 DEF T
  <2> QED
    BY <1>2, <2>1, <2>2
<1>5. \E x \in S : \A y \in S : x >= y
  BY <1>3, <1>4
<1> QED
  BY <1>5, Zenon DEF Max

\* A handle that was told nothing yet.
Untold(u) ==
  /\ IsUser(u) /\ u.view = None /\ ~u.connected /\ ~u.ready /\ ~u.stale /\ u.ended = "no"

\* One more event of the welcome keeps what the events so far have said.
LEMMA GreetKeeps ==
  ASSUME NEW e, e.seq \in Seq(Greetings), Untold(e.u), e.orders \in Nat,
         \A i \in DOMAIN e.seq : /\ e.seq[i].event = "snapshot" => e.seq[i].n = e.orders
                                 /\ e.seq[i].event = "stale" => e.seq[i].n = 1,
         NEW s, NEW x \in s, x \in DOMAIN e.seq, NEW v, GreetInv(e, s \ {x}, v)
  PROVE  GreetInv(e, s, GreetStep(e, x, v))
<1> DEFINE ev == e.seq[x].event
           n == e.seq[x].n
           w == Offer(v, ev, n)
           t == Told(v, ev, n)
<1>1. ev \in {"connected", "snapshot", "ready", "stale"} /\ n \in Nat
  <2>1. e.seq[x] \in Greetings
    BY SMT
  <2> QED
    BY <2>1 DEF Greetings
<1>2. ev \in Events
  BY <1>1 DEF Events
<1>3. (ev = "snapshot" => n = e.orders) /\ (ev = "stale" => n # None)
  BY DEF None
<1>4. GreetStep(e, x, v) = IF v.ended = "no" THEN w ELSE v
  BY Zenon DEF GreetStep
<1>5. IsUser(v) /\ v.handle = e.u.handle /\ v.view \in {None, e.orders}
      /\ (e.u.handle = "dropped" => v = e.u)
  BY DEF GreetInv
<1>6. OfferEffect(v, w, ev, n)
  BY <1>1, <1>2, <1>5, OfferLemma
<1>7. /\ t.connected = IF ev = "connected" THEN TRUE
                       ELSE IF ev = "disconnected" THEN FALSE ELSE v.connected
      /\ t.ready = IF ev = "ready" THEN TRUE
                   ELSE IF ev = "disconnected" THEN FALSE ELSE v.ready
      /\ t.view = IF ev = "snapshot" THEN n
                  ELSE IF ev = "unit" THEN Apply(v.view, n) ELSE v.view
      /\ t.stale = IF ev = "stale" THEN n # None ELSE v.stale
  <2> HIDE DEF ev, n
  <2>1. ToldFields(v, Told(v, ev, n), ev, n)
    BY <1>1, <1>2, <1>5, ToldEffect
  <2> QED
    BY <2>1, Zenon DEF ToldFields
<1>8. v.handle = "dropped" => w = v
  BY Zenon DEF Offer
<1> HIDE DEF w, t, ev, n
<1>9. CASE v.ended # "no"
  BY <1>4, <1>5, <1>9 DEF GreetInv
<1>10. CASE v.ended = "no" /\ v.handle = "dropped"
  BY <1>4, <1>5, <1>8, <1>10 DEF GreetInv
<1>11. CASE v.ended = "no" /\ v.handle # "dropped" /\ ~Accepts(v)
  <2>1. IsUser(w) /\ w.handle = v.handle /\ w.view = v.view /\ w.ended # "no"
    BY <1>6, <1>11 DEF OfferEffect
  <2> QED
    BY <1>4, <1>5, <1>11, <2>1 DEF GreetInv
<1>12. CASE v.ended = "no" /\ v.handle # "dropped" /\ Accepts(v)
  <2>1. /\ IsUser(w) /\ w.handle = v.handle /\ w.ended = v.ended
        /\ w.connected = t.connected /\ w.ready = t.ready /\ w.view = t.view
        /\ w.stale = t.stale
    BY <1>6, <1>12, Zenon DEF OfferEffect, t
  <2>2. /\ v.connected <=> \E i \in s \ {x} : e.seq[i].event = "connected"
        /\ v.ready <=> \E i \in s \ {x} : e.seq[i].event = "ready"
        /\ v.stale <=> \E i \in s \ {x} : e.seq[i].event = "stale"
        /\ v.view = IF \E i \in s \ {x} : e.seq[i].event = "snapshot" THEN e.orders ELSE None
    BY <1>12, Zenon DEF GreetInv
  <2>3. w.connected <=> \E i \in s : e.seq[i].event = "connected"
    <3>1. w.connected <=> (ev = "connected" \/ v.connected)
      BY <1>1, <1>5, <1>7, <2>1 DEF IsUser
    <3> QED
      BY <2>2, <3>1 DEF ev
  <2>4. w.ready <=> \E i \in s : e.seq[i].event = "ready"
    <3>1. w.ready <=> (ev = "ready" \/ v.ready)
      BY <1>1, <1>5, <1>7, <2>1 DEF IsUser
    <3> QED
      BY <2>2, <3>1 DEF ev
  <2>5. w.stale <=> \E i \in s : e.seq[i].event = "stale"
    <3>1. w.stale <=> (ev = "stale" \/ v.stale)
      BY <1>1, <1>3, <1>5, <1>7, <2>1 DEF IsUser
    <3> QED
      BY <2>2, <3>1 DEF ev
  <2>6. w.view = IF \E i \in s : e.seq[i].event = "snapshot" THEN e.orders ELSE None
    <3>1. w.view = IF ev = "snapshot" THEN e.orders ELSE v.view
      BY <1>1, <1>3, <1>7, <2>1
    <3>2. CASE ev = "snapshot"
      BY <3>1, <3>2 DEF ev
    <3>3. CASE ev # "snapshot"
      <4>1. (\E i \in s : e.seq[i].event = "snapshot")
              <=> (\E i \in s \ {x} : e.seq[i].event = "snapshot")
        BY <3>3 DEF ev
      <4> QED
        BY <2>2, <3>1, <3>3, <4>1
    <3> QED
      BY <3>2, <3>3
  <2>7. w.view \in {None, e.orders}
    BY <2>6
  <2>8. e.u.handle # "dropped" /\ w.handle = e.u.handle
    BY <1>5, <1>12, <2>1
  <2>9. GreetInv(e, s, w)
    BY <2>1, <2>3, <2>4, <2>5, <2>6, <2>7, <2>8 DEF GreetInv
  <2> QED
    BY <1>4, <1>12, <2>9
<1> QED
  BY <1>9, <1>10, <1>11, <1>12

\* After the whole welcome the consumer knows what the view holds, or its handle was dropped on
\* the way.
LEMMA OfferAllEffect ==
  ASSUME NEW u, Untold(u), NEW s, IsSub(s)
  PROVE  LET v == OfferAll(u, Welcome(s))
         IN  /\ IsUser(v) /\ v.handle = u.handle /\ v.view \in {None, s.orders}
             /\ Welcome(s) = <<>> => v = u
             /\ v.ended = "no" /\ (Welcome(s) = <<>> \/ v.handle # "dropped") => Knows(v, s)
<1> DEFINE q == Welcome(s)
           e == [u |-> u, seq |-> q, orders |-> s.orders]
           v == OfferAll(u, q)
           D == DOMAIN q
<1>1. e.u = u /\ e.seq = q /\ e.orders = s.orders
  BY Zenon
<1>2. /\ q \in Seq(Greetings)
      /\ \A w : Holds(q, w) <=>
              \/ s.state = "connected" /\ w = [event |-> "connected", n |-> None]
              \/ s.orders # None /\ w = [event |-> "snapshot", n |-> s.orders]
              \/ s.ready /\ w = [event |-> "ready", n |-> None]
              \/ s.stale /\ w = [event |-> "stale", n |-> 1]
  BY WelcomeHolds, Zenon
<1> HIDE DEF q, e
<1>3. v = Greets!Over(e, u, D)
  BY <1>1, ZenonT(60) DEF OfferAll, FoldLeft, MapThenFoldSet, Greets!Over, Greets!MapThenFoldSet,
     GreetStep
<1>4. D = 1..Len(q) /\ Len(q) \in Nat
  BY <1>2
<1>5. IsFiniteSet(D) /\ Greets!IsFiniteSet(D)
  <2>1. IsFiniteSet(D)
    BY <1>4, FS_Interval
  <2> QED
    BY <2>1, Zenon DEF IsFiniteSet, Greets!IsFiniteSet
<1>6. Greets!Picks(D)
  <2>1. \A S \in SUBSET D : S # {} => Max(S) \in S
    BY <1>4, MaxIsIn
  <2> QED
    BY <2>1, Zenon DEF Greets!Picks
<1>7. GreetInv(e, {}, u)
  BY <1>1 DEF GreetInv, Untold
<1>8. \A i \in D : /\ q[i].event = "snapshot" => q[i].n = s.orders
                   /\ q[i].event = "stale" => q[i].n = 1
  <2> SUFFICES ASSUME NEW i \in D
               PROVE  /\ q[i].event = "snapshot" => q[i].n = s.orders
                      /\ q[i].event = "stale" => q[i].n = 1
    OBVIOUS
  <2>1. Holds(q, q[i])
    BY Zenon DEF Holds
  <2> QED
    BY <1>2, <2>1
<1>9. ASSUME NEW z \in SUBSET D, NEW w, z # {}, GreetInv(e, z \ {Max(z)}, w)
      PROVE  GreetInv(e, z, GreetStep(e, Max(z), w))
  <2> DEFINE x == Max(z)
  <2>1. x \in z
    BY <1>4, <1>9, MaxIsIn
  <2> HIDE DEF x
  <2>2. x \in DOMAIN e.seq /\ GreetInv(e, z \ {x}, w)
    BY <1>1, <1>9, <2>1 DEF x
  <2>3. e.seq \in Seq(Greetings) /\ Untold(e.u) /\ e.orders \in Nat
    BY <1>1, <1>2 DEF IsSub
  <2>4. \A i \in DOMAIN e.seq : /\ e.seq[i].event = "snapshot" => e.seq[i].n = e.orders
                                /\ e.seq[i].event = "stale" => e.seq[i].n = 1
    BY <1>1, <1>8
  <2>5. GreetInv(e, z, GreetStep(e, x, w))
    BY <2>1, <2>2, <2>3, <2>4, GreetKeeps, Zenon
  <2> QED
    BY <2>5 DEF x
<1> HIDE DEF v
<1>10. GreetInv(e, D, v)
  <2>1. GreetInv(e, D, Greets!Over(e, u, D))
    <3> HIDE DEF D
    <3> QED
      BY <1>5, <1>6, <1>7, <1>9, Greets!FoldInduction, Zenon
  <2> QED
    BY <1>3, <2>1
<1>11. /\ (\E i \in D : q[i].event = "connected") <=> s.state = "connected"
       /\ (\E i \in D : q[i].event = "snapshot") <=> s.orders # None
       /\ (\E i \in D : q[i].event = "ready") <=> s.ready
       /\ (\E i \in D : q[i].event = "stale") <=> s.stale
  <2>1. \A i \in D :
          \/ s.state = "connected" /\ q[i] = [event |-> "connected", n |-> None]
          \/ s.orders # None /\ q[i] = [event |-> "snapshot", n |-> s.orders]
          \/ s.ready /\ q[i] = [event |-> "ready", n |-> None]
          \/ s.stale /\ q[i] = [event |-> "stale", n |-> 1]
    BY <1>2, Zenon DEF Holds
  <2>2. /\ s.state = "connected" => Holds(q, [event |-> "connected", n |-> None])
        /\ s.orders # None => Holds(q, [event |-> "snapshot", n |-> s.orders])
        /\ s.ready => Holds(q, [event |-> "ready", n |-> None])
        /\ s.stale => Holds(q, [event |-> "stale", n |-> 1])
    BY <1>2, Zenon
  <2>3. /\ s.state = "connected" => \E i \in D : q[i].event = "connected"
        /\ s.orders # None => \E i \in D : q[i].event = "snapshot"
        /\ s.ready => \E i \in D : q[i].event = "ready"
        /\ s.stale => \E i \in D : q[i].event = "stale"
    BY <2>2 DEF Holds
  <2> QED
    BY <2>1, <2>3
<1>12. q = <<>> => v = u
  <2> SUFFICES ASSUME q = <<>> PROVE v = u
    OBVIOUS
  <2>1. D = {}
    BY <1>4
  <2> QED
    BY <1>3, <1>5, <1>6, <2>1, Greets!FoldUnroll, Zenon
<1>13. v.ended = "no" /\ (q = <<>> \/ v.handle # "dropped") => Knows(v, s)
  <2> SUFFICES ASSUME v.ended = "no", q = <<>> \/ v.handle # "dropped" PROVE Knows(v, s)
    OBVIOUS
  <2>1. /\ v.connected <=> s.state = "connected"
        /\ v.ready <=> s.ready
        /\ v.stale <=> s.stale
        /\ v.view = s.orders
    <3>1. CASE v.handle # "dropped"
      <4>1. /\ v.connected <=> \E i \in D : e.seq[i].event = "connected"
            /\ v.ready <=> \E i \in D : e.seq[i].event = "ready"
            /\ v.stale <=> \E i \in D : e.seq[i].event = "stale"
            /\ v.view = IF \E i \in D : e.seq[i].event = "snapshot" THEN e.orders ELSE None
        BY <1>10, <3>1, Zenon DEF GreetInv
      <4> QED
        BY <1>1, <1>11, <4>1
    <3>2. CASE q = <<>>
      <4>1. v = u /\ D = {}
        BY <1>4, <1>12, <3>2
      <4> QED
        BY <1>11, <4>1 DEF Untold
    <3> QED
      BY <3>1, <3>2
  <2>2. IsUser(v)
    BY <1>10 DEF GreetInv
  <2> QED
    BY <2>1, <2>2 DEF Knows, IsUser, IsSub
<1> QED
  BY <1>1, <1>10, <1>12, <1>13 DEF GreetInv, q, v

-----------------------------------------------------------------------------
(* Commands *)

\* One consumer's state, and those an account has.
JoinEffect(a, b, x, c, u, cs) ==
  /\ Keeps(a, b, {"users", "subs"}) /\ KeepsSubs(a, b, {"consumers"}) /\ ActorOK(b)
  /\ \A y \in DOMAIN a.subs : b.subs[y].consumers = IF y = x THEN cs ELSE a.subs[y].consumers
  /\ \A d \in Consumers : b.users[d] = IF d = c THEN u ELSE a.users[d]

\* A consumer that joins an account changes its own state and the account's set of consumers.
LEMMA JoinIs ==
  ASSUME NEW a, ActorOK(a), NEW x \in DOMAIN a.subs, NEW c \in Consumers, NEW u, IsUser(u),
         NEW cs \in SUBSET Consumers
  PROVE  JoinEffect(a, [a EXCEPT !.users[c] = u, !.subs[x].consumers = cs], x, c, u, cs)
<1> DEFINE us == [a.users EXCEPT ![c] = u]
           t  == [a.subs[x] EXCEPT !.consumers = cs]
           ss == [a.subs EXCEPT ![x] = t]
           b  == [a EXCEPT !.users[c] = u, !.subs[x].consumers = cs]
<1>1. b = [a EXCEPT !.users = us, !.subs = ss]
  BY Zenon
<1>2. IsSub(t) /\ KeepsSub(a.subs[x], t, {"consumers"}) /\ t.consumers = cs
  <2>1. IsSub(a.subs[x])
    BY DEF ActorOK, SubsOK
  <2> QED
    BY <2>1, Zenon DEF IsSub, IsMap, SubFields, KeepsSub
<1>3. /\ IsMap(ss, DOMAIN ss) /\ DOMAIN ss = DOMAIN a.subs /\ ss[x] = t
      /\ \A y \in DOMAIN a.subs : y # x => ss[y] = a.subs[y]
  <2> HIDE DEF t
  <2> QED
    BY Zenon DEF IsMap, ActorOK, SubsOK
<1>4. SubsOK(ss)
  <2> HIDE DEF ss, t
  <2> QED
    BY <1>2, <1>3 DEF SubsOK, ActorOK
<1>5. IsMap(us, Consumers) /\ \A d \in Consumers : us[d] = IF d = c THEN u ELSE a.users[d]
  BY Zenon DEF IsMap, ActorOK, UsersOK
<1>6. UsersOK(us)
  <2>1. \A d \in Consumers : IsUser(a.users[d])
    BY DEF ActorOK, UsersOK
  <2> QED
    BY <1>5, <2>1, Zenon DEF UsersOK
<1>7. /\ IsMap(b, Fields) /\ b.users = us /\ b.subs = ss
      /\ \A f \in Fields \ {"users", "subs"} : b[f] = a[f]
  <2>1. IsMap(a, Fields)
    BY DEF ActorOK
  <2> HIDE DEF us, ss, b
  <2> QED
    BY <1>1, <2>1, Zenon DEF Fields, IsMap
<1> HIDE DEF us, ss, t, b
<1>8. Keeps(a, b, {"users", "subs"})
  BY <1>7 DEF Keeps
<1>9. ActorOK(b)
  BY <1>4, <1>6, <1>7, <1>8 DEF ActorOK, Keeps, Fields
<1>10. KeepsSubs(a, b, {"consumers"})
  <2>1. \A y \in DOMAIN a.subs : KeepsSub(a.subs[y], a.subs[y], {"consumers"})
    BY DEF KeepsSub, ActorOK, SubsOK, IsSub
  <2> QED
    BY <1>2, <1>3, <1>7, <2>1 DEF KeepsSubs
<1>11. \A y \in DOMAIN a.subs : b.subs[y].consumers = IF y = x THEN cs ELSE a.subs[y].consumers
  BY <1>2, <1>3, <1>7
<1> QED
  BY <1>5, <1>7, <1>8, <1>9, <1>10, <1>11, Zenon DEF JoinEffect, b

\* A consumer joins an account that others read.
LEMMA JoinFine ==
  ASSUME NEW a, NEW in, NEW S, NEW A, NEW B, Fine(a, in, S, A, {}, {}),
         NEW x \in DOMAIN a.subs, NEW c \in Consumers, Arrived(a, A, B, c)
  PROVE  Fine(Join(a, x, c), in, S, B, {}, {})
<1> DEFINE s == a.subs[x]
           events == Welcome(s)
           u == OfferAll(a.users[c], events)
           joins == u.ended = "no" /\ (events = <<>> \/ u.handle # "dropped")
           cs == IF joins THEN s.consumers \cup {c} ELSE s.consumers
           b == Join(a, x, c)
<1>0. /\ ActorOK(a) /\ Crowd(a, A, {}) /\ Linked(a, in, S, {}, {}) /\ Cursors(a)
  BY DEF Fine, Linked
<1>1. /\ a.users[c].view = None /\ ~a.users[c].connected
      /\ ~a.users[c].ready /\ ~a.users[c].stale /\ a.users[c].ended = "no"
      /\ \A y \in DOMAIN a.subs : c \notin a.subs[y].consumers
  BY <1>0 DEF Crowd, Audience, Newcomer, Arrived
<1>2. Untold(a.users[c]) /\ IsSub(s)
  BY <1>0, <1>1 DEF Untold, ActorOK, UsersOK, SubsOK
<1>3. /\ IsUser(u) /\ u.handle = a.users[c].handle /\ u.view \in {None, s.orders}
      /\ joins => Knows(u, s)
  BY <1>2, OfferAllEffect
<1>4. cs \in SUBSET Consumers
  BY <1>2 DEF IsSub
<1>5. b = [a EXCEPT !.users[c] = u, !.subs[x].consumers = cs]
  <2>1. b = [a EXCEPT !.users[c] = u,
                      !.subs[x].consumers = IF joins THEN @ \cup {c} ELSE @]
    BY Zenon DEF Join
  <2> QED
    BY <2>1, Zenon
<1>6. joins => u.ended = "no"
  OBVIOUS
<1>7. ~joins /\ u.handle = "open" => u.ended # "no"
  OBVIOUS
<1>8. /\ joins => cs = s.consumers \cup {c}
      /\ ~joins => cs = s.consumers
  OBVIOUS
<1> HIDE DEF events, u, joins, cs, b
<1>9. JoinEffect(a, b, x, c, u, cs)
  BY <1>0, <1>3, <1>4, <1>5, JoinIs
<1>10. Alike(a, b)
  BY <1>9 DEF JoinEffect, Alike, Keeps, KeepsSubs, KeepsSub
<1>11. Linked(b, in, S, {}, {})
  BY <1>0, <1>10, AlikeLinked
<1>12. /\ DOMAIN b.subs = DOMAIN a.subs
       /\ \A y \in DOMAIN a.subs :
            /\ b.subs[y].orders = a.subs[y].orders /\ b.subs[y].stale = a.subs[y].stale
            /\ b.subs[y].ready = a.subs[y].ready /\ b.subs[y].state = a.subs[y].state
            /\ b.subs[y].consumers = IF y = x THEN cs ELSE a.subs[y].consumers
       /\ \A d \in Consumers : b.users[d] = IF d = c THEN u ELSE a.users[d]
  <2>1. /\ \A y \in DOMAIN a.subs : b.subs[y].consumers = IF y = x THEN cs ELSE a.subs[y].consumers
        /\ \A d \in Consumers : b.users[d] = IF d = c THEN u ELSE a.users[d]
    BY <1>9 DEF JoinEffect
  <2> QED
    BY <1>10, <2>1, AlikeFields
<1>13. \A y \in DOMAIN a.subs : a.subs[y].consumers \in SUBSET Consumers
  BY <1>0 DEF ActorOK, SubsOK, IsSub
<1>14. Audience(b, B)
  <2>1. \A d \in Consumers : Newcomer(b, B, d) => d # c /\ Newcomer(a, A, d)
    BY <1>3, <1>12 DEF Newcomer, Arrived
  <2>2. \A d \in Consumers : Newcomer(b, B, d) =>
          /\ b.users[d].view = None /\ ~b.users[d].connected
          /\ ~b.users[d].ready /\ ~b.users[d].stale /\ b.users[d].ended = "no"
          /\ \A y \in DOMAIN b.subs : d \notin b.subs[y].consumers
    BY <1>0, <1>8, <1>12, <2>1 DEF Crowd, Audience
  <2>3. \A y \in DOMAIN b.subs : \A d \in b.subs[y].consumers :
          d \in a.subs[y].consumers \/ (d = c /\ y = x)
    BY <1>8, <1>12
  <2>4. \A y, z \in DOMAIN b.subs : \A d \in b.subs[y].consumers : d \in b.subs[z].consumers => y = z
    BY <1>0, <1>1, <1>12, <2>3 DEF Crowd, Audience
  <2> QED
    BY <2>2, <2>4 DEF Audience
<1>15. Known(b, {})
  <2> SUFFICES ASSUME NEW y \in DOMAIN b.subs, NEW d \in b.subs[y].consumers
               PROVE  Knows(b.users[d], b.subs[y])
    BY DEF Known, KnownTo
  <2>1. CASE d = c
    <3>1. y = x /\ joins
      BY <1>1, <1>8, <1>12, <2>1
    <3> QED
      BY <1>3, <1>12, <2>1, <3>1 DEF Knows
  <2>2. CASE d # c
    <3>1. d \in a.subs[y].consumers
      BY <1>8, <1>12, <2>2
    <3>2. b.users[d] = a.users[d]
      BY <1>12, <1>13, <2>2, <3>1
    <3>3. KnownTo(a.users[d], a.subs[y], y \in {})
      BY <1>0, <1>12, <3>1, Zenon DEF Crowd, Known
    <3>4. Knows(a.users[d], a.subs[y])
      BY <3>3 DEF KnownTo
    <3> QED
      BY <1>12, <3>2, <3>4 DEF Knows
  <2> QED
    BY <2>1, <2>2
<1>16. Whole(b)
  <2>1. None # Torn /\ s.orders # Torn
    BY <1>0, <1>2, PrivateOrdersAssumption DEF None, Torn, Cursors, ViewsAt, IsSub
  <2> QED
    BY <1>0, <1>3, <1>12, <2>1 DEF Crowd, Whole
<1>17. Explained(b, B)
  <2> SUFFICES ASSUME NEW d \in Consumers, b.users[d].handle = "open", d \notin ArrivingIn(B),
                      \A y \in DOMAIN b.subs : d \notin b.subs[y].consumers
               PROVE  b.users[d].ended # "no"
    BY DEF Explained
  <2>1. CASE d = c
    <3>1. ~joins
      BY <1>8, <1>12, <2>1
    <3> QED
      BY <1>7, <1>12, <2>1, <3>1
  <2>2. CASE d # c
    <3>1. d \notin ArrivingIn(A) /\ \A y \in DOMAIN a.subs : d \notin a.subs[y].consumers
      BY <1>8, <1>12, <2>2 DEF Arrived
    <3> QED
      BY <1>0, <1>12, <2>2, <3>1 DEF Crowd, Explained
  <2> QED
    BY <2>1, <2>2
<1>18. Orderly(b, B)
  BY <1>3, <1>12, OrderlyKept DEF Arrived
<1> QED
  BY <1>9, <1>11, <1>14, <1>15, <1>16, <1>17, <1>18 DEF Fine, Crowd, JoinEffect, b

\* add, for a new or a streamed account, keeps the invariant.
LEMMA AddFine ==
  ASSUME NEW a, NEW in, NEW S, NEW A, NEW B, Fine(a, in, S, A, {}, {}),
         NEW x \in Accounts, NEW c \in Consumers, Arrived(a, A, B, c)
  PROVE  Fine(Add(a, x, c), in, S, B, {}, {})
<1>1. CASE x \in DOMAIN a.subs
  <2>1. Add(a, x, c) = Join(a, x, c)
    BY <1>1, Zenon DEF Add
  <2> QED
    BY <1>1, <2>1, JoinFine
<1>2. CASE x \notin DOMAIN a.subs
  <2>1. Add(a, x, c) = Start(a, x, c)
    BY <1>2, Zenon DEF Add
  <2> QED
    BY <1>2, <2>1, StartFine
<1> QED
  BY <1>1, <1>2

\* A consumer leaves; its handle is no longer open.
LEMMA RemoveFine ==
  ASSUME NEW a, NEW in, NEW S, NEW A, Fine(a, in, S, A, {}, {}),
         NEW c \in Consumers, a.users[c].handle # "open"
  PROVE  Fine(RemoveConsumer(a, c), in, S, A, {}, {})
<1> DEFINE Leaves(x) == x \in DOMAIN a.subs /\ c \in a.subs[x].consumers
           T(x) == IF Leaves(x) THEN [a.subs[x] EXCEPT !.consumers = a.subs[x].consumers \ {c}]
                   ELSE a.subs[x]
           ss == [x \in DOMAIN a.subs |-> T(x)]
           idle == a.idle \cup {x \in Accounts : Leaves(x) /\ a.subs[x].consumers = {c}}
           b == RemoveConsumer(a, c)
<1>0. ActorOK(a) /\ Crowd(a, A, {}) /\ Linked(a, in, S, {}, {})
  BY DEF Fine
<1>1. b = [a EXCEPT !.subs = ss, !.idle = idle]
  <2> DEFINE m == [x \in DOMAIN a.subs |->
                     IF Leaves(x) THEN [a.subs[x] EXCEPT !.consumers = @ \ {c}] ELSE a.subs[x]]
  <2>1. b = [a EXCEPT !.subs = m, !.idle = idle]
    BY Zenon DEF RemoveConsumer
  <2>2. m = ss
    BY Zenon
  <2> HIDE DEF m, ss, b, Leaves
  <2> QED
    BY <2>1, <2>2, Zenon
<1>2. \A x \in DOMAIN a.subs : /\ IsSub(T(x)) /\ KeepsSub(a.subs[x], T(x), {"consumers"})
                               /\ T(x).consumers = a.subs[x].consumers \ {c}
  <2> SUFFICES ASSUME NEW x \in DOMAIN a.subs
               PROVE  /\ IsSub(T(x)) /\ KeepsSub(a.subs[x], T(x), {"consumers"})
                      /\ T(x).consumers = a.subs[x].consumers \ {c}
    BY Zenon
  <2>1. IsSub(a.subs[x])
    BY <1>0 DEF ActorOK, SubsOK
  <2>2. CASE Leaves(x)
    <3> DEFINE cs == a.subs[x].consumers \ {c}
    <3>1. T(x) = [a.subs[x] EXCEPT !.consumers = cs]
      BY <2>2, Zenon
    <3>2. cs \in SUBSET Consumers
      BY <2>1 DEF IsSub
    <3> HIDE DEF cs, T
    <3>3. /\ IsSub(T(x)) /\ KeepsSub(a.subs[x], T(x), {"consumers"}) /\ T(x).consumers = cs
      BY <2>1, <3>1, <3>2, Zenon DEF IsSub, IsMap, SubFields, KeepsSub
    <3> QED
      BY <3>3 DEF cs
  <2>3. CASE ~Leaves(x)
    <3>1. T(x) = a.subs[x] /\ a.subs[x].consumers \ {c} = a.subs[x].consumers
      BY <2>3
    <3> HIDE DEF T
    <3> QED
      BY <2>1, <3>1, Zenon DEF KeepsSub, IsSub
  <2> QED
    BY <2>2, <2>3, Zenon
<1>3. idle \in SUBSET Accounts
  BY <1>0 DEF ActorOK
<1>4. IsMap(ss, DOMAIN ss) /\ DOMAIN ss = DOMAIN a.subs /\ \A x \in DOMAIN a.subs : ss[x] = T(x)
  BY Zenon DEF IsMap
<1>5. SubsOK(ss)
  <2> HIDE DEF ss, T
  <2> QED
    BY <1>0, <1>2, <1>4 DEF SubsOK, ActorOK
<1>6. /\ IsMap(b, Fields) /\ b.subs = ss /\ b.idle = idle
      /\ \A f \in Fields \ {"subs", "idle"} : b[f] = a[f]
  <2>1. IsMap(a, Fields)
    BY <1>0 DEF ActorOK
  <2> HIDE DEF ss, idle, b
  <2> QED
    BY <1>1, <2>1, Zenon DEF Fields, IsMap
<1> HIDE DEF ss, idle, b, T, Leaves
<1>7. Keeps(a, b, {"subs", "idle"})
  BY <1>6 DEF Keeps
<1>8. ActorOK(b)
  BY <1>0, <1>3, <1>5, <1>6, <1>7 DEF ActorOK, Keeps, Fields
<1>9. KeepsSubs(a, b, {"consumers"})
  BY <1>2, <1>4, <1>6 DEF KeepsSubs
<1>10. Alike(a, b)
  BY <1>7, <1>9 DEF Alike, Keeps, KeepsSubs, KeepsSub
<1>11. Linked(b, in, S, {}, {})
  BY <1>0, <1>10, AlikeLinked
<1>12. /\ DOMAIN b.subs = DOMAIN a.subs /\ b.users = a.users
       /\ \A y \in DOMAIN a.subs :
            /\ b.subs[y].orders = a.subs[y].orders /\ b.subs[y].stale = a.subs[y].stale
            /\ b.subs[y].ready = a.subs[y].ready /\ b.subs[y].state = a.subs[y].state
            /\ b.subs[y].consumers = a.subs[y].consumers \ {c}
  <2>1. b.users = a.users
    BY <1>7 DEF Keeps, Fields
  <2>2. \A y \in DOMAIN a.subs : b.subs[y].consumers = a.subs[y].consumers \ {c}
    BY <1>2, <1>4, <1>6
  <2> QED
    BY <1>10, <2>1, <2>2, AlikeFields
<1>13. Audience(b, A)
  BY <1>0, <1>12 DEF Crowd, Audience, Newcomer
<1>14. Known(b, {})
  <2> SUFFICES ASSUME NEW y \in DOMAIN b.subs, NEW d \in b.subs[y].consumers
               PROVE  Knows(b.users[d], b.subs[y])
    BY DEF Known, KnownTo
  <2>1. d \in a.subs[y].consumers
    BY <1>12
  <2>2. KnownTo(a.users[d], a.subs[y], y \in {})
    BY <1>0, <1>12, <2>1, Zenon DEF Crowd, Known
  <2>3. Knows(a.users[d], a.subs[y])
    BY <2>2 DEF KnownTo
  <2> QED
    BY <1>12, <2>3 DEF Knows
<1>15. Whole(b)
  BY <1>0, <1>12 DEF Crowd, Whole
<1>16. Explained(b, A)
  BY <1>0, <1>12 DEF Crowd, Explained
<1>17. Orderly(b, A)
  BY <1>0, <1>12, OrderlyKept DEF Crowd
<1> QED
  BY <1>8, <1>11, <1>13, <1>14, <1>15, <1>16, <1>17 DEF Fine, Crowd, b

-----------------------------------------------------------------------------
(* A task ends *)

\* The accounts that asked through the task t.
Lost(a, t) ==
  IF t.kind = "open" /\ t.owner = a.generation THEN DOMAIN a.subs
  ELSE IF t.kind = "subscribe" THEN Askers(a, t.request) ELSE {}

\* A task that ended leaves only the question it was to ask.
LEMMA TaskGone ==
  ASSUME NEW a, NEW in, NEW S, NEW A, Fine(a, in, S, A, {}, {}), NEW t \in a.tasks,
         NEW b, SetField(a, b, "tasks", a.tasks \ {t})
  PROVE  /\ Fine(b, in, S, A, Lost(a, t), {})
         /\ t.kind = "open" /\ t.owner = a.generation => ~IsOpening(b)
<1> DEFINE T == a.tasks \ {t}
           X == Lost(a, t)
<1>0. /\ Link(a) /\ Wire(a, in) /\ AllAsk(a, {}) /\ Ids(a, in, S) /\ Heard(a, in, S, {})
      /\ Cursors(a) /\ Traced(a, in, S) /\ EndsOK(in, S) /\ ActorOK(a) /\ Crowd(a, A, {})
  BY DEF Fine, Linked
<1>1. IsMap(b, Fields) /\ b.tasks = T
  BY DEF SetField
<1>2. /\ b.subs = a.subs /\ b.pending = a.pending /\ b.bySub = a.bySub
      /\ b.unsubscribing = a.unsubscribing /\ b.idle = a.idle /\ b.conn = a.conn
      /\ b.writable = a.writable /\ b.out = a.out /\ b.unwritable = a.unwritable
      /\ b.connecting = a.connecting /\ b.generation = a.generation
      /\ b.nextConn = a.nextConn /\ b.nextSubscription = a.nextSubscription
      /\ b.nextRequest = a.nextRequest /\ b.reconnectAt = a.reconnectAt
      /\ b.heartbeatAt = a.heartbeatAt /\ b.users = a.users
  BY SetFieldSame
<1>3. T \subseteq a.tasks
  OBVIOUS
<1>4. ActorOK(b)
  BY <1>0, <1>1, <1>2, <1>3 DEF ActorOK
<1>5. IsOpening(b) => IsOpening(a)
  BY <1>1, <1>2, <1>3 DEF IsOpening
<1>6. Disconnected(b) /\ Opening(b) /\ Quiet(b)
  BY <1>0, <1>1, <1>2, <1>3, <1>5 DEF Link, Disconnected, Opening, Quiet
<1>7. Owned(b) /\ OneRequest(b) /\ Listening(b)
  <2>1. Owned(b)
    BY <1>0, <1>2 DEF Link, Owned
  <2>2. OneRequest(b)
    BY <1>0, <1>2 DEF Link, OneRequest, Asks
  <2>3. Listening(b)
    BY <1>0, <1>2 DEF Link, Listening
  <2> QED
    BY <2>1, <2>2, <2>3
<1>8. Fetching(b)
  BY <1>0, <1>1, <1>2, <1>3 DEF Link, Fetching
<1>9. Wire(b, in) /\ Heard(b, in, S, {}) /\ Cursors(b)
  <2>1. Wire(b, in)
    BY <1>0, <1>2 DEF Wire
  <2>2. Heard(b, in, S, {})
    BY <1>0, <1>2 DEF Heard
  <2>3. ViewsAt(b)
    BY <1>0, <1>2 DEF Cursors, ViewsAt
  <2>4. AsksAt(b)
    BY <1>0, <1>2 DEF Wire, Cursors, AsksAt, Asks
  <2>5. SentAt(b)
    BY <1>0, <1>2 DEF Cursors, SentAt
  <2> QED
    BY <2>1, <2>2, <2>3, <2>4, <2>5 DEF Cursors
<1>10. Ids(b, in, S)
  BY <1>0, <1>1, <1>2, <1>3 DEF Ids, Unused
<1>11. Traced(b, in, S)
  BY <1>0, <1>2, TracedKept
<1>12. Crowd(b, A, {})
  BY <1>0, <1>2, SameSubs, CrowdKept
<1>13. AllAsk(b, X)
  <2> SUFFICES ASSUME NEW x \in DOMAIN b.subs, x \notin X PROVE IsAsking(b, x)
    BY DEF AllAsk
  <2>1. IsAsking(a, x)
    BY <1>0, <1>2 DEF AllAsk
  <2>2. CASE a.conn # None /\ (a.subs[x].sub # None \/ a.subs[x].retryAt)
    BY <1>2, <2>2 DEF IsAsking
  <2>3. CASE a.conn = None /\ a.reconnectAt /\ ~a.connecting
    BY <1>2, <2>3 DEF IsAsking
  <2>4. CASE a.conn = None /\ a.connecting /\ IsOpening(a)
    <3>1. PICK u \in a.tasks : u.kind = "open" /\ u.owner = a.generation
      BY <2>4 DEF IsOpening
    <3>2. u # t
      BY <1>2, <3>1 DEF Lost
    <3>3. IsOpening(b)
      BY <1>1, <1>2, <3>1, <3>2 DEF IsOpening
    <3> QED
      BY <1>2, <2>4, <3>3 DEF IsAsking
  <2>5. ASSUME NEW r \in DOMAIN a.pending, Asks(a, r, x),
               a.subs[x].ackDue = r \/ \E u \in a.tasks : u.kind = "subscribe" /\ u.request = r
        PROVE  IsAsking(b, x)
    <3>1. Asks(b, r, x)
      BY <1>2, <2>5 DEF Asks
    <3>2. CASE a.subs[x].ackDue = r
      BY <1>2, <3>1, <3>2 DEF IsAsking
    <3>3. ASSUME NEW u \in a.tasks, u.kind = "subscribe", u.request = r
          PROVE  IsAsking(b, x)
      <4>1. u # t
        BY <1>2, <2>5, <3>3 DEF Lost, Askers
      <4>2. u \in b.tasks
        BY <1>1, <4>1
      <4> QED
        BY <1>2, <3>1, <3>3, <4>2 DEF IsAsking
    <3> QED
      BY <2>5, <3>2, <3>3
  <2> QED
    BY <2>1, <2>2, <2>3, <2>4, <2>5 DEF IsAsking
<1>14. t.kind = "open" /\ t.owner = a.generation => ~IsOpening(b)
  <2> SUFFICES ASSUME t.kind = "open", t.owner = a.generation, IsOpening(b) PROVE FALSE
    OBVIOUS
  <2>1. PICK u \in T : u.kind = "open" /\ u.owner = a.generation
    BY <1>1, <1>2 DEF IsOpening
  <2>2. u = OpenTask(a.generation) /\ t = OpenTask(a.generation)
    BY <1>0, <2>1, Zenon DEF Link, Opening
  <2> QED
    BY <2>1, <2>2
<1> QED
  BY <1>0, <1>4, <1>6, <1>7, <1>8, <1>9, <1>10, <1>11, <1>12, <1>13, <1>14
     DEF Fine, Linked, Link

\* Nothing is being opened any more.
LEMMA IdleFine ==
  ASSUME NEW a, NEW in, NEW S, NEW A, NEW X, NEW Y, Fine(a, in, S, A, X, Y), ~IsOpening(a),
         DOMAIN a.subs \subseteq X, NEW b, SetField(a, b, "connecting", b.connecting),
         b.connecting = FALSE
  PROVE  Fine(b, in, S, A, X, Y)
<1>0. /\ Link(a) /\ Wire(a, in) /\ AllAsk(a, X) /\ Ids(a, in, S) /\ Heard(a, in, S, {})
      /\ Cursors(a) /\ Traced(a, in, S) /\ EndsOK(in, S) /\ ActorOK(a) /\ Crowd(a, A, Y)
  BY DEF Fine, Linked
<1>1. IsMap(b, Fields) /\ b.connecting \in BOOLEAN
  BY DEF SetField
<1>2. /\ b.subs = a.subs /\ b.pending = a.pending /\ b.bySub = a.bySub
      /\ b.unsubscribing = a.unsubscribing /\ b.idle = a.idle /\ b.conn = a.conn
      /\ b.writable = a.writable /\ b.out = a.out /\ b.unwritable = a.unwritable
      /\ b.generation = a.generation /\ b.tasks = a.tasks
      /\ b.nextConn = a.nextConn /\ b.nextSubscription = a.nextSubscription
      /\ b.nextRequest = a.nextRequest /\ b.reconnectAt = a.reconnectAt
      /\ b.heartbeatAt = a.heartbeatAt /\ b.users = a.users
  BY SetFieldSame
<1>4. ActorOK(b)
  BY <1>0, <1>1, <1>2 DEF ActorOK
<1>5. ~IsOpening(b)
  BY <1>2 DEF IsOpening
<1>6. Disconnected(b) /\ Opening(b) /\ Quiet(b)
  BY <1>0, <1>2, <1>5 DEF Link, Disconnected, Opening, Quiet
<1>7. Owned(b) /\ OneRequest(b) /\ Listening(b)
  <2>1. Owned(b)
    BY <1>0, <1>2 DEF Link, Owned
  <2>2. OneRequest(b)
    BY <1>0, <1>2 DEF Link, OneRequest, Asks
  <2>3. Listening(b)
    BY <1>0, <1>2 DEF Link, Listening
  <2> QED
    BY <2>1, <2>2, <2>3
<1>8. Fetching(b)
  BY <1>0, <1>2 DEF Link, Fetching
<1>9. Wire(b, in) /\ Heard(b, in, S, {}) /\ Cursors(b)
  <2>1. Wire(b, in)
    BY <1>0, <1>2 DEF Wire
  <2>2. Heard(b, in, S, {})
    BY <1>0, <1>2 DEF Heard
  <2>3. ViewsAt(b)
    BY <1>0, <1>2 DEF Cursors, ViewsAt
  <2>4. AsksAt(b)
    BY <1>0, <1>2 DEF Wire, Cursors, AsksAt, Asks
  <2>5. SentAt(b)
    BY <1>0, <1>2 DEF Cursors, SentAt
  <2> QED
    BY <2>1, <2>2, <2>3, <2>4, <2>5 DEF Cursors
<1>10. Ids(b, in, S)
  BY <1>0, <1>2 DEF Ids, Unused
<1>11. Traced(b, in, S)
  BY <1>0, <1>2, TracedKept
<1>12. Crowd(b, A, Y)
  BY <1>0, <1>2, SameSubs, CrowdKept
<1>13. AllAsk(b, X)
  BY <1>2 DEF AllAsk
<1> QED
  BY <1>0, <1>4, <1>6, <1>7, <1>8, <1>9, <1>10, <1>11, <1>12, <1>13 DEF Fine, Linked, Link

-----------------------------------------------------------------------------
(* attach *)

Attached(a, b) ==
  /\ IsMap(b, Fields) /\ b.nextConn = a.nextConn + 1 /\ b.conn = a.nextConn + 1
  /\ b.writable = TRUE /\ b.out = <<>> /\ b.heartbeatAt = TRUE
  /\ b.subs = a.subs /\ b.pending = a.pending /\ b.bySub = a.bySub
  /\ b.unsubscribing = a.unsubscribing /\ b.idle = a.idle /\ b.unwritable = a.unwritable
  /\ b.connecting = a.connecting /\ b.generation = a.generation /\ b.tasks = a.tasks
  /\ b.nextSubscription = a.nextSubscription /\ b.nextRequest = a.nextRequest
  /\ b.reconnectAt = a.reconnectAt /\ b.users = a.users

\* A socket that opened becomes the connection, writable and with nothing queued.
LEMMA AttachedEffect ==
  ASSUME NEW a, ActorOK(a)
  PROVE  Attached(a, [a EXCEPT !.nextConn = a.nextConn + 1, !.conn = a.nextConn + 1,
                               !.writable = TRUE, !.out = <<>>, !.heartbeatAt = TRUE])
<1> DEFINE id == a.nextConn + 1
           b == [a EXCEPT !.nextConn = id, !.conn = id, !.writable = TRUE, !.out = <<>>,
                          !.heartbeatAt = TRUE]
<1> HIDE DEF id
<1>1. IsMap(a, Fields)
  BY DEF ActorOK
<1>2. /\ IsMap(b, Fields) /\ b.nextConn = id /\ b.conn = id /\ b.writable = TRUE /\ b.out = <<>>
      /\ b.heartbeatAt = TRUE
      /\ \A f \in Fields \ {"nextConn", "conn", "writable", "out", "heartbeatAt"} : b[f] = a[f]
  BY <1>1, Zenon DEF IsMap, Fields
<1> HIDE DEF b
<1>3. /\ b.subs = a.subs /\ b.pending = a.pending /\ b.bySub = a.bySub
      /\ b.unsubscribing = a.unsubscribing /\ b.idle = a.idle /\ b.unwritable = a.unwritable
      /\ b.connecting = a.connecting /\ b.generation = a.generation /\ b.tasks = a.tasks
      /\ b.nextSubscription = a.nextSubscription /\ b.nextRequest = a.nextRequest
      /\ b.reconnectAt = a.reconnectAt /\ b.users = a.users
  BY <1>2, SMT DEF Fields
<1>4. Attached(a, b)
  BY <1>2, <1>3 DEF Attached, id
<1> QED
  BY <1>4 DEF b, id

\* On the new socket every account has yet to ask, and nothing else is open.
LEMMA AttachedFine ==
  ASSUME NEW a, NEW A, NEW X, Fine(a, <<>>, NoFunction, A, X, {}), DOMAIN a.subs # {},
         a.conn = None, a.connecting = FALSE, NEW b, Attached(a, b)
  PROVE  /\ Fine(b, <<>>, NoFunction, A, DOMAIN b.subs, {}) /\ b.conn # None
         /\ \A x \in DOMAIN b.subs : MayAsk(b, x)
<1> DEFINE in == <<>>
           S == NoFunction
<1>0. /\ Link(a) /\ Ids(a, in, S) /\ Wire(a, in)
      /\ Cursors(a) /\ EndsOK(in, S) /\ ActorOK(a) /\ Crowd(a, A, {})
  BY DEF Fine, Linked
<1>1. DOMAIN S = {} /\ DOMAIN in = {}
  BY NoMap
<1> HIDE DEF S
<1>2. /\ DOMAIN b.pending = {} /\ DOMAIN b.bySub = {} /\ DOMAIN b.out = {}
      /\ \A x \in DOMAIN b.subs :
           b.subs[x].sub = None /\ ~b.subs[x].retryAt /\ b.subs[x].ackDue = None
  BY <1>0 DEF Attached, Link, Disconnected
<1>3. b.conn # None
  BY <1>0 DEF Attached, ActorOK, None
<1>4. ActorOK(b)
  <2>1. b.conn \in Nat /\ b.nextConn \in Nat /\ <<>> \in Seq(ClientFrames)
    BY <1>0 DEF Attached, ActorOK
  <2> QED
    BY <1>0, <2>1 DEF Attached, ActorOK
<1>5. Disconnected(b) /\ Quiet(b)
  BY <1>3 DEF Disconnected, Quiet, Attached
<1>6. Opening(b)
  BY <1>0 DEF Attached, Opening, Link, IsOpening
<1>7. Owned(b) /\ OneRequest(b) /\ Listening(b)
  <2>1. Owned(b)
    BY <1>0 DEF Link, Owned, Attached
  <2>2. OneRequest(b)
    BY <1>0 DEF Link, OneRequest, Asks, Attached
  <2>3. Listening(b)
    BY <1>0 DEF Link, Listening, Attached
  <2> QED
    BY <2>1, <2>2, <2>3
<1>8. Fetching(b)
  BY <1>0, <1>2 DEF Link, Fetching, Attached
<1>9. Wire(b, in)
  BY <1>1, <1>2 DEF Wire
<1>10. Heard(b, in, S, {})
  BY <1>1 DEF Heard
<1>11. Cursors(b)
  <2>1. ViewsAt(b)
    BY <1>0, <1>2 DEF Cursors, ViewsAt, Attached
  <2>2. AsksAt(b)
    BY <1>0, <1>2 DEF Cursors, AsksAt, Asks, Attached
  <2>3. SentAt(b)
    BY <1>0, <1>2 DEF Cursors, SentAt, Attached
  <2> QED
    BY <2>1, <2>2, <2>3 DEF Cursors
<1>12. Ids(b, in, S)
  BY <1>0, <1>1, <1>2 DEF Ids, Attached
<1>13. Traced(b, in, S)
  BY <1>1, <1>2 DEF Traced, SubscribedIn
<1>14. Crowd(b, A, {})
  BY <1>0, SameSubs, CrowdKept DEF Attached
<1>15. AllAsk(b, DOMAIN b.subs)
  BY DEF AllAsk
<1>16. \A x \in DOMAIN b.subs : MayAsk(b, x)
  BY <1>2 DEF MayAsk
<1> QED
  BY <1>0, <1>3, <1>4, <1>5, <1>6, <1>7, <1>8, <1>9, <1>10, <1>11, <1>12, <1>13, <1>14, <1>15, <1>16
     DEF Fine, Linked, Link, S

AskStep(e, x, c) == Subscribe(c, x)
AskInv(e, s, b) ==
  /\ Fine(b, <<>>, NoFunction, e.A, e.D \ s, {}) /\ b.conn # None /\ DOMAIN b.subs = e.D
  /\ \A x \in e.D \ s : MayAsk(b, x)
Questions == INSTANCE FoldInduction WITH Step <- AskStep, Pick <- Chosen, Inv <- AskInv

\* attach asks for every account on the new socket and keeps the invariant.
LEMMA AttachFine ==
  ASSUME NEW a, NEW A, NEW X, Fine(a, <<>>, NoFunction, A, X, {}), DOMAIN a.subs # {},
         a.conn = None, a.connecting = FALSE
  PROVE  Fine(Attach(a), <<>>, NoFunction, A, {}, {}) /\ Attach(a).conn # None
<1> DEFINE g == [a EXCEPT !.nextConn = a.nextConn + 1, !.conn = a.nextConn + 1,
                          !.writable = TRUE, !.out = <<>>, !.heartbeatAt = TRUE]
           D == DOMAIN g.subs
           e == [A |-> A, D |-> D]
           b == Attach(a)
<1>1. e.A = A /\ e.D = D
  BY Zenon
<1> HIDE DEF e
<1>2. b = Questions!Over(e, g, D)
  BY Zenon DEF Attach, FoldSet, MapThenFoldSet, Questions!Over, Questions!MapThenFoldSet,
     AskStep, Chosen
<1>3. Attached(a, g)
  BY AttachedEffect DEF Fine
<1> HIDE DEF g
<1>4. /\ Fine(g, <<>>, NoFunction, A, D, {}) /\ g.conn # None
      /\ \A x \in D : MayAsk(g, x)
  BY <1>3, AttachedFine
<1>5. IsFiniteSet(D) /\ Questions!IsFiniteSet(D)
  <2>1. IsFiniteSet(D)
    BY <1>4, FiniteAccounts DEF Fine
  <2> QED
    BY <2>1, Zenon DEF IsFiniteSet, Questions!IsFiniteSet
<1>6. Questions!Picks(D)
  BY ChosenIsIn, Zenon DEF Questions!Picks
<1>7. AskInv(e, {}, g)
  <2>1. D \ {} = D
    OBVIOUS
  <2> QED
    BY <1>1, <1>4, <2>1, Zenon DEF AskInv
<1>8. ASSUME NEW s \in SUBSET D, NEW c, s # {}, AskInv(e, s \ {Chosen(s)}, c)
      PROVE  AskInv(e, s, AskStep(e, Chosen(s), c))
  <2> DEFINE x == Chosen(s)
             Y == D \ (s \ {x})
             d == Subscribe(c, x)
  <2>1. x \in s
    BY <1>8, ChosenIsIn
  <2> HIDE DEF x
  <2>2. /\ Fine(c, <<>>, NoFunction, A, Y, {}) /\ c.conn # None /\ DOMAIN c.subs = D
        /\ \A y \in Y : MayAsk(c, y)
    BY <1>1, <1>8, Zenon DEF AskInv, x
  <2>3. x \in DOMAIN c.subs /\ x \in Y /\ Y \ {x} = D \ s
    BY <2>1, <2>2
  <2>4. \A y \in D \ s : y # x /\ y \in Y
    BY <2>1
  <2> HIDE DEF Y
  <2>5. ActorOK(c) /\ Linked(c, <<>>, NoFunction, Y, {}) /\ Crowd(c, A, {}) /\ MayAsk(c, x)
    BY <2>2, <2>3 DEF Fine
  <2>6. Subscribed(c, d, x)
    BY <2>2, <2>3, <2>5, SubscribeEffect
  <2> HIDE DEF d
  <2>7. /\ ActorOK(d) /\ Linked(d, <<>>, NoFunction, Y \ {x}, {}) /\ SameCrowd(c, d)
        /\ SubscribeKeeps(c, d) /\ \A y : y # x /\ MayAsk(c, y) => MayAsk(d, y)
    BY <2>2, <2>5, <2>6, SubscribeLinked
  <2>8. Crowd(d, A, {})
    BY <2>5, <2>7, CrowdKept
  <2>9. d.conn # None /\ DOMAIN d.subs = D
    BY <2>2, <2>7 DEF SubscribeKeeps
  <2>10. Fine(d, <<>>, NoFunction, A, D \ s, {})
    BY <2>3, <2>7, <2>8, Zenon DEF Fine
  <2>11. \A y \in D \ s : MayAsk(d, y)
    BY <2>2, <2>4, <2>7, Zenon
  <2> QED
    BY <1>1, <2>9, <2>10, <2>11, Zenon DEF AskInv, AskStep, x, d
<1> HIDE DEF D, b
<1>9. AskInv(e, D, Questions!Over(e, g, D))
  BY <1>5, <1>6, <1>7, <1>8, Questions!FoldInduction, Zenon
<1>10. Fine(b, <<>>, NoFunction, A, D \ D, {}) /\ b.conn # None
  BY <1>1, <1>2, <1>9, Zenon DEF AskInv
<1>11. D \ D = {}
  OBVIOUS
<1> QED
  BY <1>10, <1>11 DEF b

-----------------------------------------------------------------------------
(* The results of tokens and sockets *)

\* The end of the opening task, current or of an older generation, keeps the invariant.
LEMMA OnOpenedFine ==
  ASSUME NEW a, NEW in, NEW S, NEW A, Fine(a, in, S, A, {}, {}),
         a.conn = None => in = <<>> /\ S = NoFunction,
         NEW t \in a.tasks, t.kind = "open", NEW result \in Results,
         NEW c, SetField(a, c, "tasks", a.tasks \ {t})
  PROVE  Fine(OnOpened(c, t.owner, result), in, S, A, {}, {})
<1> DEFINE z == OnOpened(c, t.owner, result)
           b == [c EXCEPT !.connecting = FALSE]
           D == DOMAIN c.subs
<1>1. /\ Fine(c, in, S, A, Lost(a, t), {})
      /\ t.owner = a.generation => ~IsOpening(c)
  BY TaskGone
<1>2. c.subs = a.subs /\ c.generation = a.generation /\ c.conn = a.conn
  BY SetFieldSame
<1>3. CASE t.owner # a.generation
  <2>1. z = c
    BY <1>2, <1>3, Zenon DEF OnOpened, Outlived
  <2>2. Lost(a, t) = {}
    BY <1>3 DEF Lost
  <2> QED
    BY <1>1, <2>1, <2>2
<1>4. CASE t.owner = a.generation
  <2>1. Lost(a, t) = D /\ ~IsOpening(c)
    BY <1>1, <1>2, <1>4 DEF Lost
  <2>2. a.conn = None /\ D # {}
    <3>1. IsOpening(a)
      BY <1>4 DEF IsOpening
    <3> QED
      BY <1>2, <3>1 DEF Fine, Linked, Link, Opening, Quiet
  <2>3. ActorOK(c)
    BY <1>1 DEF Fine
  <2>4. SetField(c, b, "connecting", FALSE)
    BY <2>3, SetFields DEF ActorOK
  <2>5. z = CASE result = "ok"      -> Attach(b)
              [] result = "refused" -> TerminateAll(b)
              [] result = "failed"  -> ScheduleReconnect(ReportAll(b))
    BY <1>2, <1>4, Zenon DEF OnOpened, Outlived
  <2> HIDE DEF b, z
  <2>6. b.connecting = FALSE /\ SetField(c, b, "connecting", b.connecting)
    BY <2>4, Zenon DEF SetField
  <2>7. b.subs = c.subs /\ b.conn = c.conn
    BY <2>6, SetFieldSame
  <2>8. Fine(b, in, S, A, D, {})
    BY <1>1, <2>1, <2>6, IdleFine
  <2>9. DOMAIN b.subs # {} /\ b.conn = None
    BY <1>2, <2>2, <2>7
  <2>10. CASE result = "ok"
    <3>1. z = Attach(b)
      BY <2>5, <2>10, Zenon
    <3>2. in = <<>> /\ S = NoFunction
      BY <2>2
    <3>3. Fine(b, <<>>, NoFunction, A, D, {})
      BY <2>8, <3>2
    <3>4. Fine(Attach(b), <<>>, NoFunction, A, {}, {})
      BY <2>6, <2>9, <3>3, AttachFine
    <3> QED
      BY <3>1, <3>2, <3>4 DEF z
  <2>11. CASE result = "refused"
    <3>1. z = TerminateAll(b)
      BY <2>5, <2>11, Zenon
    <3> QED
      BY <2>8, <3>1, TerminateAllFine DEF z
  <2>12. CASE result = "failed"
    <3>1. z = ScheduleReconnect(ReportAll(b))
      BY <2>5, <2>12, Zenon
    <3>2. Fine(ReportAll(b), in, S, A, D, {}) /\ ReportAll(b).conn = None
          /\ ReportAll(b).connecting = FALSE
          /\ DOMAIN ReportAll(b).subs # {}
      BY <2>6, <2>8, <2>9, ReportAllFine
    <3>3. Fine(ScheduleReconnect(ReportAll(b)), in, S, A, {}, {})
      BY <3>2, ScheduleReconnectFine
    <3> QED
      BY <3>1, <3>3 DEF z
  <2> QED
    BY <2>10, <2>11, <2>12 DEF Results
<1> QED
  BY <1>3, <1>4

\* A token of no account is refused to all of them.
LEMMA OnReauthFine ==
  ASSUME NEW a, NEW in, NEW S, NEW A, Fine(a, in, S, A, {}, {}),
         NEW t \in a.tasks, t.kind = "reauth", NEW result \in Results,
         NEW c, SetField(a, c, "tasks", a.tasks \ {t})
  PROVE  Fine(OnReauthToken(c, t.owner, result), in, S, A, {}, {})
<1> DEFINE z == OnReauthToken(c, t.owner, result)
<1>1. Fine(c, in, S, A, {}, {})
  <2>1. Lost(a, t) = {}
    BY DEF Lost
  <2> QED
    BY <2>1, TaskGone
<1>2. Fine(TerminateAll(c), in, S, A, {}, {}) /\ Fine(ReportAll(c), in, S, A, {}, {})
  BY <1>1, TerminateAllFine, ReportAllFine
<1>3. z \in {c, TerminateAll(c), ReportAll(c)}
  <2>1. CASE c.conn # t.owner
    BY <2>1, Zenon DEF OnReauthToken
  <2>2. CASE c.conn = t.owner /\ result = "ok"
    BY <2>2, Zenon DEF OnReauthToken
  <2>3. CASE c.conn = t.owner /\ result = "refused"
    BY <2>3, Zenon DEF OnReauthToken
  <2>4. CASE c.conn = t.owner /\ result = "failed"
    BY <2>4, Zenon DEF OnReauthToken
  <2> QED
    BY <2>1, <2>2, <2>3, <2>4 DEF Results
<1> HIDE DEF z
<1> QED
  BY <1>1, <1>2, <1>3 DEF z

-----------------------------------------------------------------------------
(* The token of a subscribe request *)

\* The acknowledgement of the request r is awaited.
LEMMA DueLinked ==
  ASSUME NEW a, ActorOK(a), NEW in, NEW S, NEW X, NEW K, Linked(a, in, S, X, K),
         NEW x \in DOMAIN a.subs, NEW r, Asks(a, r, x)
  PROVE  LET b == [a EXCEPT !.subs[x].ackDue = r]
         IN  /\ ActorOK(b) /\ Linked(b, in, S, X \ {x}, K) /\ SameCrowd(a, b)
             /\ SetSubKeeps(a, b) /\ b.bySub = a.bySub /\ DOMAIN b.subs = DOMAIN a.subs
             /\ \A y \in DOMAIN a.subs : b.subs[y].cursor = a.subs[y].cursor
<1> DEFINE t == [a.subs[x] EXCEPT !.ackDue = r]
           b == [a EXCEPT !.subs[x].ackDue = r]
<1>0. Link(a) /\ AllAsk(a, X) /\ Cursors(a) /\ Traced(a, in, S)
  BY DEF Linked
<1>1. IsSub(a.subs[x]) /\ r \in Nat /\ r \in DOMAIN a.pending /\ r <= a.nextRequest /\ a.conn # None
  BY <1>0 DEF ActorOK, SubsOK, PendingOK, Asks, Link, Owned, Disconnected
<1>2. IsSub(t) /\ KeepsSub(a.subs[x], t, {"ackDue"}) /\ t.ackDue = r
  BY <1>1, Zenon DEF IsSub, IsMap, SubFields, KeepsSub
<1>3. b = [a EXCEPT !.subs[x] = t]
  BY Zenon
<1> HIDE DEF t, b
<1>4. SetSub(a, b, x, t, {})
  BY <1>3, SetSubEffect
<1>5. SetSubKeeps(a, b) /\ b.bySub = a.bySub
  BY <1>4, SetSubFields
<1>6. ActorOK(b)
  <2>1. BySubOK(b.bySub)
    BY <1>5 DEF ActorOK
  <2> QED
    BY <1>2, <1>4, <2>1, SetSubOK
<1>7. /\ DOMAIN b.subs = DOMAIN a.subs /\ b.subs[x].ackDue = r
      /\ \A y \in DOMAIN a.subs : y # x => b.subs[y] = a.subs[y]
      /\ \A y \in DOMAIN a.subs :
           LET s == a.subs[y]
               u == b.subs[y]
           IN  /\ u.id = s.id /\ u.sub = s.sub /\ u.seq = s.seq /\ u.cursor = s.cursor
               /\ u.staged = s.staged /\ u.orders = s.orders /\ u.state = s.state
               /\ u.stale = s.stale /\ u.ready = s.ready /\ u.retryAt = s.retryAt
               /\ u.confirmed = s.confirmed /\ u.consumers = s.consumers
  <2>1. DOMAIN b.subs = DOMAIN a.subs /\ b.subs[x] = t
        /\ \A y \in DOMAIN a.subs : y # x => b.subs[y] = a.subs[y]
    BY <1>4 DEF SetSub
  <2>2. LET s == a.subs[x]
        IN  /\ t.id = s.id /\ t.sub = s.sub /\ t.seq = s.seq /\ t.cursor = s.cursor
            /\ t.staged = s.staged /\ t.orders = s.orders /\ t.state = s.state
            /\ t.stale = s.stale /\ t.ready = s.ready /\ t.retryAt = s.retryAt
            /\ t.confirmed = s.confirmed /\ t.consumers = s.consumers
    BY <1>2, SMT DEF KeepsSub, SubFields
  <2> QED
    BY <1>2, <2>1, <2>2
<1>8. SubsKept(a, b)
  BY <1>5, <1>7 DEF SubsKept
<1>9. b.pending = a.pending /\ b.conn = a.conn /\ b.tasks = a.tasks /\ b.bySub = a.bySub
      /\ b.generation = a.generation /\ b.reconnectAt = a.reconnectAt
      /\ b.connecting = a.connecting /\ b.out = a.out
  BY <1>5 DEF SetSubKeeps
<1>10. OneRequest(b)
  <2>1. \A y \in DOMAIN b.subs : b.subs[y].ackDue \in DOMAIN b.pending => Asks(b, b.subs[y].ackDue, y)
    <3> SUFFICES ASSUME NEW y \in DOMAIN b.subs, b.subs[y].ackDue \in DOMAIN b.pending
                 PROVE  Asks(b, b.subs[y].ackDue, y)
      OBVIOUS
    <3>1. CASE y = x
      BY <1>7, <1>9, <3>1 DEF Asks
    <3>2. CASE y # x
      BY <1>0, <1>7, <1>9, <3>2 DEF Asks, Link, OneRequest
    <3> QED
      BY <3>1, <3>2
  <2>2. \A y \in DOMAIN b.subs : \A q \in DOMAIN b.pending : Asks(b, q, y) =>
          /\ b.subs[y].sub = None /\ ~b.subs[y].retryAt
          /\ \A p \in DOMAIN b.pending : Asks(b, p, y) => p = q
    BY <1>0, <1>7, <1>9 DEF Asks, Link, OneRequest
  <2>3. \A y \in DOMAIN b.subs : b.subs[y].sub # None => ~b.subs[y].retryAt
    BY <1>0, <1>7 DEF Link, OneRequest
  <2> QED
    BY <2>1, <2>2, <2>3 DEF OneRequest
<1>11. Listening(b)
  BY <1>0, <1>7, <1>9 DEF Link, Listening
<1>12. AllAsk(b, X \ {x})
  <2> SUFFICES ASSUME NEW y \in DOMAIN b.subs, y \notin X \ {x} PROVE IsAsking(b, y)
    BY DEF AllAsk
  <2>1. CASE y = x
    <3>1. Asks(b, r, x)
      BY <1>9 DEF Asks
    <3>2. r \in DOMAIN b.pending
      BY <1>1, <1>9
    <3> QED
      BY <1>7, <2>1, <3>1, <3>2 DEF IsAsking
  <2>2. CASE y # x
    <3>1. IsAsking(a, y) /\ b.subs[y] = a.subs[y]
      BY <1>0, <1>7, <2>2 DEF AllAsk
    <3> QED
      BY <1>9, <3>1 DEF IsAsking, Asks, IsOpening
  <2> QED
    BY <2>1, <2>2
<1>13. Cursors(b)
  <2>1. \A i \in DOMAIN a.out : a.out[i].id \in DOMAIN a.pending =>
          a.pending[a.out[i].id].account \in DOMAIN a.subs
    BY <1>0 DEF Link, Owned
  <2> QED
    <3>1. ViewsAt(b)
      BY <1>0, <1>7, <1>9, <2>1 DEF Cursors, ViewsAt
    <3>2. AsksAt(b)
      BY <1>0, <1>7, <1>9, <2>1 DEF Cursors, AsksAt, Asks
    <3>3. SentAt(b)
      BY <1>0, <1>7, <1>9, <2>1 DEF Cursors, SentAt
    <3> QED
      BY <3>1, <3>2, <3>3 DEF Cursors
<1>14. Traced(b, in, S)
  <2>1. \A k \in DOMAIN a.pending : a.pending[k].account \in DOMAIN a.subs
    BY <1>0 DEF Link, Owned
  <2> QED
    BY <1>0, <1>7, <1>9, <2>1, TracedKept
<1>15. \A y \in DOMAIN a.subs : b.subs[y].ackDue <= a.nextRequest
  BY <1>0, <1>1, <1>7 DEF Link, Owned
<1>16. Linked(b, in, S, X \ {x}, K)
  BY <1>1, <1>8, <1>10, <1>11, <1>12, <1>13, <1>14, <1>15, SubsLinked
<1>17. SameCrowd(a, b)
  BY <1>5, <1>7 DEF SameCrowd, SetSubKeeps
<1> QED
  BY <1>5, <1>6, <1>7, <1>16, <1>17 DEF b

\* The token of a subscribe, late or failed ones too, keeps the invariant.
LEMMA OnSubscribeTokenFine ==
  ASSUME NEW a, NEW in, NEW S, NEW A, Fine(a, in, S, A, {}, {}),
         NEW t \in a.tasks, t.kind = "subscribe", NEW result \in Results,
         NEW c, SetField(a, c, "tasks", a.tasks \ {t})
  PROVE  Fine(OnSubscribeToken(c, t.owner, t.request, result), in, S, A, {}, {})
<1> DEFINE r == t.request
           x == c.pending[r].account
           z == OnSubscribeToken(c, t.owner, r, result)
           failed == DropRequest(c, r)
           due == [c EXCEPT !.subs[x].ackDue = r]
           frame == [kind |-> "subscribe", id |-> r, sub |-> None, account |-> x,
                     cursor |-> c.subs[x].cursor]
<1>0. /\ ActorOK(a) /\ Link(a) /\ Wire(a, in) /\ Ids(a, in, S) /\ Cursors(a)
  BY DEF Fine, Linked
<1>1. Fine(c, in, S, A, Askers(a, r), {})
  <2>1. Lost(a, t) = Askers(a, r)
    BY DEF Lost
  <2> QED
    BY <2>1, TaskGone
<1>2. /\ c.subs = a.subs /\ c.conn = a.conn /\ c.pending = a.pending /\ c.bySub = a.bySub
      /\ c.out = a.out /\ c.nextRequest = a.nextRequest
  BY SetFieldSame
<1>3. CASE r \notin DOMAIN a.pending
  <2>1. z = c
    BY <1>2, <1>3, Zenon DEF OnSubscribeToken
  <2>2. Askers(a, r) = {}
    BY <1>3 DEF Askers, Asks
  <2> QED
    BY <1>1, <2>1, <2>2
<1>4. CASE r \in DOMAIN a.pending
  <2>1. /\ Asks(a, r, x) /\ x \in DOMAIN c.subs /\ c.conn = t.owner /\ a.conn # None
        /\ r <= a.nextRequest /\ 0 < r /\ r \in Nat /\ x \in Accounts
    BY <1>0, <1>2, <1>4 DEF Link, Fetching, Owned, Asks, Disconnected, ActorOK, PendingOK, SubsOK
  <2>2. Askers(a, r) = {x}
    BY <1>2, <2>1 DEF Askers, Asks
  <2>3. Asks(c, r, x) /\ Askers(c, r) = {x}
    BY <1>2, <2>1 DEF Askers, Asks
  <2>4. /\ ActorOK(c) /\ Linked(c, in, S, {x}, {}) /\ Crowd(c, A, {})
    BY <1>1, <2>2 DEF Fine
  <2>5. /\ result = "refused" => z = Terminate(failed, x)
        /\ result = "failed" => z = RetrySubscribe(Report(failed, x), x)
        /\ result = "ok" => z = Send(due, frame)
    <3> DEFINE known == x \in DOMAIN c.subs
               sent == [kind |-> "subscribe", id |-> r, sub |-> None, account |-> x,
                        cursor |-> IF known THEN c.subs[x].cursor ELSE None]
    <3>1. r \in DOMAIN c.pending /\ known /\ c.conn = t.owner
      BY <1>2, <1>4, <2>1
    <3>2. z = CASE result = "refused" -> Terminate(failed, x)
                [] result = "failed"  -> RetrySubscribe(Report(failed, x), x)
                [] result = "ok" /\ c.conn # t.owner -> c
                [] result = "ok" /\ c.conn = t.owner -> Send(IF known THEN due ELSE c, sent)
      BY <3>1, Zenon DEF OnSubscribeToken, DropRequest
    <3>3. sent = frame /\ (IF known THEN due ELSE c) = due
      BY <3>1, Zenon
    <3> HIDE DEF sent, frame, due, failed, z, x, known
    <3>4. CASE result = "refused"
      BY <3>2, <3>4, Zenon
    <3>5. CASE result = "failed"
      BY <3>2, <3>5, Zenon
    <3>6. CASE result = "ok"
      <4>1. z = Send(IF known THEN due ELSE c, sent)
        BY <3>1, <3>2, <3>6, Zenon
      <4> QED
        BY <3>3, <3>6, <4>1, Zenon
    <3> QED
      BY <3>4, <3>5, <3>6, Zenon DEF Results
  <2>6. DropEffect(c, failed, r)
    BY <2>4, DropRequestEffect
  <2> HIDE DEF z, failed, x, r
  <2>7. /\ Fine(failed, in, S, A, {x}, {}) /\ MayAsk(failed, x) /\ failed.conn # None
        /\ x \in DOMAIN failed.subs
    <3>1. /\ ActorOK(failed) /\ Linked(failed, in, S, {x} \cup Askers(c, r), {})
          /\ SameCrowd(c, failed) /\ \A y \in Askers(c, r) : MayAsk(failed, y)
      BY <2>4, <2>6, DropLinked
    <3>2. {x} \cup Askers(c, r) = {x}
      BY <2>3
    <3>3. Crowd(failed, A, {})
      BY <2>4, <3>1, CrowdKept
    <3>4. failed.conn # None /\ x \in DOMAIN failed.subs
      BY <1>2, <2>1, <2>6 DEF DropEffect, PendingKeeps
    <3> QED
      BY <2>3, <3>1, <3>2, <3>3, <3>4 DEF Fine
  <2>8. CASE result = "refused"
    <3>1. z = Terminate(failed, x)
      BY <2>5, <2>8, Zenon
    <3>2. /\ Fine(Terminate(failed, x), in, S, A, {x}, {})
          /\ DOMAIN Terminate(failed, x).subs = DOMAIN failed.subs \ {x}
      BY <2>7, TerminateFine
    <3>3. AllAsk(Terminate(failed, x), {})
      BY <3>2 DEF Fine, Linked, AllAsk
    <3>4. Fine(Terminate(failed, x), in, S, A, {}, {})
      BY <3>2, <3>3 DEF Fine, Linked
    <3> QED
      BY <3>1, <3>4 DEF z, r
  <2>9. CASE result = "failed"
    <3> DEFINE d == Report(failed, x)
    <3>1. z = RetrySubscribe(d, x)
      BY <2>5, <2>9, Zenon
    <3>2. Fine(d, in, S, A, {x}, {}) /\ DeliverEffect(failed, d, x, "error", None)
      BY <2>7, ReportFine
    <3> HIDE DEF d
    <3>3. Alike(failed, d)
      BY <3>2, DeliverAlike
    <3>4. MayAsk(d, x) /\ d.conn # None
      BY <2>7, <3>3, AlikeFields DEF MayAsk, Asks
    <3>5. ActorOK(d) /\ Linked(d, in, S, {x}, {}) /\ Crowd(d, A, {})
      BY <3>2 DEF Fine
    <3> DEFINE g == RetrySubscribe(d, x)
    <3>6. ActorOK(g) /\ Linked(g, in, S, {x} \ {x}, {}) /\ SameCrowd(d, g)
      BY <3>4, <3>5, RetryLinked
    <3> HIDE DEF g
    <3>7. Crowd(g, A, {}) /\ {x} \ {x} = {}
      BY <3>5, <3>6, CrowdKept
    <3>8. Fine(g, in, S, A, {}, {})
      BY <3>6, <3>7 DEF Fine
    <3> QED
      BY <3>1, <3>8 DEF z, g, r
  <2>10. CASE result = "ok"
    <3>1. z = Send(due, frame)
      BY <2>5, <2>10, Zenon
    <3>2. /\ ActorOK(due) /\ Linked(due, in, S, {x} \ {x}, {}) /\ SameCrowd(c, due)
          /\ SetSubKeeps(c, due) /\ due.bySub = c.bySub /\ DOMAIN due.subs = DOMAIN c.subs
          /\ \A y \in DOMAIN c.subs : due.subs[y].cursor = c.subs[y].cursor
      BY <2>1, <2>3, <2>4, DueLinked
    <3> HIDE DEF due
    <3>3. /\ due.out = a.out /\ due.pending = a.pending /\ due.nextRequest = a.nextRequest
          /\ due.tasks = a.tasks \ {t} /\ due.bySub = a.bySub
          /\ due.subs[x].cursor = c.subs[x].cursor
      BY <1>2, <2>1, <3>2 DEF SetSubKeeps, SetField
    <3>4. /\ frame.kind = "subscribe" /\ frame.id = r /\ frame.sub = None
          /\ frame.account = x /\ frame.cursor = c.subs[x].cursor /\ frame \in ClientFrames
          /\ c.subs[x].cursor \in Nat
      <4>1. c.subs[x].cursor \in Nat
        BY <2>1, <2>4 DEF ActorOK, SubsOK, IsSub
      <4> QED
        BY <2>1, <4>1 DEF ClientFrames, None
    <3> HIDE DEF frame
    <3>5. MaySend(due, in, S, frame)
      <4>1. Unused(a, in, S, r) /\ \A i \in DOMAIN a.out : a.out[i].id # r
        BY <1>0, <1>4 DEF Ids, r
      <4>2. Unused(due, in, S, r)
        BY <3>3, <4>1 DEF Unused
      <4>3. \A u \in due.tasks : u.kind = "subscribe" => u.request # r
        BY <1>0, <3>3 DEF Link, Fetching, r
      <4>4. \A u \in due.tasks : u.kind = "subscribe" /\ u.request \in DOMAIN due.pending =>
              u.request # None
        BY <1>0, <3>3 DEF Link, Owned, None
      <4>5. \A i \in DOMAIN due.out : due.out[i].id # None
        BY <1>0, <3>3 DEF Wire, None
      <4>6. c.subs[x].cursor <= MaxHistory /\ None <= due.nextRequest
        <5>1. IsSub(c.subs[x])
          BY <2>1, <2>4 DEF ActorOK, SubsOK
        <5>2. None <= MaxHistory
          BY PrivateOrdersAssumption DEF None
        <5>3. c.subs = a.subs
          BY <1>2
        <5>4. c.subs[x].cursor <= MaxHistory
          <6>1. /\ a.subs[x].cursor # None => a.subs[x].orders = a.subs[x].cursor
                /\ a.subs[x].orders <= MaxHistory
            BY <1>0, <2>1, <5>3 DEF Cursors, ViewsAt
          <6> QED
            BY <5>2, <5>3, <6>1
        <5>5. None <= due.nextRequest
          BY <1>0, <3>3 DEF ActorOK, None
        <5> QED
          BY <5>4, <5>5
      <4>7. due.pending[r].account = x /\ due.pending[r].kind = "subscribe"
        BY <2>1, <3>3 DEF Asks
      <4> QED
        BY <2>1, <3>3, <3>4, <4>1, <4>2, <4>3, <4>4, <4>5, <4>6, <4>7 DEF MaySend
    <3> DEFINE g == Send(due, frame)
    <3>6. Sent(due, g, frame)
      BY <3>2, SendEffect
    <3> HIDE DEF g
    <3>7. {x} \ {x} = {} /\ Unheard({}, frame) = {}
      BY <3>4 DEF Unheard
    <3>8. ActorOK(g) /\ Linked(g, in, S, {}, {}) /\ SameCrowd(due, g)
      <4>1. Linked(due, in, S, {}, {}) /\ ActorOK(due)
        BY <3>2, <3>7
      <4>2. ActorOK(g) /\ Linked(g, in, S, {}, Unheard({}, frame)) /\ SameCrowd(due, g)
        BY <3>5, <3>6, <4>1, SendLinked
      <4> QED
        BY <3>7, <4>2
    <3>9. Crowd(g, A, {})
      BY <2>4, <3>2, <3>8, CrowdKept
    <3>10. Fine(g, in, S, A, {}, {})
      BY <3>8, <3>9 DEF Fine
    <3> QED
      BY <3>1, <3>10 DEF z, g, r
  <2> QED
    BY <2>8, <2>9, <2>10 DEF Results
<1> QED
  BY <1>3, <1>4

-----------------------------------------------------------------------------
(* The token of a refresh *)

\* A refresh is pending.
RefreshedKeeps(a, b) ==
  /\ b.conn = a.conn /\ b.writable = a.writable /\ b.out = a.out
  /\ b.heartbeatAt = a.heartbeatAt /\ b.bySub = a.bySub
  /\ b.connecting = a.connecting /\ b.generation = a.generation
  /\ b.nextSubscription = a.nextSubscription
  /\ b.reconnectAt = a.reconnectAt /\ b.subs = a.subs /\ b.users = a.users
  /\ b.unsubscribing = a.unsubscribing /\ b.idle = a.idle /\ b.unwritable = a.unwritable
  /\ b.nextConn = a.nextConn /\ b.tasks = a.tasks
Refreshed(a, b, request) ==
  LET r == a.nextRequest + 1
  IN  /\ IsMap(b, Fields) /\ RefreshedKeeps(a, b) /\ b.nextRequest = r
      /\ IsMap(b.pending, DOMAIN b.pending) /\ DOMAIN b.pending = DOMAIN a.pending \cup {r}
      /\ b.pending[r] = request
      /\ \A q \in DOMAIN a.pending : q # r => b.pending[q] = a.pending[q]

\* refresh registers a pending request under a fresh number.
LEMMA RefreshedEffect ==
  ASSUME NEW a, ActorOK(a), NEW request
  PROVE  Refreshed(a, [a EXCEPT !.nextRequest = a.nextRequest + 1,
                                !.pending = With(a.pending, a.nextRequest + 1, request)], request)
<1> DEFINE r == a.nextRequest + 1
           m == With(a.pending, r, request)
           b == [a EXCEPT !.nextRequest = r, !.pending = m]
<1>1. /\ IsMap(m, DOMAIN m) /\ DOMAIN m = DOMAIN a.pending \cup {r} /\ m[r] = request
      /\ \A q \in DOMAIN a.pending : q # r => m[q] = a.pending[q]
  BY Zenon DEF With, IsMap
<1> HIDE DEF r, m
<1>2. /\ IsMap(b, Fields) /\ b.nextRequest = r /\ b.pending = m
      /\ \A f \in Fields \ {"nextRequest", "pending"} : b[f] = a[f]
  BY Zenon DEF ActorOK, IsMap, Fields
<1> HIDE DEF b
<1>3. RefreshedKeeps(a, b)
  BY <1>2, SMT DEF Fields, RefreshedKeeps
<1>4. Refreshed(a, b, request)
  BY <1>1, <1>2, <1>3 DEF Refreshed, r
<1> QED
  BY <1>4 DEF b, m, r

\* A pending refresh of a streamed account keeps the link in order.
LEMMA RefreshedLinked ==
  ASSUME NEW a, ActorOK(a), NEW in, NEW S, NEW X, NEW K, Linked(a, in, S, X, K),
         NEW request \in Requests, request.kind = "refresh", request.account \in DOMAIN a.subs,
         request.subscription = a.subs[request.account].id, a.conn # None,
         NEW b, Refreshed(a, b, request)
  PROVE  ActorOK(b) /\ Linked(b, in, S, X, K) /\ SameCrowd(a, b)
<1> DEFINE r == a.nextRequest + 1
<1>0. /\ Link(a) /\ Wire(a, in) /\ AllAsk(a, X) /\ Ids(a, in, S) /\ Heard(a, in, S, K)
      /\ Cursors(a) /\ Traced(a, in, S) /\ EndsOK(in, S) /\ OutTypes(a) /\ TaskTypes(a) /\ InTypes(in)
  BY FrameTypes, InboxTypes DEF Linked
<1>1. r \in Nat /\ 0 < r /\ r # None /\ a.nextRequest \in Nat /\ a.nextRequest < r
  BY DEF ActorOK, None
<1>2. RefreshedKeeps(a, b) /\ b.nextRequest = r /\ DOMAIN b.pending = DOMAIN a.pending \cup {r}
      /\ b.pending[r] = request /\ \A q \in DOMAIN a.pending : q # r => b.pending[q] = a.pending[q]
  BY DEF Refreshed
<1>3. \A q \in DOMAIN a.pending : 0 < q /\ q <= a.nextRequest /\ q # r /\ q \in Nat
  <2>1. DOMAIN a.pending \in SUBSET Nat
    BY DEF ActorOK, PendingOK
  <2> QED
    BY <1>0, <1>1, <2>1 DEF Link, Owned
<1> HIDE DEF r
<1>4. \A q \in DOMAIN a.pending : q \in DOMAIN b.pending /\ b.pending[q] = a.pending[q]
  BY <1>2, <1>3
<1>5. ActorOK(b)
  <2>1. PendingOK(b.pending)
    BY <1>1, <1>2, <1>4 DEF ActorOK, PendingOK, Refreshed
  <2> QED
    BY <1>1, <1>2, <2>1 DEF ActorOK, Refreshed, RefreshedKeeps
<1>6. \A q, y : Asks(b, q, y) <=> Asks(a, q, y)
  BY <1>2, <1>3, <1>4 DEF Asks
<1>7. Disconnected(b) /\ Opening(b) /\ Quiet(b)
  BY <1>0, <1>2 DEF Link, Disconnected, Opening, Quiet, IsOpening, RefreshedKeeps
<1>8. Owned(b)
  <2>1. \A x \in DOMAIN a.subs : a.subs[x].ackDue <= r
    <3>1. \A x \in DOMAIN a.subs : a.subs[x].ackDue \in Nat /\ a.subs[x].ackDue <= a.nextRequest
      BY <1>0 DEF ActorOK, SubsOK, IsSub, Link, Owned
    <3> QED
      BY <1>1, <3>1
  <2>2. \A q \in DOMAIN b.pending :
          /\ 0 < q /\ q <= b.nextRequest
          /\ b.pending[q].account \in DOMAIN b.subs
          /\ b.subs[b.pending[q].account].id = b.pending[q].subscription
    <3> SUFFICES ASSUME NEW q \in DOMAIN b.pending
                 PROVE  /\ 0 < q /\ q <= b.nextRequest
                        /\ b.pending[q].account \in DOMAIN b.subs
                        /\ b.subs[b.pending[q].account].id = b.pending[q].subscription
      OBVIOUS
    <3>1. CASE q = r
      BY <1>1, <1>2, <3>1 DEF RefreshedKeeps
    <3>2. CASE q # r
      <4>1. q \in DOMAIN a.pending /\ b.pending[q] = a.pending[q]
        BY <1>2, <3>2
      <4>2. q <= r
        BY <1>1, <1>3, <4>1
      <4> QED
        BY <1>0, <1>2, <4>1, <4>2 DEF Link, Owned, RefreshedKeeps
    <3> QED
      BY <3>1, <3>2
  <2> QED
    BY <1>0, <1>2, <2>1, <2>2 DEF Link, Owned, RefreshedKeeps
<1>9. OneRequest(b)
  <2>1. \A x \in DOMAIN a.subs : a.subs[x].ackDue # r
    <3>1. \A x \in DOMAIN a.subs : a.subs[x].ackDue \in Nat /\ a.subs[x].ackDue <= a.nextRequest
      BY <1>0 DEF ActorOK, SubsOK, IsSub, Link, Owned
    <3> QED
      BY <1>1, <3>1
  <2>2. \A x \in DOMAIN b.subs : \A q \in DOMAIN b.pending : Asks(b, q, x) =>
          /\ b.subs[x].sub = None /\ ~b.subs[x].retryAt
          /\ \A p \in DOMAIN b.pending : Asks(b, p, x) => p = q
    <3>1. \A q, y : Asks(a, q, y) => q \in DOMAIN a.pending
      BY DEF Asks
    <3> QED
      BY <1>0, <1>2, <1>6, <3>1 DEF Link, OneRequest, RefreshedKeeps
  <2>3. \A x \in DOMAIN b.subs :
          /\ b.subs[x].sub # None => ~b.subs[x].retryAt
          /\ b.subs[x].ackDue \in DOMAIN b.pending => Asks(b, b.subs[x].ackDue, x)
    BY <1>0, <1>2, <1>6, <2>1 DEF Link, OneRequest, RefreshedKeeps
  <2> QED
    BY <2>2, <2>3 DEF OneRequest
<1>10. Fetching(b)
  <2>1. \A u \in a.tasks : u.kind = "subscribe" => u.request <= r /\ u.request # r
    <3>1. \A u \in a.tasks : u.kind = "subscribe" => u.request <= a.nextRequest /\ u.request \in Nat
      BY <1>0 DEF Link, Fetching, TaskTypes
    <3> QED
      BY <1>1, <3>1
  <2> QED
    BY <1>0, <1>2, <1>4, <2>1 DEF Link, Fetching, RefreshedKeeps
<1>11. Listening(b)
  BY <1>0, <1>2 DEF Link, Listening, RefreshedKeeps
<1>12. Wire(b, in)
  <2>1. \A i \in DOMAIN a.out : a.out[i].id <= r /\ a.out[i].id # r
    <3>1. \A i \in DOMAIN a.out : a.out[i].id <= a.nextRequest /\ a.out[i].id \in Nat
      BY <1>0 DEF Wire, OutTypes
    <3> QED
      BY <1>1, <3>1
  <2>2. \A i \in DOMAIN in : in[i].id <= r /\ in[i].id # r
    <3>1. \A i \in DOMAIN in : in[i].id <= a.nextRequest /\ in[i].id \in Nat
      BY <1>0 DEF Wire, InTypes
    <3> QED
      BY <1>1, <3>1
  <2> QED
    BY <1>0, <1>2, <1>4, <2>1, <2>2 DEF Wire, RefreshedKeeps
<1>13. Heard(b, in, S, K)
  BY <1>0, <1>2 DEF Heard, RefreshedKeeps
<1>14. AllAsk(b, X)
  <2> SUFFICES ASSUME NEW x \in DOMAIN b.subs, x \notin X PROVE IsAsking(b, x)
    BY DEF AllAsk
  <2>1. IsAsking(a, x)
    BY <1>0, <1>2 DEF AllAsk, RefreshedKeeps
  <2> QED
    BY <1>2, <1>4, <1>6, <2>1 DEF IsAsking, IsOpening, RefreshedKeeps
<1>15. Ids(b, in, S)
  <2>1. \A n \in Nat : n <= a.nextRequest => n <= r
    BY <1>1
  <2>2. \A u \in a.tasks : u.kind = "subscribe" => u.request # r
    <3>1. \A u \in a.tasks : u.kind = "subscribe" => u.request <= a.nextRequest /\ u.request \in Nat
      BY <1>0 DEF Link, Fetching, TaskTypes
    <3> QED
      BY <1>1, <3>1
  <2>3. \A k : Unused(a, in, S, k) <=> Unused(b, in, S, k)
    BY <1>2 DEF Unused, RefreshedKeeps
  <2>4. /\ \A i \in DOMAIN b.out : b.out[i].kind = "subscribe" =>
             /\ Unused(b, in, S, b.out[i].id)
             /\ \A j \in DOMAIN b.out : b.out[j].id = b.out[i].id => j = i
        /\ \A u \in b.tasks : u.kind = "subscribe" /\ u.request \in DOMAIN b.pending =>
             /\ Unused(b, in, S, u.request)
             /\ \A i \in DOMAIN b.out : b.out[i].id # u.request
    BY <1>0, <1>2, <2>2, <2>3 DEF Ids, RefreshedKeeps
  <2>5. \A i \in DOMAIN in :
          /\ in[i].kind \in {"unsubscribed", "unknown"} => in[i].sub \notin DOMAIN S
          /\ in[i].kind = "subscribed" => in[i].sub \notin DOMAIN b.bySub
          /\ in[i].kind = "subscribed" =>
               \A j \in DOMAIN in : in[j].kind = "subscribed" /\ in[j].sub = in[i].sub => i = j
          /\ in[i].sub <= b.nextRequest
    BY <1>0, <1>2, <2>1 DEF Ids, RefreshedKeeps, InTypes
  <2>6. \A k \in DOMAIN S : k <= b.nextRequest
    BY <1>0, <1>2, <2>1 DEF Ids, EndsOK
  <2>7. \A k \in DOMAIN b.bySub : k <= b.nextRequest
    BY <1>0, <1>2, <2>1 DEF Ids, RefreshedKeeps, ActorOK, BySubOK
  <2>8. \A i \in DOMAIN b.out : b.out[i].sub <= b.nextRequest
    BY <1>0, <1>2, <2>1 DEF Ids, RefreshedKeeps, OutTypes
  <2>9. \A u \in b.tasks : u.sub <= b.nextRequest
    BY <1>0, <1>2, <2>1 DEF Ids, RefreshedKeeps, TaskTypes
  <2> QED
    BY <2>4, <2>5, <2>6, <2>7, <2>8, <2>9 DEF Ids
<1>16. Cursors(b)
  <2>1. \A i \in DOMAIN a.out : a.out[i].id # r
    <3>1. \A i \in DOMAIN a.out : a.out[i].id <= a.nextRequest /\ a.out[i].id \in Nat
      BY <1>0 DEF Wire, OutTypes
    <3> QED
      BY <1>1, <3>1
  <2> QED
    <3>1. ViewsAt(b)
      BY <1>0, <1>2, <1>4, <2>1 DEF Cursors, ViewsAt, RefreshedKeeps
    <3>2. AsksAt(b)
      BY <1>0, <1>2, <1>4, <2>1 DEF Cursors, AsksAt, Asks, RefreshedKeeps
    <3>3. SentAt(b)
      BY <1>0, <1>2, <1>4, <2>1 DEF Cursors, SentAt, RefreshedKeeps
    <3> QED
      BY <3>1, <3>2, <3>3 DEF Cursors
<1>17. Traced(b, in, S)
  <2>1. \A k : k \in DOMAIN b.pending /\ b.pending[k].kind = "subscribe" =>
          k \in DOMAIN a.pending /\ b.pending[k] = a.pending[k]
    BY <1>2
  <2> QED
    BY <1>0, <1>2, <2>1, TracedKept DEF RefreshedKeeps
<1>18. SameCrowd(a, b)
  BY <1>2, SameSubs DEF RefreshedKeeps
<1> QED
  BY <1>0, <1>5, <1>7, <1>8, <1>9, <1>10, <1>11, <1>12, <1>13, <1>14, <1>15, <1>16, <1>17, <1>18
     DEF Linked, Link

\* The token of a refresh, late or failed ones too, keeps the invariant.
LEMMA OnRefreshTokenFine ==
  ASSUME NEW a, NEW in, NEW S, NEW A, Fine(a, in, S, A, {}, {}),
         NEW t \in a.tasks, t.kind = "refresh", NEW result \in Results,
         NEW c, SetField(a, c, "tasks", a.tasks \ {t})
  PROVE  Fine(OnRefreshToken(c, t.owner, t.account, t.sub, result), in, S, A, {}, {})
<1> DEFINE x == t.account
           k == t.sub
           z == OnRefreshToken(c, t.owner, x, k, result)
           r == c.nextRequest + 1
           request == [kind |-> "refresh", account |-> x, subscription |-> c.subs[x].id]
           b == [c EXCEPT !.nextRequest = c.nextRequest + 1,
                          !.pending = With(c.pending, c.nextRequest + 1, request)]
           frame == [kind |-> "refresh", id |-> r, sub |-> k, account |-> x, cursor |-> None]
<1>1. Fine(c, in, S, A, {}, {})
  <2>1. Lost(a, t) = {}
    BY DEF Lost
  <2> QED
    BY <2>1, TaskGone
<1>2. ActorOK(c) /\ Linked(c, in, S, {}, {}) /\ Crowd(c, A, {})
  BY <1>1 DEF Fine
<1>3. k # None
  BY DEF Fine, Linked, Link, Fetching
<1>4. CASE x \notin DOMAIN c.subs \/ c.conn # t.owner \/ c.subs[x].sub # k
  <2>1. z = c
    BY <1>4, Zenon DEF OnRefreshToken
  <2> QED
    BY <1>1, <2>1
<1>5. CASE x \in DOMAIN c.subs /\ c.conn = t.owner /\ c.subs[x].sub = k /\ result # "ok"
  <2>1. z = Report(c, x)
    BY <1>5, Zenon DEF OnRefreshToken
  <2> QED
    BY <1>1, <2>1, ReportFine
<1>6. CASE x \in DOMAIN c.subs /\ c.conn = t.owner /\ c.subs[x].sub = k /\ result = "ok"
  <2>1. z = Send(b, frame)
    <3>1. z = Send([c EXCEPT !.nextRequest = r, !.pending = With(@, r, request)], frame)
      BY <1>6, Zenon DEF OnRefreshToken
    <3> QED
      BY <3>1, Zenon
  <2>2. Refreshed(c, b, request)
    BY <1>2, RefreshedEffect, Zenon
  <2>3. /\ request \in Requests /\ request.kind = "refresh" /\ request.account = x
        /\ request.subscription = c.subs[x].id /\ x \in Accounts
    <3>1. x \in Accounts /\ c.subs[x].id \in Nat
      BY <1>2, <1>6 DEF ActorOK, SubsOK, IsSub
    <3> QED
      BY <3>1 DEF Requests
  <2> HIDE DEF b, request, z
  <2>4. /\ Link(c) /\ Wire(c, in) /\ Ids(c, in, S) /\ OutTypes(c) /\ TaskTypes(c)
    BY <1>2, FrameTypes DEF Linked
  <2>5. c.conn # None /\ k \in DOMAIN c.bySub /\ c.bySub[k] = x
    BY <1>3, <1>6, <2>4 DEF Link, Disconnected, Listening
  <2>6. ActorOK(b) /\ Linked(b, in, S, {}, {}) /\ SameCrowd(c, b)
    BY <1>2, <1>6, <2>2, <2>3, <2>5, RefreshedLinked
  <2>7. r \in Nat /\ 0 < r /\ r # None /\ c.nextRequest \in Nat /\ c.nextRequest < r
    BY <1>2 DEF ActorOK, None
  <2>8. /\ b.nextRequest = r /\ b.out = c.out /\ b.tasks = c.tasks
        /\ DOMAIN b.pending = DOMAIN c.pending \cup {r} /\ b.pending[r] = request
    BY <2>2 DEF Refreshed, RefreshedKeeps
  <2>9. k \in Nat /\ k <= c.nextRequest
    BY <1>2, <2>4, <2>5 DEF ActorOK, BySubOK, Ids
  <2>10. /\ frame.kind = "refresh" /\ frame.id = r /\ frame.sub = k
         /\ frame.account = x /\ frame.cursor = None /\ frame \in ClientFrames
    BY <2>3, <2>7, <2>9 DEF ClientFrames, None
  <2> HIDE DEF frame, r
  <2>11. MaySend(b, in, S, frame)
    <3>1. \A i \in DOMAIN b.out : b.out[i].id # r
      <4>1. \A i \in DOMAIN c.out : c.out[i].id <= c.nextRequest /\ c.out[i].id \in Nat
        BY <2>4 DEF Wire, OutTypes
      <4> QED
        BY <2>7, <2>8, <4>1
    <3>2. \A i \in DOMAIN b.out : b.out[i].kind = "subscribe" => b.out[i].id # k
      BY <2>4, <2>5, <2>8 DEF Ids, Unused
    <3>3. \A u \in b.tasks : u.kind = "subscribe" =>
            /\ u.request # r
            /\ u.request \in DOMAIN c.pending => u.request # k
      <4>1. \A u \in c.tasks : u.kind = "subscribe" => u.request <= c.nextRequest /\ u.request \in Nat
        BY <2>4 DEF Link, Fetching, TaskTypes
      <4>2. \A u \in c.tasks : u.kind = "subscribe" /\ u.request \in DOMAIN c.pending =>
              u.request # k
        BY <2>4, <2>5 DEF Ids, Unused
      <4> QED
        BY <2>7, <2>8, <4>1, <4>2
    <3>4. r <= r /\ k <= r /\ None <= MaxHistory
      BY <2>7, <2>9, PrivateOrdersAssumption DEF None
    <3> QED
      BY <1>3, <2>3, <2>7, <2>8, <2>10, <3>1, <3>2, <3>3, <3>4 DEF MaySend
  <2> DEFINE g == Send(b, frame)
  <2>12. Sent(b, g, frame)
    BY <2>6, SendEffect
  <2> HIDE DEF g
  <2>13. ActorOK(g) /\ Linked(g, in, S, {}, Unheard({}, frame)) /\ SameCrowd(b, g)
    BY <2>6, <2>11, <2>12, SendLinked
  <2>14. Unheard({}, frame) = {}
    BY <2>10 DEF Unheard
  <2>15. Crowd(g, A, {})
    BY <1>2, <2>6, <2>13, CrowdKept
  <2>16. Fine(g, in, S, A, {}, {})
    BY <2>13, <2>14, <2>15 DEF Fine
  <2> QED
    BY <2>1, <2>16 DEF z, g
<1> QED
  BY <1>4, <1>5, <1>6

=============================================================================
