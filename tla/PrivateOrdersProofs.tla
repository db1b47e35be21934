------------------------ MODULE PrivateOrdersProofs -------------------------
(***************************************************************************)
(* Theorems about the private order streams: the type invariant and the    *)
(* seven safety invariants of PrivateOrders, for every set of accounts and *)
(* of consumers and every value of the bounds.                             *)
(*                                                                         *)
(* They follow from the inductive invariant of PrivateOrdersLemmas.  What  *)
(* is left of the induction comes first: what the server sends and what    *)
(* the actor makes of each kind of frame.                                  *)
(***************************************************************************)
EXTENDS PrivateOrdersLemmas

-----------------------------------------------------------------------------
(* Frames of the server *)

\* rest is what remains of the frames in after the first.
RestOf(in, rest) ==
  /\ \A i \in DOMAIN rest : i \in Nat /\ i + 1 \in DOMAIN in /\ rest[i] = in[i + 1]
  /\ \A j \in DOMAIN in : j = 1 \/ (j - 1 \in DOMAIN rest /\ rest[j - 1] = in[j])

\* Reading the first frame leaves the others in their order.
LEMMA TailIs ==
  ASSUME NEW in \in Seq(Frames), in # <<>>
  PROVE  /\ Tail(in) \in Seq(Frames) /\ RestOf(in, Tail(in)) /\ 1 \in DOMAIN in
         /\ Head(in) = in[1] /\ in[1] \in Frames
<1>1. /\ Tail(in) \in Seq(Frames) /\ Len(in) \in Nat /\ Len(in) > 0 /\ DOMAIN in = 1..Len(in)
      /\ DOMAIN Tail(in) = 1..(Len(in) - 1)
      /\ \A i \in 1..(Len(in) - 1) : Tail(in)[i] = in[i + 1]
      /\ Head(in) = in[1] /\ in[1] \in Frames
  BY SMT
<1> QED
  BY <1>1, SMT DEF RestOf

\* What a Subscribed frame opens is to be heard of in another way.
Opens(f) == IF f.kind = "subscribed" THEN {f.sub} ELSE {}

\* Reading a frame keeps the link in order, but for the subscription that a read confirmation
\* opened.
LEMMA TailLinked ==
  ASSUME NEW a, NEW in, in # <<>>, NEW S, NEW X, Linked(a, in, S, X, {})
  PROVE  /\ Linked(a, Tail(in), S, X, Opens(in[1])) /\ Tail(in) \in Seq(Frames)
         /\ RestOf(in, Tail(in)) /\ 1 \in DOMAIN in /\ in[1] \in Frames
<1> DEFINE rest == Tail(in)
           f == in[1]
<1>0. /\ Link(a) /\ Wire(a, in) /\ AllAsk(a, X) /\ Ids(a, in, S) /\ Heard(a, in, S, {})
      /\ Cursors(a) /\ Traced(a, in, S) /\ EndsOK(in, S)
  BY DEF Linked
<1>1. rest \in Seq(Frames) /\ RestOf(in, rest) /\ 1 \in DOMAIN in /\ f \in Frames
  BY <1>0, TailIs DEF EndsOK
<1> HIDE DEF rest, f
<1>2. \A i \in DOMAIN rest : \E j \in DOMAIN in : rest[i] = in[j]
  BY <1>1 DEF RestOf
<1>3. EndsOK(rest, S)
  BY <1>0, <1>1 DEF EndsOK
<1>4. Wire(a, rest)
  <2>1. \A i \in DOMAIN rest :
          /\ rest[i].id <= a.nextRequest
          /\ rest[i].kind = "subscribed" =>
               /\ rest[i].sub = rest[i].id /\ rest[i].id # None
               /\ rest[i].id \in DOMAIN a.pending => a.pending[rest[i].id].kind = "subscribe"
          /\ rest[i].kind = "refreshed" =>
               (rest[i].id \in DOMAIN a.pending => a.pending[rest[i].id].kind = "refresh")
          /\ rest[i].kind = "unknown" /\ rest[i].id # None => rest[i].sub # None
          /\ rest[i].kind \in Numbered => rest[i].seq # 0
    <3> TAKE i \in DOMAIN rest
    <3>1. PICK j \in DOMAIN in : rest[i] = in[j]
      BY <1>2
    <3> QED
      BY <1>0, <3>1 DEF Wire
  <2> QED
    BY <1>0, <2>1 DEF Wire
<1>5. Ids(a, rest, S)
  <2>1. \A n : Unused(a, in, S, n) => Unused(a, rest, S, n)
    BY <1>2 DEF Unused
  <2>2. \A i \in DOMAIN rest :
          /\ rest[i].kind \in {"unsubscribed", "unknown"} => rest[i].sub \notin DOMAIN S
          /\ rest[i].kind = "subscribed" => rest[i].sub \notin DOMAIN a.bySub
          /\ rest[i].sub <= a.nextRequest
    <3> TAKE i \in DOMAIN rest
    <3>1. PICK j \in DOMAIN in : rest[i] = in[j]
      BY <1>2
    <3> QED
      BY <1>0, <3>1 DEF Ids
  <2>3. \A i, j \in DOMAIN rest :
          rest[i].kind = "subscribed" /\ rest[j].kind = "subscribed" /\ rest[j].sub = rest[i].sub => i = j
    <3> SUFFICES ASSUME NEW i \in DOMAIN rest, NEW j \in DOMAIN rest,
                        rest[i].kind = "subscribed", rest[j].kind = "subscribed",
                        rest[j].sub = rest[i].sub
                 PROVE  i = j
      OBVIOUS
    <3>1. /\ i \in Nat /\ j \in Nat /\ i + 1 \in DOMAIN in /\ j + 1 \in DOMAIN in
          /\ rest[i] = in[i + 1] /\ rest[j] = in[j + 1]
      BY <1>1 DEF RestOf
    <3>2. i + 1 = j + 1
      BY <1>0, <3>1 DEF Ids
    <3> QED
      BY <3>1, <3>2
  <2> QED
    BY <1>0, <2>1, <2>2, <2>3 DEF Ids
<1>6. Heard(a, rest, S, Opens(f))
  <2>1. \A k : k \in SubscribedIn(in) => k \in SubscribedIn(rest) \/ k \in Opens(f)
    <3> TAKE k
    <3> SUFFICES ASSUME k \in SubscribedIn(in)
                 PROVE  k \in SubscribedIn(rest) \/ k \in Opens(f)
      OBVIOUS
    <3>1. PICK j \in DOMAIN in : in[j].kind = "subscribed" /\ in[j].sub = k
      BY DEF SubscribedIn
    <3>2. CASE j = 1
      BY <3>1, <3>2 DEF Opens, f
    <3>3. CASE j # 1
      <4>1. j - 1 \in DOMAIN rest /\ rest[j - 1] = in[j]
        BY <1>1, <3>3 DEF RestOf
      <4> QED
        BY <3>1, <4>1 DEF SubscribedIn
    <3> QED
      BY <3>2, <3>3
  <2> QED
    BY <1>0, <2>1 DEF Heard
<1>7. Traced(a, rest, S)
  <2>1. SubscribedIn(rest) \subseteq SubscribedIn(in)
    BY <1>2 DEF SubscribedIn
  <2>2. ASSUME NEW k \in DOMAIN a.bySub \cup SubscribedIn(rest)
        PROVE  \E L, tr, b : Follow(a, rest, S, k, L, tr, b)
    <3>1. PICK L, tr, b : Follow(a, in, S, k, L, tr, b)
      BY <1>0, <2>1, <2>2 DEF Traced
    <3>2. \A i \in DOMAIN rest : rest[i].sub = k /\ rest[i].seq # 0 =>
            rest[i].seq <= L /\ Legal(tr[rest[i].seq - 1], rest[i], tr[rest[i].seq], b)
      <4> TAKE i \in DOMAIN rest
      <4>1. PICK j \in DOMAIN in : rest[i] = in[j]
        BY <1>2
      <4> QED
        BY <3>1, <4>1 DEF Follow
    <3>3. Follow(a, rest, S, k, L, tr, b)
      BY <3>1, <3>2 DEF Follow
    <3> QED
      BY <3>3
  <2> QED
    BY <2>2 DEF Traced
<1>8. Linked(a, rest, S, X, Opens(f))
  BY <1>0, <1>3, <1>4, <1>5, <1>6, <1>7 DEF Linked
<1> QED
  BY <1>1, <1>8 DEF rest, f

\* Frames that open nothing.
LEMMA TailFine ==
  ASSUME NEW a, NEW in, in # <<>>, NEW S, NEW A, Fine(a, in, S, A, {}, {}),
         in[1].kind # "subscribed"
  PROVE  Fine(a, Tail(in), S, A, {}, {})
<1>1. Linked(a, Tail(in), S, {}, Opens(in[1]))
  BY TailLinked DEF Fine
<1>2. Opens(in[1]) = {}
  BY DEF Opens
<1> QED
  BY <1>1, <1>2 DEF Fine

\* The heartbeat of a socket that is there.
LEMMA BeatFine ==
  ASSUME NEW a, NEW in, NEW S, NEW A, NEW X, NEW Y, Fine(a, in, S, A, X, Y), a.conn # None,
         NEW b, SetField(a, b, "heartbeatAt", b.heartbeatAt), b.heartbeatAt \in BOOLEAN
  PROVE  Fine(b, in, S, A, X, Y)
<1>0. /\ Link(a) /\ Wire(a, in) /\ AllAsk(a, X) /\ Ids(a, in, S) /\ Heard(a, in, S, {})
      /\ Cursors(a) /\ Traced(a, in, S) /\ EndsOK(in, S) /\ ActorOK(a) /\ Crowd(a, A, Y)
  BY DEF Fine, Linked
<1>1. /\ b.conn = a.conn /\ b.writable = a.writable /\ b.out = a.out
      /\ b.reconnectAt = a.reconnectAt /\ b.bySub = a.bySub /\ b.pending = a.pending
      /\ b.connecting = a.connecting /\ b.generation = a.generation
      /\ b.nextSubscription = a.nextSubscription /\ b.nextRequest = a.nextRequest
      /\ b.subs = a.subs /\ b.users = a.users /\ b.idle = a.idle
      /\ b.unsubscribing = a.unsubscribing /\ b.nextConn = a.nextConn /\ b.tasks = a.tasks
      /\ b.unwritable = a.unwritable
  BY SetFieldSame
<1>2. ActorOK(b)
  BY <1>0, <1>1 DEF ActorOK, SetField
<1>3. Disconnected(b) /\ Opening(b) /\ Owned(b) /\ OneRequest(b) /\ Fetching(b) /\ Listening(b)
  <2>1. Disconnected(b)
    BY <1>0, <1>1 DEF Link, Disconnected
  <2>2. Opening(b)
    BY <1>0, <1>1 DEF Link, Opening, IsOpening
  <2>3. Owned(b)
    BY <1>0, <1>1 DEF Link, Owned
  <2>4. OneRequest(b)
    BY <1>0, <1>1 DEF Link, OneRequest, Asks
  <2>5. Fetching(b)
    BY <1>0, <1>1 DEF Link, Fetching
  <2>6. Listening(b)
    BY <1>0, <1>1 DEF Link, Listening
  <2> QED
    BY <2>1, <2>2, <2>3, <2>4, <2>5, <2>6
<1>4. Quiet(b)
  <2>1. DOMAIN a.subs # {}
    BY <1>0 DEF Link, Quiet
  <2> QED
    BY <1>1, <2>1 DEF Quiet
<1>5. Wire(b, in) /\ Heard(b, in, S, {}) /\ Cursors(b) /\ Ids(b, in, S)
  <2>1. Wire(b, in)
    BY <1>0, <1>1 DEF Wire
  <2>2. Heard(b, in, S, {})
    BY <1>0, <1>1 DEF Heard
  <2>3. ViewsAt(b)
    BY <1>0, <1>1 DEF Cursors, ViewsAt
  <2>4. AsksAt(b)
    BY <1>0, <1>1 DEF Wire, Cursors, AsksAt, Asks
  <2>5. SentAt(b)
    BY <1>0, <1>1 DEF Cursors, SentAt
  <2>6. Ids(b, in, S)
    BY <1>0, <1>1 DEF Ids, Unused
  <2> QED
    BY <2>1, <2>2, <2>3, <2>4, <2>5, <2>6 DEF Cursors
<1>6. AllAsk(b, X)
  BY <1>0, <1>1 DEF AllAsk, IsAsking, Asks, IsOpening
<1>7. Traced(b, in, S)
  BY <1>0, <1>1, TracedKept
<1>8. Crowd(b, A, Y)
  BY <1>0, <1>1, SameSubs, CrowdKept
<1> QED
  BY <1>0, <1>2, <1>3, <1>4, <1>5, <1>6, <1>7, <1>8 DEF Fine, Linked, Link

\* An Unsubscribe that was answered.
LEMMA AnsweredFine ==
  ASSUME NEW a, NEW in, NEW S, NEW A, NEW X, NEW Y, Fine(a, in, S, A, X, Y), NEW v \in SUBSET Nat,
         NEW b, SetField(a, b, "unsubscribing", v)
  PROVE  Fine(b, in, S, A, X, Y)
<1>0. /\ Link(a) /\ Wire(a, in) /\ AllAsk(a, X) /\ Ids(a, in, S) /\ Heard(a, in, S, {})
      /\ Cursors(a) /\ Traced(a, in, S) /\ EndsOK(in, S) /\ ActorOK(a) /\ Crowd(a, A, Y)
  BY DEF Fine, Linked
<1>1. /\ b.conn = a.conn /\ b.writable = a.writable /\ b.out = a.out
      /\ b.reconnectAt = a.reconnectAt /\ b.bySub = a.bySub /\ b.pending = a.pending
      /\ b.connecting = a.connecting /\ b.generation = a.generation
      /\ b.nextSubscription = a.nextSubscription /\ b.nextRequest = a.nextRequest
      /\ b.subs = a.subs /\ b.users = a.users /\ b.idle = a.idle
      /\ b.heartbeatAt = a.heartbeatAt /\ b.nextConn = a.nextConn /\ b.tasks = a.tasks
      /\ b.unwritable = a.unwritable
  BY SetFieldSame
<1>2. ActorOK(b)
  BY <1>0, <1>1 DEF ActorOK, SetField
<1>3. Disconnected(b) /\ Opening(b) /\ Owned(b) /\ OneRequest(b) /\ Fetching(b) /\ Listening(b)
      /\ Quiet(b)
  <2>1. Disconnected(b)
    BY <1>0, <1>1 DEF Link, Disconnected
  <2>2. Opening(b)
    BY <1>0, <1>1 DEF Link, Opening, IsOpening
  <2>3. Owned(b)
    BY <1>0, <1>1 DEF Link, Owned
  <2>4. OneRequest(b)
    BY <1>0, <1>1 DEF Link, OneRequest, Asks
  <2>5. Fetching(b)
    BY <1>0, <1>1 DEF Link, Fetching
  <2>6. Listening(b)
    BY <1>0, <1>1 DEF Link, Listening
  <2>7. Quiet(b)
    BY <1>0, <1>1 DEF Link, IsOpening, Quiet
  <2> QED
    BY <2>1, <2>2, <2>3, <2>4, <2>5, <2>6, <2>7
<1>5. Wire(b, in) /\ Heard(b, in, S, {}) /\ Cursors(b) /\ Ids(b, in, S)
  <2>1. Wire(b, in)
    BY <1>0, <1>1 DEF Wire
  <2>2. Heard(b, in, S, {})
    BY <1>0, <1>1 DEF Heard
  <2>3. ViewsAt(b)
    BY <1>0, <1>1 DEF Cursors, ViewsAt
  <2>4. AsksAt(b)
    BY <1>0, <1>1 DEF Wire, Cursors, AsksAt, Asks
  <2>5. SentAt(b)
    BY <1>0, <1>1 DEF Cursors, SentAt
  <2>6. Ids(b, in, S)
    BY <1>0, <1>1 DEF Ids, Unused
  <2> QED
    BY <2>1, <2>2, <2>3, <2>4, <2>5, <2>6 DEF Cursors
<1>6. AllAsk(b, X)
  BY <1>0, <1>1 DEF AllAsk, IsAsking, Asks, IsOpening
<1>7. Traced(b, in, S)
  BY <1>0, <1>1, TracedKept
<1>8. Crowd(b, A, Y)
  BY <1>0, <1>1, SameSubs, CrowdKept
<1> QED
  BY <1>0, <1>2, <1>3, <1>5, <1>6, <1>7, <1>8 DEF Fine, Linked, Link

\* A request that asked for no account is over.
LEMMA DropFine ==
  ASSUME NEW a, NEW in, NEW S, NEW A, NEW X, NEW Y, Fine(a, in, S, A, X, Y), NEW r,
         r \in DOMAIN a.pending => a.pending[r].kind # "subscribe"
  PROVE  /\ Fine(DropRequest(a, r), in, S, A, X, Y) /\ DropEffect(a, DropRequest(a, r), r)
<1>1. DropEffect(a, DropRequest(a, r), r) /\ ActorOK(a) /\ Linked(a, in, S, X, {}) /\ Crowd(a, A, Y)
  BY DropRequestEffect DEF Fine
<1>2. Askers(a, r) = {}
  BY DEF Askers, Asks
<1>3. X \cup Askers(a, r) = X
  BY <1>2
<1> DEFINE b == DropRequest(a, r)
<1> HIDE DEF b
<1>4. ActorOK(b) /\ Linked(b, in, S, X \cup Askers(a, r), {}) /\ SameCrowd(a, b)
  BY <1>1, DropLinked DEF b
<1>5. Crowd(b, A, Y)
  BY <1>1, <1>4, CrowdKept
<1> QED
  BY <1>1, <1>3, <1>4, <1>5 DEF Fine, b

-----------------------------------------------------------------------------
(* An account's news *)

\* All that the consumers know, but those of x.
Rest(a, A, x) ==
  /\ Audience(a, A) /\ Whole(a) /\ Explained(a, A) /\ Orderly(a, A)
  /\ \A y \in DOMAIN a.subs : y # x => \A c \in a.subs[y].consumers : Knows(a.users[c], a.subs[y])

\* b is a but for what the subscription of x knows.
Elsewhere(a, b, x) ==
  /\ b.users = a.users /\ DOMAIN b.subs = DOMAIN a.subs
  /\ \A y \in DOMAIN a.subs :
       /\ b.subs[y].consumers = a.subs[y].consumers
       /\ y # x => /\ b.subs[y].orders = a.subs[y].orders /\ b.subs[y].stale = a.subs[y].stale
                   /\ b.subs[y].ready = a.subs[y].ready /\ b.subs[y].state = a.subs[y].state

\* A change of one account leaves every other account's consumers in step.
LEMMA ElsewhereRest ==
  ASSUME NEW a, NEW b, NEW x, Elsewhere(a, b, x), NEW A, Crowd(a, A, {})
  PROVE  Rest(b, A, x)
<1>1. /\ b.users = a.users /\ DOMAIN b.subs = DOMAIN a.subs
      /\ \A y \in DOMAIN a.subs : b.subs[y].consumers = a.subs[y].consumers
  BY DEF Elsewhere
<1>2. Audience(b, A) /\ Whole(b) /\ Explained(b, A) /\ Orderly(b, A)
  BY OrderlyKept, <1>1 DEF Crowd, Audience, Newcomer, Whole, Explained
<1>3. ASSUME NEW y \in DOMAIN b.subs, y # x, NEW c \in b.subs[y].consumers
      PROVE  Knows(b.users[c], b.subs[y])
  <2>1. Knows(a.users[c], a.subs[y])
    BY <1>1, <1>3, Zenon DEF Crowd, Known, KnownTo
  <2>2. /\ b.subs[y].orders = a.subs[y].orders /\ b.subs[y].stale = a.subs[y].stale
        /\ b.subs[y].ready = a.subs[y].ready /\ b.subs[y].state = a.subs[y].state
        /\ b.users = a.users
    BY <1>3 DEF Elsewhere
  <2> QED
    BY <2>1, <2>2 DEF Knows
<1> QED
  BY <1>2, <1>3 DEF Rest

\* What one more event makes of the subscription s.
News(s, t, event, n) ==
  \/ /\ event = "connected" /\ t.state = "connected"
     /\ t.orders = s.orders /\ t.ready = s.ready /\ t.stale = s.stale
  \/ /\ event = "ready" /\ t.ready = TRUE
     /\ t.orders = s.orders /\ t.state = s.state /\ t.stale = s.stale
  \/ /\ event = "stale" /\ (t.stale <=> n # None) /\ t.stale \in BOOLEAN
     /\ t.orders = s.orders /\ t.state = s.state /\ t.ready = s.ready
  \/ /\ event = "snapshot" /\ t.orders = n /\ n # Torn
     /\ t.stale = s.stale /\ t.state = s.state /\ t.ready = s.ready
  \/ /\ event = "unit" /\ t.orders = Apply(s.orders, n) /\ t.orders # Torn
     /\ t.stale = s.stale /\ t.state = s.state /\ t.ready = s.ready

\* A consumer that knew the view knows the changed view once it is told the event of that
\* change.
LEMMA NewsKnown ==
  ASSUME NEW u, IsUser(u), NEW s, Knows(u, s), u.view # Torn,
         NEW t, NEW event \in Events, NEW n \in Nat, News(s, t, event, n)
  PROVE  KnowsThen(u, event, n, t, FALSE) /\ Knows(Told(u, event, n), t)
<1> DEFINE v == Told(u, event, n)
<1>1. IsUser(v) /\ ToldFields(u, v, event, n)
  BY ToldEffect
<1> HIDE DEF v
<1>2. event = "connected" => v.connected = TRUE /\ v.ready = u.ready /\ v.view = u.view /\ v.stale = u.stale
  BY <1>1, Zenon DEF ToldFields
<1>3. event = "ready" => v.ready = TRUE /\ v.connected = u.connected /\ v.view = u.view /\ v.stale = u.stale
  BY <1>1, Zenon DEF ToldFields
<1>4. event = "stale" => (v.stale <=> n # None) /\ v.connected = u.connected /\ v.view = u.view /\ v.ready = u.ready
  BY <1>1, Zenon DEF ToldFields
<1>5. event = "snapshot" => v.view = n /\ v.connected = u.connected /\ v.stale = u.stale /\ v.ready = u.ready
  BY <1>1, Zenon DEF ToldFields
<1>6. event = "unit" => v.view = Apply(u.view, n) /\ v.connected = u.connected /\ v.stale = u.stale /\ v.ready = u.ready
  BY <1>1, Zenon DEF ToldFields
<1>7. v.stale \in BOOLEAN /\ v.connected \in BOOLEAN
  BY <1>1 DEF IsUser
<1>8. Knows(v, t) /\ v.view # Torn
  <2>1. CASE event = "connected" /\ t.state = "connected"
             /\ t.orders = s.orders /\ t.ready = s.ready /\ t.stale = s.stale
    BY <1>2, <2>1 DEF Knows
  <2>2. CASE event = "ready" /\ t.ready = TRUE
             /\ t.orders = s.orders /\ t.state = s.state /\ t.stale = s.stale
    BY <1>3, <2>2 DEF Knows
  <2>3. CASE event = "stale" /\ (t.stale <=> n # None) /\ t.stale \in BOOLEAN
             /\ t.orders = s.orders /\ t.state = s.state /\ t.ready = s.ready
    <3>1. v.stale = t.stale
      BY <1>4, <1>7, <2>3
    <3> QED
      BY <1>4, <2>3, <3>1 DEF Knows
  <2>4. CASE event = "snapshot" /\ t.orders = n /\ n # Torn
             /\ t.stale = s.stale /\ t.state = s.state /\ t.ready = s.ready
    BY <1>5, <2>4 DEF Knows
  <2>5. CASE event = "unit" /\ t.orders = Apply(s.orders, n) /\ t.orders # Torn
             /\ t.stale = s.stale /\ t.state = s.state /\ t.ready = s.ready
    BY <1>6, <2>5 DEF Knows
  <2> QED
    BY <2>1, <2>2, <2>3, <2>4, <2>5 DEF News
<1> QED
  BY <1>8 DEF KnowsThen, KnownTo, v

\* The news is told to all of them.
LEMMA TellNews ==
  ASSUME NEW b, ActorOK(b), NEW A, NEW x \in DOMAIN b.subs, Rest(b, A, x), NEW s,
         NEW event \in Events, NEW n \in Nat, News(s, b.subs[x], event, n),
         \A c \in b.subs[x].consumers : Knows(b.users[c], s)
  PROVE  Crowd(Deliver(b, x, event, n), A, {})
<1> DEFINE z == Deliver(b, x, event, n)
<1>1. DeliverEffect(b, z, x, event, n)
  BY DeliverLemma
<1> HIDE DEF z
<1>2. Audience(b, A) /\ Whole(b) /\ Explained(b, A) /\ Orderly(b, A)
  BY DEF Rest
<1>3. ASSUME NEW y \in DOMAIN b.subs, y # x, NEW c \in b.subs[y].consumers
      PROVE  KnownTo(b.users[c], b.subs[y], y \in {})
  <2>1. Knows(b.users[c], b.subs[y])
    BY <1>3 DEF Rest
  <2> QED
    BY <2>1 DEF KnownTo
<1>4. ASSUME NEW c \in b.subs[x].consumers
      PROVE  KnowsThen(b.users[c], event, n, b.subs[x], x \in {})
  <2>1. c \in Consumers
    BY DEF ActorOK, SubsOK, IsSub
  <2>2. IsUser(b.users[c]) /\ b.users[c].view # Torn
    BY <1>2, <2>1 DEF ActorOK, UsersOK, Whole
  <2>3. KnowsThen(b.users[c], event, n, b.subs[x], FALSE)
    BY <2>2, NewsKnown
  <2> QED
    BY <2>3, Zenon DEF KnowsThen, KnownTo
<1>5. Crowd(z, A, {})
  BY <1>1, <1>2, <1>3, <1>4, DeliverCrowd
<1> QED
  BY <1>5 DEF z

\* Telling the consumers of an account the one thing that changed in its view keeps the
\* invariant.
LEMMA NewsFine ==
  ASSUME NEW a, NEW b, NEW in, NEW S, NEW A, Crowd(a, A, {}), ActorOK(b), Linked(b, in, S, {}, {}),
         NEW x \in DOMAIN a.subs, Elsewhere(a, b, x),
         NEW event \in Events, NEW n \in Nat, News(a.subs[x], b.subs[x], event, n)
  PROVE  Fine(Deliver(b, x, event, n), in, S, A, {}, {})
<1>1. Rest(b, A, x) /\ x \in DOMAIN b.subs
  BY ElsewhereRest DEF Elsewhere
<1>2. \A c \in b.subs[x].consumers : Knows(b.users[c], a.subs[x])
  <2>1. b.users = a.users /\ b.subs[x].consumers = a.subs[x].consumers
    BY DEF Elsewhere
  <2> QED
    BY <2>1, Zenon DEF Crowd, Known, KnownTo
<1>3. Crowd(Deliver(b, x, event, n), A, {})
  BY <1>1, <1>2, TellNews
<1> DEFINE z == Deliver(b, x, event, n)
<1>4. ActorOK(z) /\ DeliverEffect(b, z, x, event, n)
  BY <1>1, DeliverLemma
<1> HIDE DEF z
<1>5. Linked(z, in, S, {}, {})
  BY <1>4, DeliverAlike, AlikeLinked
<1> QED
  BY <1>3, <1>4, <1>5 DEF Fine, z

\* The rest goes on to know what it knew.
LEMMA DeliverRest ==
  ASSUME NEW a, ActorOK(a), NEW x \in DOMAIN a.subs, NEW A, Rest(a, A, x),
         NEW event \in Events, NEW n \in Nat, NEW b, DeliverEffect(a, b, x, event, n),
         \A c \in a.subs[x].consumers : Told(a.users[c], event, n).view # Torn
  PROVE  Rest(b, A, x)
<1>0. Delivered(a, b, x, event, n)
  BY DeliverFields
<1>1. Audience(a, A) /\ Whole(a) /\ Explained(a, A) /\ Orderly(a, A)
  BY DEF Rest
<1>2. Audience(b, A)
  <2>1. \A c \in Consumers : b.users[c].handle = a.users[c].handle
    BY <1>0 DEF Delivered, OfferEffect
  <2>2. \A c \in Consumers : Newcomer(b, A, c) =>
          Newcomer(a, A, c) /\ (\A y \in DOMAIN a.subs : c \notin a.subs[y].consumers)
    BY <1>1, <2>1 DEF Newcomer, Audience
  <2>3. \A c \in Consumers : Newcomer(b, A, c) =>
          b.users[c] = a.users[c] /\ (\A y \in DOMAIN b.subs : c \notin b.subs[y].consumers)
    BY <1>0, <2>2 DEF Delivered
  <2>4. \A y, z \in DOMAIN b.subs : \A c \in b.subs[y].consumers : c \in b.subs[z].consumers => y = z
    BY <1>0, <1>1 DEF Delivered, Audience
  <2> QED
    BY <1>1, <2>2, <2>3, <2>4, Zenon DEF Audience
<1>3. Whole(b)
  BY <1>0, <1>1 DEF Delivered, Whole, OfferEffect
<1>4. Explained(b, A)
  <2> SUFFICES ASSUME NEW c \in Consumers, b.users[c].handle = "open", c \notin ArrivingIn(A),
                      \A y \in DOMAIN b.subs : c \notin b.subs[y].consumers
               PROVE  b.users[c].ended # "no"
    BY DEF Explained
  <2>1. CASE c \in a.subs[x].consumers
    BY <2>1, <1>0 DEF Delivered, OfferEffect
  <2>2. CASE c \notin a.subs[x].consumers
    BY <2>2, <1>0, <1>1 DEF Delivered, Explained
  <2> QED
    BY <2>1, <2>2
<1>5. ASSUME NEW y \in DOMAIN b.subs, y # x, NEW c \in b.subs[y].consumers
      PROVE  Knows(b.users[c], b.subs[y])
  <2>1. c \notin a.subs[x].consumers /\ c \in a.subs[y].consumers /\ c \in Consumers
    BY <1>0, <1>1, <1>5 DEF Delivered, Audience
  <2>2. b.users[c] = a.users[c]
    BY <1>0, <2>1 DEF Delivered
  <2>3. Knows(a.users[c], a.subs[y])
    BY <1>0, <1>5, <2>1 DEF Delivered, Rest
  <2>4. /\ b.subs[y].orders = a.subs[y].orders /\ b.subs[y].stale = a.subs[y].stale
        /\ b.subs[y].ready = a.subs[y].ready /\ b.subs[y].state = a.subs[y].state
    BY <1>0, <1>5 DEF Delivered
  <2> QED
    BY <2>2, <2>3, <2>4, Zenon DEF Knows
<1>6. Orderly(b, A)
  <2>1. \A c \in Consumers : b.users[c].handle = a.users[c].handle
    BY <1>0 DEF Delivered, OfferEffect
  <2> QED
    BY <1>1, <2>1, OrderlyKept
<1> QED
  BY <1>2, <1>3, <1>4, <1>5, <1>6 DEF Rest

-----------------------------------------------------------------------------
(* subscribed *)

ConfirmedKeeps(a, b) ==
  /\ b.conn = a.conn /\ b.writable = a.writable /\ b.out = a.out
  /\ b.heartbeatAt = a.heartbeatAt
  /\ b.connecting = a.connecting /\ b.generation = a.generation
  /\ b.nextSubscription = a.nextSubscription /\ b.nextRequest = a.nextRequest
  /\ b.reconnectAt = a.reconnectAt /\ b.users = a.users
  /\ b.unsubscribing = a.unsubscribing /\ b.idle = a.idle /\ b.unwritable = a.unwritable
  /\ b.nextConn = a.nextConn /\ b.tasks = a.tasks

\* The subscription of x is the server's subscription k now.
Confirmed(a, b, x, k) ==
  LET s == a.subs[x]
      t == b.subs[x]
  IN  /\ ConfirmedKeeps(a, b) /\ ActorOK(b)
      /\ DOMAIN b.pending = DOMAIN a.pending \ {k}
      /\ \A r \in DOMAIN b.pending : b.pending[r] = a.pending[r]
      /\ DOMAIN b.bySub = DOMAIN a.bySub \cup {k} /\ b.bySub[k] = x
      /\ \A q \in DOMAIN a.bySub : q # k => b.bySub[q] = a.bySub[q]
      /\ DOMAIN b.subs = DOMAIN a.subs
      /\ \A y \in DOMAIN a.subs : y # x => b.subs[y] = a.subs[y]
      /\ t.id = s.id /\ t.consumers = s.consumers /\ t.orders = s.orders /\ t.cursor = s.cursor
      /\ t.retryAt = s.retryAt /\ t.staged = s.staged
      /\ t.sub = k /\ t.seq = 0 /\ t.ready = FALSE /\ t.ackDue = None
      /\ t.state = "connected" /\ t.stale = FALSE

\* A confirmation gives the view its id, counts its frames from zero and takes the request out
\* of the table.
LEMMA ConfirmedEffect ==
  ASSUME NEW a, ActorOK(a), NEW x \in DOMAIN a.subs, NEW k \in Nat
  PROVE  Confirmed(a, [a EXCEPT !.pending = Without(a.pending, {k}),
                                !.bySub = With(a.bySub, k, x),
                                !.subs[x] = [a.subs[x] EXCEPT !.sub = k, !.seq = 0, !.ready = FALSE,
                                           !.confirmed = TRUE, !.ackDue = None,
                                           !.state = "connected", !.stale = FALSE]], x, k)
<1> DEFINE s == a.subs[x]
           t == [s EXCEPT !.sub = k, !.seq = 0, !.ready = FALSE, !.confirmed = TRUE,
                          !.ackDue = None, !.state = "connected", !.stale = FALSE]
           p == Without(a.pending, {k})
           m == With(a.bySub, k, x)
           ss == [a.subs EXCEPT ![x] = t]
           b == [a EXCEPT !.pending = p, !.bySub = m, !.subs[x] = t]
<1>1. IsMap(a, Fields) /\ SubsOK(a.subs) /\ PendingOK(a.pending) /\ BySubOK(a.bySub) /\ IsSub(s)
      /\ x \in Accounts
  BY DEF ActorOK, SubsOK
<1>2. /\ IsMap(t, SubFields) /\ t.sub = k /\ t.seq = 0 /\ t.ready = FALSE /\ t.confirmed = TRUE
      /\ t.ackDue = None /\ t.state = "connected" /\ t.stale = FALSE
      /\ \A f \in SubFields \ {"sub", "seq", "ready", "confirmed", "ackDue", "state", "stale"} :
           t[f] = s[f]
  <2>1. IsMap(s, SubFields)
    BY <1>1 DEF IsSub
  <2> HIDE DEF s
  <2> QED
    BY <2>1, Zenon DEF IsMap, SubFields
<1> HIDE DEF t
<1>3. /\ t.id = s.id /\ t.consumers = s.consumers /\ t.orders = s.orders /\ t.cursor = s.cursor
      /\ t.retryAt = s.retryAt /\ t.staged = s.staged /\ t.retried = s.retried
  BY <1>2, SMT DEF SubFields
<1>4. IsSub(t)
  <2> HIDE DEF s
  <2>1. 0 \in Nat /\ None \in Nat
    BY DEF None
  <2> QED
    BY <1>1, <1>2, <1>3, <2>1 DEF IsSub
<1>5. /\ IsMap(ss, DOMAIN ss) /\ DOMAIN ss = DOMAIN a.subs /\ ss[x] = t
      /\ \A y \in DOMAIN a.subs : y # x => ss[y] = a.subs[y]
  BY <1>1, Zenon DEF IsMap, SubsOK
<1>6. SubsOK(ss)
  <2> HIDE DEF ss
  <2> QED
    BY <1>1, <1>4, <1>5 DEF SubsOK
<1>7. /\ IsMap(p, DOMAIN p) /\ DOMAIN p = DOMAIN a.pending \ {k}
      /\ \A r \in DOMAIN p : p[r] = a.pending[r]
  BY Zenon DEF IsMap, Without, Restrict
<1>8. /\ IsMap(m, DOMAIN m) /\ DOMAIN m = DOMAIN a.bySub \cup {k} /\ m[k] = x
      /\ \A q \in DOMAIN a.bySub : q # k => m[q] = a.bySub[q]
  BY Zenon DEF IsMap, With
<1> HIDE DEF p, m
<1>9. PendingOK(p) /\ BySubOK(m)
  BY <1>1, <1>7, <1>8 DEF PendingOK, BySubOK
<1>10. /\ IsMap(b, Fields) /\ b.pending = p /\ b.bySub = m /\ b.subs = ss
       /\ \A f \in Fields \ {"pending", "bySub", "subs"} : b[f] = a[f]
  BY <1>1, Zenon DEF IsMap, Fields
<1> HIDE DEF b, ss
<1>11. ConfirmedKeeps(a, b)
  BY <1>10, SMT DEF ConfirmedKeeps, Fields
<1>12. ActorOK(b)
  BY <1>6, <1>9, <1>10, <1>11 DEF ActorOK, ConfirmedKeeps
<1>13. Confirmed(a, b, x, k)
  <2> HIDE DEF s
  <2>1. b.subs[x] = t /\ \A y \in DOMAIN a.subs : y # x => b.subs[y] = a.subs[y]
    BY <1>5, <1>10
  <2>2. DOMAIN b.subs = DOMAIN a.subs
    BY <1>5, <1>10
  <2>3. /\ DOMAIN b.pending = DOMAIN a.pending \ {k}
        /\ \A r \in DOMAIN b.pending : b.pending[r] = a.pending[r]
        /\ DOMAIN b.bySub = DOMAIN a.bySub \cup {k} /\ b.bySub[k] = x
        /\ \A q \in DOMAIN a.bySub : q # k => b.bySub[q] = a.bySub[q]
    BY <1>7, <1>8, <1>10
  <2> QED
    BY <1>2, <1>3, <1>11, <1>12, <2>1, <2>2, <2>3 DEF Confirmed, s
<1> QED
  BY <1>13 DEF b, p, m, t

\* A confirmation that was read links the account to the server's subscription it opened.
LEMMA ConfirmedLinked ==
  ASSUME NEW a, ActorOK(a), NEW in, in # <<>>, NEW S, Linked(a, in, S, {}, {}),
         in[1].kind = "subscribed", NEW x, Asks(a, in[1].sub, x), NEW b, Confirmed(a, b, x, in[1].sub)
  PROVE  Linked(b, Tail(in), S, {}, {})
<1> DEFINE rest == Tail(in)
           k == in[1].sub
<1>0. /\ Link(a) /\ Wire(a, in) /\ AllAsk(a, {}) /\ Ids(a, in, S)
      /\ Cursors(a) /\ Traced(a, in, S)
  BY DEF Linked
<1>1. Linked(a, rest, S, {}, Opens(in[1])) /\ RestOf(in, rest) /\ 1 \in DOMAIN in /\ Opens(in[1]) = {k}
  BY TailLinked DEF Opens
<1>2. /\ Wire(a, rest) /\ Ids(a, rest, S) /\ Heard(a, rest, S, {k}) /\ Traced(a, rest, S)
      /\ EndsOK(rest, S)
  BY <1>1 DEF Linked
<1>3. ConfirmedKeeps(a, b)
  BY DEF Confirmed
<1>4. /\ x \in DOMAIN a.subs /\ k \in DOMAIN a.pending /\ a.pending[k].account = x
      /\ a.pending[k].kind = "subscribe" /\ a.subs[x].sub = None /\ ~a.subs[x].retryAt
      /\ a.conn # None /\ k # None /\ k \in Nat
      /\ \A q \in DOMAIN a.pending : Asks(a, q, x) => q = k
  <2>1. x \in DOMAIN a.subs /\ k \in DOMAIN a.pending /\ a.pending[k].account = x
        /\ a.pending[k].kind = "subscribe"
    BY <1>0 DEF Asks, Link, Owned
  <2>2. a.subs[x].sub = None /\ ~a.subs[x].retryAt
        /\ \A q \in DOMAIN a.pending : Asks(a, q, x) => q = k
    BY <1>0, <2>1 DEF Link, OneRequest
  <2>3. a.conn # None
    BY <1>0, <2>1 DEF Link, Disconnected
  <2>4. k \in Nat /\ k # None
    BY <1>0, <2>1 DEF ActorOK, PendingOK, Link, Owned, None
  <2> QED
    BY <2>1, <2>2, <2>3, <2>4
<1>5. k \notin DOMAIN a.bySub /\ k \in SubscribedIn(in) /\ k \notin SubscribedIn(rest)
  <2>1. k \notin DOMAIN a.bySub /\ k \in SubscribedIn(in)
    BY <1>0, <1>1 DEF Ids, SubscribedIn
  <2>2. ASSUME NEW i \in DOMAIN rest, rest[i].kind = "subscribed", rest[i].sub = k
        PROVE  FALSE
    <3>1. i + 1 \in DOMAIN in /\ in[i + 1] = rest[i] /\ i \in Nat
      BY <1>1 DEF RestOf
    <3>2. i + 1 = 1
      BY <1>0, <1>1, <2>2, <3>1 DEF Ids
    <3>3. i # 0
      BY <1>2 DEF EndsOK
    <3> QED
      BY <3>1, <3>2, <3>3
  <2> QED
    BY <2>1, <2>2 DEF SubscribedIn
<1> HIDE DEF rest, k
<1>6. Disconnected(b) /\ Opening(b) /\ Quiet(b)
  BY <1>0, <1>3, <1>4 DEF Confirmed, ConfirmedKeeps, Link, Disconnected, Opening, Quiet, IsOpening, k
<1>7. Owned(b)
  <2>1. 0 <= a.nextRequest
    BY DEF ActorOK
  <2>2. /\ \A y \in DOMAIN b.subs : b.subs[y].id = a.subs[y].id
        /\ \A y \in DOMAIN b.subs : b.subs[y].ackDue = a.subs[y].ackDue \/ b.subs[y].ackDue = 0
    BY DEF Confirmed, None
  <2>3. /\ \A r \in DOMAIN b.pending : r \in DOMAIN a.pending /\ b.pending[r] = a.pending[r]
        /\ DOMAIN b.subs = DOMAIN a.subs
    BY DEF Confirmed
  <2> QED
    BY <1>0, <1>3, <2>1, <2>2, <2>3 DEF ConfirmedKeeps, Link, Owned
<1>8. \A q, y : Asks(b, q, y) <=> Asks(a, q, y) /\ q # k
  BY DEF Confirmed, Asks, k
<1>9. OneRequest(b)
  <2>1. \A q : ~Asks(b, q, x)
    BY <1>4, <1>8 DEF Asks
  <2>2. \A y \in DOMAIN b.subs : y # x => b.subs[y] = a.subs[y] /\ y \in DOMAIN a.subs
    BY DEF Confirmed
  <2>3. \A y \in DOMAIN b.subs : \A r \in DOMAIN b.pending : Asks(b, r, y) =>
          /\ b.subs[y].sub = None /\ ~b.subs[y].retryAt
          /\ \A q \in DOMAIN b.pending : Asks(b, q, y) => q = r
    <3> SUFFICES ASSUME NEW y \in DOMAIN b.subs, NEW r, Asks(b, r, y)
                 PROVE  /\ b.subs[y].sub = None /\ ~b.subs[y].retryAt
                        /\ \A q : Asks(b, q, y) => q = r
      OBVIOUS
    <3>1. y # x
      BY <2>1
    <3>2. b.subs[y] = a.subs[y] /\ y \in DOMAIN a.subs
      BY <2>2, <3>1
    <3> HIDE DEF k
    <3>4. \A q : Asks(b, q, y) => Asks(a, q, y) /\ q \in DOMAIN a.pending
      <4>1. \A q : Asks(b, q, y) => Asks(a, q, y)
        BY <1>8
      <4> QED
        BY <4>1 DEF Asks
    <3>3. Asks(a, r, y) /\ r \in DOMAIN a.pending
      BY <3>4
    <3>5. /\ a.subs[y].sub = None /\ ~a.subs[y].retryAt
          /\ \A q \in DOMAIN a.pending : Asks(a, q, y) => q = r
      BY <1>0, <3>2, <3>3 DEF Link, OneRequest
    <3> QED
      BY <3>2, <3>4, <3>5
  <2>4. None \notin DOMAIN b.pending
    BY <1>0 DEF Confirmed, Link, Owned, None
  <2>5. \A r \in DOMAIN b.pending : r \in DOMAIN a.pending /\ r # k
    BY DEF Confirmed, k
  <2>6. ~b.subs[x].retryAt /\ b.subs[x].ackDue = None
    BY <1>4 DEF Confirmed, k
  <2>7. \A y \in DOMAIN b.subs :
          /\ b.subs[y].sub # None => ~b.subs[y].retryAt
          /\ b.subs[y].ackDue \in DOMAIN b.pending => Asks(b, b.subs[y].ackDue, y)
    <3> TAKE y \in DOMAIN b.subs
    <3>1. CASE y = x
      BY <2>4, <2>6, <3>1
    <3>2. CASE y # x
      <4>1. b.subs[y] = a.subs[y] /\ y \in DOMAIN a.subs
        BY <2>2, <3>2
      <4> QED
        BY <1>0, <1>8, <2>5, <4>1 DEF Link, OneRequest
    <3> QED
      BY <3>1, <3>2
  <2> QED
    BY <2>3, <2>7 DEF OneRequest
<1>10. Fetching(b)
  BY <1>0, <1>3 DEF Confirmed, ConfirmedKeeps, Link, Fetching
<1>11. Listening(b)
  BY <1>0, <1>3, <1>4, <1>5 DEF Confirmed, ConfirmedKeeps, Link, Listening, k
<1>12. Wire(b, rest)
  <2>1. \A r \in DOMAIN b.pending : r \in DOMAIN a.pending /\ b.pending[r] = a.pending[r]
    BY DEF Confirmed
  <2>2. b.out = a.out /\ b.nextRequest = a.nextRequest
    BY <1>3 DEF ConfirmedKeeps
  <2> QED
    BY <1>2, <2>1, <2>2 DEF Wire
<1>13. AllAsk(b, {})
  <2>1. \A y \in DOMAIN b.subs : y # x => b.subs[y] = a.subs[y] /\ y \in DOMAIN a.subs
    BY DEF Confirmed
  <2>2. ASSUME NEW y \in DOMAIN b.subs, y # x
        PROVE  IsAsking(b, y)
    <3>1. IsAsking(a, y) /\ b.subs[y] = a.subs[y]
      BY <1>0, <2>1, <2>2 DEF AllAsk
    <3>2. \A r : Asks(a, r, y) => Asks(b, r, y)
      BY <1>4, <1>8, <2>2 DEF Asks
    <3>3. \A r \in DOMAIN a.pending : Asks(b, r, y) => r \in DOMAIN b.pending
      BY DEF Asks
    <3> QED
      BY <1>3, <3>1, <3>2, <3>3 DEF ConfirmedKeeps, IsAsking, IsOpening
  <2>3. b.conn # None /\ b.subs[x].sub # None
    BY <1>3, <1>4 DEF ConfirmedKeeps, Confirmed, k
  <2> QED
    BY <2>2, <2>3 DEF AllAsk, IsAsking
<1>14. Ids(b, rest, S)
  <2>1. b.out = a.out /\ b.tasks = a.tasks /\ b.nextRequest = a.nextRequest
    BY <1>3 DEF ConfirmedKeeps
  <2>2. DOMAIN b.bySub = DOMAIN a.bySub \cup {k} /\ DOMAIN b.pending \subseteq DOMAIN a.pending
    BY DEF Confirmed, k
  <2>3. k <= a.nextRequest
    BY <1>0, <1>1 DEF Ids, k
  <2>4. \A n : Unused(a, in, S, n) => n # k
    BY <1>1 DEF Unused, k
  <2>5. \A n : Unused(a, rest, S, n) /\ n # k => Unused(b, rest, S, n)
    BY <2>1, <2>2 DEF Unused
  <2>6. /\ \A i \in DOMAIN a.out : a.out[i].kind = "subscribe" => a.out[i].id # k
        /\ \A t \in a.tasks : t.kind = "subscribe" /\ t.request \in DOMAIN a.pending => t.request # k
    BY <1>0, <2>4 DEF Ids
  <2>7. \A i \in DOMAIN rest : rest[i].kind = "subscribed" => rest[i].sub # k
    BY <1>5 DEF SubscribedIn
  <2>8. \A i \in DOMAIN b.out : b.out[i].kind = "subscribe" =>
          /\ Unused(b, rest, S, b.out[i].id)
          /\ \A j \in DOMAIN b.out : b.out[j].id = b.out[i].id => j = i
    BY <1>2, <2>1, <2>5, <2>6 DEF Ids
  <2>9. \A t \in b.tasks : t.kind = "subscribe" /\ t.request \in DOMAIN b.pending =>
          /\ Unused(b, rest, S, t.request)
          /\ \A i \in DOMAIN b.out : b.out[i].id # t.request
    BY <1>2, <2>1, <2>2, <2>5, <2>6 DEF Ids
  <2> QED
    BY <1>2, <2>1, <2>2, <2>3, <2>7, <2>8, <2>9 DEF Ids
<1>15. Heard(b, rest, S, {})
  BY <1>2, <1>3 DEF Confirmed, ConfirmedKeeps, Heard, k
<1>16. Cursors(b)
  <2>1. b.out = a.out
    BY <1>3 DEF ConfirmedKeeps
  <2>2. \A y \in DOMAIN b.subs : b.subs[y].cursor = a.subs[y].cursor /\ b.subs[y].orders = a.subs[y].orders
    BY DEF Confirmed
  <2>3. /\ \A r \in DOMAIN b.pending : r \in DOMAIN a.pending /\ b.pending[r] = a.pending[r]
        /\ DOMAIN b.subs = DOMAIN a.subs
    BY DEF Confirmed
  <2>4. \A r \in DOMAIN b.pending : a.pending[r].account \in DOMAIN a.subs
    BY <1>0, <2>3 DEF Link, Owned
  <2> QED
    <3>1. ViewsAt(b)
      BY <1>0, <2>1, <2>2, <2>3, <2>4 DEF Cursors, ViewsAt
    <3>2. AsksAt(b)
      BY <1>0, <2>1, <2>2, <2>3, <2>4 DEF Cursors, AsksAt, Asks
    <3>3. SentAt(b)
      BY <1>0, <2>1, <2>2, <2>3, <2>4 DEF Cursors, SentAt
    <3> QED
      BY <3>1, <3>2, <3>3 DEF Cursors
<1>17. \A n : n \in DOMAIN b.bySub \cup SubscribedIn(rest) => n # k \/ n = k
  OBVIOUS
<1>18. ASSUME NEW n \in DOMAIN b.bySub \cup SubscribedIn(rest), n # k
       PROVE  \E L, tr, d : Follow(b, rest, S, n, L, tr, d)
  <2>1. n \in DOMAIN a.bySub \cup SubscribedIn(rest)
    BY <1>18 DEF Confirmed, k
  <2>2. PICK L, tr, d : Follow(a, rest, S, n, L, tr, d)
    BY <1>2, <2>1 DEF Traced
  <2>3. \A y \in DOMAIN b.subs : b.subs[y].sub = n => y \in DOMAIN a.subs /\ b.subs[y] = a.subs[y]
    BY <1>18 DEF Confirmed, k
  <2>4. n \in DOMAIN b.pending /\ b.pending[n].kind = "subscribe" =>
          /\ n \in DOMAIN a.pending /\ b.pending[n] = a.pending[n]
          /\ b.subs[b.pending[n].account].cursor = a.subs[a.pending[n].account].cursor
    <3>1. n \in DOMAIN b.pending => n \in DOMAIN a.pending /\ b.pending[n] = a.pending[n]
      BY DEF Confirmed
    <3>2. n \in DOMAIN a.pending => a.pending[n].account \in DOMAIN a.subs
      BY <1>0 DEF Link, Owned
    <3>3. \A y \in DOMAIN a.subs : b.subs[y].cursor = a.subs[y].cursor
      BY DEF Confirmed
    <3> QED
      BY <3>1, <3>2, <3>3
  <2>5. Follow(b, rest, S, n, L, tr, d)
    BY <2>2, <2>3, <2>4 DEF Follow
  <2> QED
    BY <2>5
<1>19. \E L, tr, d : Follow(b, rest, S, k, L, tr, d)
  <2>1. PICK L, tr, d : Follow(a, in, S, k, L, tr, d)
    BY <1>0, <1>5 DEF Traced
  <2>2. /\ L \in Nat /\ d \in Nat
        /\ \A q \in 0..L : tr[q].stage \in {"page", "end", "units"} => tr[q].pos \in 1..MaxHistory
        /\ \A q \in 0..L : tr[q].stage \in {"page", "end"} => tr[q].pos >= d
        /\ k \in DOMAIN S => /\ L = S[k].seq /\ d = S[k].boundary
                             /\ tr[L].pos = S[k].pos /\ tr[L].stage = S[k].stage
    BY <2>1 DEF Follow
  <2>3. \A i \in DOMAIN rest : rest[i].sub = k /\ rest[i].seq # 0 =>
          rest[i].seq <= L /\ Legal(tr[rest[i].seq - 1], rest[i], tr[rest[i].seq], d)
    <3> TAKE i \in DOMAIN rest
    <3>1. i + 1 \in DOMAIN in /\ rest[i] = in[i + 1]
      BY <1>1 DEF RestOf
    <3> QED
      BY <2>1, <3>1 DEF Follow
  <2>4. \/ tr[0].stage \in {"resync", "begin"}
        \/ tr[0].stage = "units" /\ tr[0].pos = a.subs[x].cursor
    BY <1>4, <2>1 DEF Follow
  <2>5. 0 \in 0..L /\ 0 <= L
    BY <2>2
  <2>6. tr[0].stage = "units" => a.subs[x].orders = tr[0].pos
    <3>1. tr[0].stage = "units" => tr[0].pos \in 1..MaxHistory /\ tr[0].pos = a.subs[x].cursor
      BY <2>2, <2>4, <2>5
    <3>2. \A q \in 1..MaxHistory : q # None
      BY PrivateOrdersAssumption DEF None
    <3> QED
      BY <1>0, <1>4, <3>1, <3>2 DEF Cursors, ViewsAt, AsksAt, Asks, SentAt
  <2>7. tr[0].stage # "page" /\ tr[0].stage # "end"
    BY <2>4
  <2>8. \A y \in DOMAIN b.subs : b.subs[y].sub = k => y = x
    BY <1>0, <1>4, <1>5 DEF Confirmed, Link, Listening
  <2>9. b.subs[x].seq = 0 /\ b.subs[x].ready = FALSE /\ b.subs[x].orders = a.subs[x].orders
    BY DEF Confirmed
  <2>10. Follows(b.subs[x], tr[0])
    BY <2>6, <2>7, <2>9 DEF Follows
  <2>11. k \notin DOMAIN b.pending
    BY DEF Confirmed, k
  <2>12. \A y \in DOMAIN b.subs : b.subs[y].sub = k =>
           /\ b.subs[y].seq <= L /\ Follows(b.subs[y], tr[b.subs[y].seq])
           /\ b.subs[y].ready => b.subs[y].orders >= d
    BY <2>5, <2>8, <2>9, <2>10
  <2>13. Follow(b, rest, S, k, L, tr, d)
    BY <2>2, <2>3, <2>11, <2>12, Zenon DEF Follow
  <2> QED
    BY <2>13
<1>20. Traced(b, rest, S)
  BY <1>18, <1>19, Zenon DEF Traced
<1>21. Link(b)
  BY <1>6, <1>7, <1>9, <1>10, <1>11 DEF Link
<1>22. Linked(b, rest, S, {}, {})
  BY <1>2, <1>12, <1>13, <1>14, <1>15, <1>16, <1>20, <1>21 DEF Linked
<1> QED
  BY <1>22 DEF rest

\* b has the subscription t for x, and is a otherwise.
OneSub(a, b, x, t) ==
  /\ ActorOK(b) /\ SetSubKeeps(a, b) /\ b.bySub = a.bySub
  /\ DOMAIN b.subs = DOMAIN a.subs /\ b.subs[x] = t
  /\ \A y \in DOMAIN a.subs : y # x => b.subs[y] = a.subs[y]

\* Replacing one account's view changes nothing else.
LEMMA OneSubIs ==
  ASSUME NEW a, ActorOK(a), NEW x \in DOMAIN a.subs, NEW t, IsSub(t), NEW b,
         b = [a EXCEPT !.subs[x] = t]
  PROVE  OneSub(a, b, x, t)
<1>1. SetSub(a, b, x, t, {})
  BY SetSubEffect, Zenon
<1>2. SetSubKeeps(a, b) /\ b.bySub = a.bySub
  BY <1>1, SetSubFields
<1>3. BySubOK(b.bySub)
  BY <1>2 DEF ActorOK
<1>4. ActorOK(b)
  <2>1. {} \in SUBSET {"bySub"}
    OBVIOUS
  <2> QED
    BY <1>1, <1>3, <2>1, SetSubOK, Zenon
<1> QED
  BY <1>1, <1>2, <1>4 DEF OneSub, SetSub

\* An account that nobody asks for yet may forget its cursor.
LEMMA CursorLinked ==
  ASSUME NEW a, ActorOK(a), NEW in, NEW S, NEW X, NEW K, Linked(a, in, S, X, K),
         NEW x, MayAsk(a, x)
  PROVE  LET b == [a EXCEPT !.subs[x].cursor = None]
         IN  /\ ActorOK(b) /\ Linked(b, in, S, X, K) /\ SameCrowd(a, b)
             /\ MayAsk(b, x) /\ b.conn = a.conn
<1> DEFINE t == [a.subs[x] EXCEPT !.cursor = None]
           b == [a EXCEPT !.subs[x].cursor = None]
<1>0. Link(a) /\ AllAsk(a, X) /\ Cursors(a) /\ Traced(a, in, S) /\ Wire(a, in)
  BY DEF Linked
<1>1. IsSub(a.subs[x]) /\ None \in Nat /\ x \in DOMAIN a.subs
  BY DEF ActorOK, SubsOK, MayAsk, None
<1>2. IsSub(t) /\ KeepsSub(a.subs[x], t, {"cursor"}) /\ t.cursor = None
  BY <1>1, Zenon DEF IsSub, IsMap, SubFields, KeepsSub
<1>3. b = [a EXCEPT !.subs[x] = t]
  BY Zenon
<1> HIDE DEF t, b
<1>4. OneSub(a, b, x, t)
  BY <1>1, <1>2, <1>3, OneSubIs
<1>5. SetSubKeeps(a, b) /\ b.bySub = a.bySub /\ ActorOK(b)
  BY <1>4 DEF OneSub
<1>6. /\ DOMAIN b.subs = DOMAIN a.subs /\ b.subs[x].cursor = None
      /\ \A y \in DOMAIN a.subs : y # x => b.subs[y] = a.subs[y]
      /\ \A y \in DOMAIN a.subs :
           LET s == a.subs[y]
               u == b.subs[y]
           IN  /\ u.id = s.id /\ u.sub = s.sub /\ u.seq = s.seq /\ u.ackDue = s.ackDue
               /\ u.staged = s.staged /\ u.orders = s.orders /\ u.state = s.state
               /\ u.stale = s.stale /\ u.ready = s.ready /\ u.retryAt = s.retryAt
               /\ u.confirmed = s.confirmed /\ u.consumers = s.consumers
  <2>1. LET s == a.subs[x]
        IN  /\ t.id = s.id /\ t.sub = s.sub /\ t.seq = s.seq /\ t.ackDue = s.ackDue
            /\ t.staged = s.staged /\ t.orders = s.orders /\ t.state = s.state
            /\ t.stale = s.stale /\ t.ready = s.ready /\ t.retryAt = s.retryAt
            /\ t.confirmed = s.confirmed /\ t.consumers = s.consumers
    BY <1>2, SMT DEF KeepsSub, SubFields
  <2> QED
    BY <1>2, <1>4, <2>1 DEF OneSub
<1>7. SubsKept(a, b)
  BY <1>5, <1>6 DEF SubsKept
<1>8. b.pending = a.pending /\ b.conn = a.conn /\ b.tasks = a.tasks /\ b.out = a.out
      /\ b.generation = a.generation /\ b.reconnectAt = a.reconnectAt /\ b.connecting = a.connecting
  BY <1>5 DEF SetSubKeeps
<1>9. \A r, y : Asks(b, r, y) <=> Asks(a, r, y)
  BY <1>8 DEF Asks
<1>10. OneRequest(b) /\ Listening(b)
  BY <1>0, <1>5, <1>6, <1>8, <1>9 DEF Link, OneRequest, Listening
<1>11. AllAsk(b, X)
  BY <1>0, <1>6, <1>8, <1>9 DEF AllAsk, IsAsking, IsOpening
<1>12. \A r \in DOMAIN a.pending : a.pending[r].kind = "subscribe" =>
         a.pending[r].account # x /\ a.pending[r].account \in DOMAIN a.subs
  BY <1>0 DEF MayAsk, Asks, Link, Owned
<1>13. Cursors(b)
  <2>1. \A i \in DOMAIN a.out : a.out[i].kind = "subscribe" /\ a.out[i].id \in DOMAIN a.pending =>
          a.pending[a.out[i].id].kind = "subscribe"
    BY <1>0 DEF Wire
  <2> QED
    <3>1. ViewsAt(b)
      BY <1>0, <1>6, <1>8, <1>12, <2>1 DEF Cursors, ViewsAt
    <3>2. AsksAt(b)
      BY <1>0, <1>6, <1>8, <1>12, <2>1 DEF Cursors, AsksAt, Asks
    <3>3. SentAt(b)
      BY <1>0, <1>6, <1>8, <1>12, <2>1 DEF Cursors, SentAt
    <3> QED
      BY <3>1, <3>2, <3>3 DEF Cursors
<1>14. Traced(b, in, S)
  BY <1>0, <1>5, <1>6, <1>8, <1>12, TracedKept
<1>15. /\ \A y \in DOMAIN a.subs : b.subs[y].ackDue <= a.nextRequest
       /\ \A y \in DOMAIN a.subs : a.conn = None => ~b.subs[y].retryAt /\ b.subs[y].ackDue = None
  BY <1>0, <1>6 DEF Link, Owned, Disconnected
<1>16. Linked(b, in, S, X, K)
  BY <1>7, <1>10, <1>11, <1>13, <1>14, <1>15, SubsLinked
<1>17. SameCrowd(a, b)
  BY <1>5, <1>6 DEF SameCrowd, SetSubKeeps
<1>18. MayAsk(b, x)
  BY <1>6, <1>8, <1>9 DEF MayAsk
<1> QED
  BY <1>5, <1>8, <1>16, <1>17, <1>18 DEF b

\* The account that asked in vain ends.
LEMMA TerminateAskerFine ==
  ASSUME NEW a, NEW in, NEW S, NEW A, NEW x \in DOMAIN a.subs, Fine(a, in, S, A, {x}, {})
  PROVE  Fine(Terminate(a, x), in, S, A, {}, {})
<1>1. /\ Fine(Terminate(a, x), in, S, A, {x}, {})
      /\ DOMAIN Terminate(a, x).subs = DOMAIN a.subs \ {x}
  BY TerminateFine
<1>2. AllAsk(Terminate(a, x), {})
  BY <1>1 DEF Fine, Linked, AllAsk
<1> QED
  BY <1>1, <1>2 DEF Fine, Linked

\* A subscribe request is over.
LEMMA AskerFine ==
  ASSUME NEW a, NEW in, NEW S, NEW A, Fine(a, in, S, A, {}, {}), NEW r, NEW x, Asks(a, r, x)
  PROVE  /\ Fine(DropRequest(a, r), in, S, A, {x}, {}) /\ MayAsk(DropRequest(a, r), x)
         /\ x \in DOMAIN a.subs /\ DropRequest(a, r).subs = a.subs
         /\ DropRequest(a, r).conn # None
<1> DEFINE b == DropRequest(a, r)
<1>1. ActorOK(a) /\ Linked(a, in, S, {}, {}) /\ Crowd(a, A, {}) /\ Link(a) /\ DropEffect(a, b, r)
  BY DropRequestEffect DEF Fine, Linked
<1> HIDE DEF b
<1>2. x \in DOMAIN a.subs /\ a.conn # None
  BY <1>1 DEF Asks, Link, Owned, Disconnected
<1>3. {} \cup Askers(a, r) = {x} /\ x \in Askers(a, r)
  BY <1>2 DEF Askers, Asks
<1>4. ActorOK(b) /\ Linked(b, in, S, {} \cup Askers(a, r), {}) /\ SameCrowd(a, b)
      /\ \A y \in Askers(a, r) : MayAsk(b, y)
  BY <1>1, DropLinked
<1>5. Crowd(b, A, {})
  BY <1>1, <1>4, CrowdKept
<1>6. b.subs = a.subs /\ b.conn = a.conn
  BY <1>1 DEF DropEffect, PendingKeeps
<1> QED
  BY <1>2, <1>3, <1>4, <1>5, <1>6 DEF Fine, b

-----------------------------------------------------------------------------
(* The end of a subscription by the server *)

\* What the handler of an unsubscribed frame does first is a prelude of resubscribe.
LEMMA EndedPrelude ==
  ASSUME NEW a, ActorOK(a), NEW x \in DOMAIN a.subs
  PROVE  LET c == [a EXCEPT !.subs[x].sub = None, !.bySub = Without(@, {a.subs[x].sub})]
         IN  Prelude(a, c, x) /\ c.subs[x].sub = None
<1> DEFINE s == a.subs[x]
           t == [s EXCEPT !.sub = None]
           m == Without(a.bySub, {s.sub})
           d == [a EXCEPT !.subs[x] = t]
           c == [a EXCEPT !.subs[x].sub = None, !.bySub = Without(@, {a.subs[x].sub})]
<1>1. IsSub(s) /\ None \in Nat
  BY DEF ActorOK, SubsOK, None
<1>2. IsSub(t) /\ KeepsSub(s, t, {"sub"}) /\ t.sub = None
  <2> HIDE DEF s
  <2> QED
    BY <1>1, Zenon DEF IsSub, IsMap, SubFields, KeepsSub
<1>3. /\ t.id = s.id /\ t.consumers = s.consumers /\ t.orders = s.orders /\ t.stale = s.stale
      /\ t.confirmed = s.confirmed /\ t.ackDue = s.ackDue /\ t.retryAt = s.retryAt
      /\ t.state = s.state /\ t.cursor = s.cursor
  BY <1>2, SMT DEF KeepsSub, SubFields
<1> HIDE DEF t
<1>4. OneSub(a, d, x, t)
  BY <1>2, OneSubIs
<1>5. c = [d EXCEPT !.bySub = m]
  <2>1. c = [a EXCEPT !.subs[x] = t, !.bySub = m]
    BY Zenon DEF t
  <2> HIDE DEF m, c
  <2> QED
    BY <2>1, Zenon
<1>6. /\ IsMap(m, DOMAIN m) /\ DOMAIN m = DOMAIN a.bySub \ {s.sub}
      /\ \A k \in DOMAIN m : m[k] = a.bySub[k]
  BY Zenon DEF IsMap, Without, Restrict
<1> HIDE DEF m, d, c
<1>7. IsMap(c, Fields) /\ c.bySub = m /\ \A f \in Fields \ {"bySub"} : c[f] = d[f]
  <2>1. IsMap(d, Fields)
    BY <1>4 DEF OneSub, ActorOK
  <2> QED
    BY <1>5, <2>1, Zenon DEF IsMap, Fields
<1>8. SetSubKeeps(d, c) /\ c.subs = d.subs
  BY <1>7, SMT DEF SetSubKeeps, Fields
<1>9. SetSubKeeps(a, c)
  BY <1>4, <1>8, SMT DEF SetSubKeeps, OneSub
<1>10. ActorOK(c)
  <2>1. BySubOK(m)
    BY <1>6 DEF ActorOK, BySubOK
  <2> QED
    BY <1>4, <1>7, <1>8, <2>1 DEF OneSub, ActorOK, SetSubKeeps
<1>11. Prelude(a, c, x) /\ c.subs[x].sub = None
  BY <1>2, <1>3, <1>4, <1>6, <1>7, <1>8, <1>9, <1>10 DEF OneSub, Prelude
<1> QED
  BY <1>11 DEF c

\* A subscription that the server ended is asked for again, and the invariant stays.
LEMMA EndedFine ==
  ASSUME NEW a, NEW in, NEW S, NEW A, Fine(a, in, S, A, {}, {}),
         NEW x \in DOMAIN a.subs, a.subs[x].sub # None, a.subs[x].sub \notin DOMAIN S
  PROVE  Fine(EndedByServer(a, x), in, S, A, {}, {})
<1> DEFINE c == [a EXCEPT !.subs[x].sub = None, !.bySub = Without(@, {a.subs[x].sub})]
<1>1. EndedByServer(a, x) = Resubscribe(c, x)
  BY Zenon DEF EndedByServer
<1>2. Prelude(a, c, x)
  BY EndedPrelude DEF Fine
<1> HIDE DEF c
<1>3. Fine(Resubscribe(c, x), in, S, A, {}, {})
  BY <1>2, ResubscribeFine
<1> QED
  BY <1>1, <1>3

\* The confirmation of a subscribe, also one nobody waits for any more, keeps the invariant.
LEMMA OnSubscribedFine ==
  ASSUME NEW a, NEW in, NEW S, NEW A, Fine(a, in, S, A, {}, {}), in # <<>>,
         in[1].kind = "subscribed"
  PROVE  Fine(OnSubscribed(a, in[1]), Tail(in), S, A, {}, {})
<1> DEFINE f == in[1]
           k == f.sub
           x == a.pending[k].account
           s == a.subs[x]
           z == OnSubscribed(a, f)
           b == [a EXCEPT !.pending = Without(a.pending, {k}),
                          !.bySub = With(a.bySub, k, x),
                          !.subs[x] = [a.subs[x] EXCEPT !.sub = k, !.seq = 0, !.ready = FALSE,
                                           !.confirmed = TRUE, !.ackDue = None,
                                           !.state = "connected", !.stale = FALSE]]
           c == IF s.state # "connected" THEN Deliver(b, x, "connected", None) ELSE b
<1>0. /\ ActorOK(a) /\ Linked(a, in, S, {}, {}) /\ Crowd(a, A, {}) /\ Link(a) /\ Wire(a, in)
      /\ Ids(a, in, S)
  BY DEF Fine, Linked
<1>1. /\ Linked(a, Tail(in), S, {}, {k}) /\ 1 \in DOMAIN in /\ f \in Frames
  BY <1>0, TailLinked DEF Opens
<1>2. f.id = k /\ k # None /\ k \in Nat /\ k <= a.nextRequest
  BY <1>0, <1>1 DEF Wire, Ids, Frames
<1>3. CASE k \notin DOMAIN a.pending
  <2>1. z = Unsubscribe(a, k)
    BY <1>2, <1>3, Zenon DEF OnSubscribed, LateSubscribed
  <2>2. Named(a, k)
    <3>1. \A n : Unused(a, in, S, n) => n # k
      BY <1>1 DEF Unused
    <3> QED
      BY <1>0, <1>2, <3>1 DEF Named, Ids
  <2> HIDE DEF k, f, z
  <2>3. /\ ActorOK(Unsubscribe(a, k)) /\ Linked(Unsubscribe(a, k), Tail(in), S, {}, {k} \ {k})
        /\ SameCrowd(a, Unsubscribe(a, k))
    BY <1>0, <1>1, <2>2, UnsubscribeLinked
  <2>4. {k} \ {k} = {}
    OBVIOUS
  <2>5. Crowd(Unsubscribe(a, k), A, {})
    BY <1>0, <2>3, CrowdKept
  <2> QED
    BY <2>1, <2>3, <2>4, <2>5 DEF Fine, z, f
<1>4. CASE k \in DOMAIN a.pending
  <2>1. Asks(a, k, x) /\ x \in DOMAIN a.subs
    BY <1>0, <1>1, <1>2, <1>4 DEF Asks, Wire, Link, Owned
  <2>2. z = IF s.stale THEN Deliver(c, x, "stale", None) ELSE c
    <3> DEFINE y == a.pending[f.id].account
               d == [a EXCEPT !.pending = Without(@, {f.id}),
                              !.bySub = With(@, f.sub, y),
                              !.subs[y] = [a.subs[y] EXCEPT !.sub = f.sub, !.seq = 0, !.ready = FALSE,
                                           !.confirmed = TRUE, !.ackDue = None,
                                           !.state = "connected", !.stale = FALSE]]
               e == IF a.subs[y].state # "connected" THEN Deliver(d, y, "connected", None) ELSE d
    <3>1. y = x
      BY <1>2
    <3>2. z = IF f.id \notin DOMAIN a.pending THEN LateSubscribed(a, f)
              ELSE IF y \notin DOMAIN a.subs THEN [a EXCEPT !.pending = Without(@, {f.id})]
              ELSE IF a.subs[y].stale THEN Deliver(e, y, "stale", None) ELSE e
      BY Zenon DEF OnSubscribed
    <3>3. f.id \in DOMAIN a.pending /\ y \in DOMAIN a.subs
      BY <1>2, <1>4, <2>1
    <3>4. d = b
      BY <1>2, Zenon
    <3> HIDE DEF d, b, z, y, x
    <3>5. z = IF a.subs[y].stale THEN Deliver(e, y, "stale", None) ELSE e
      BY <3>2, <3>3, Zenon
    <3>6. e = c
      BY <3>1, <3>4, Zenon
    <3> HIDE DEF e, c
    <3> QED
      BY <3>1, <3>5, <3>6, Zenon
  <2>3. Confirmed(a, b, x, k)
    BY <1>0, <1>2, <2>1, ConfirmedEffect, Zenon
  <2> HIDE DEF b, x, z
  <2>4. ActorOK(b) /\ Linked(b, Tail(in), S, {}, {})
    <3>1. Linked(b, Tail(in), S, {}, {})
      BY <1>0, <2>1, <2>3, ConfirmedLinked
    <3> QED
      BY <2>3, <3>1 DEF Confirmed
  <2> HIDE DEF k, f
  <2>5. Elsewhere(a, b, x)
    BY <2>3 DEF Confirmed, ConfirmedKeeps, Elsewhere
  <2>6. /\ b.subs[x].state = "connected" /\ b.subs[x].stale = FALSE /\ b.subs[x].ready = FALSE
        /\ b.subs[x].orders = s.orders /\ b.subs[x].consumers = s.consumers
        /\ x \in DOMAIN b.subs /\ b.users = a.users
    BY <2>1, <2>3 DEF Confirmed, ConfirmedKeeps
  <2>7. s.ready = FALSE /\ s.stale \in BOOLEAN
    <3>1. s.sub = None
      BY <1>0, <2>1 DEF Link, OneRequest, Asks
    <3>2. ~s.ready
      BY <1>0, <2>1, <3>1 DEF Link, Listening
    <3>3. s.ready \in BOOLEAN /\ s.stale \in BOOLEAN
      BY <1>0, <2>1 DEF ActorOK, SubsOK, IsSub
    <3> QED
      BY <3>2, <3>3
  <2>8. None \in Nat /\ "connected" \in Events /\ "stale" \in Events
    BY DEF None, Events
  <2>9. \A d \in s.consumers : Knows(a.users[d], s) /\ d \in Consumers
    <3>1. \A d \in s.consumers : Knows(a.users[d], s)
      BY <1>0, <2>1, Zenon DEF Crowd, Known, KnownTo
    <3> QED
      BY <1>0, <2>1, <3>1 DEF ActorOK, SubsOK, IsSub
  <2>10. CASE s.state = "connected" /\ ~s.stale
    <3>1. z = b
      BY <2>2, <2>10, Zenon
    <3>2. SameCrowd(a, b)
      BY <2>5, <2>6, <2>7, <2>10 DEF Elsewhere, SameCrowd
    <3>3. Crowd(b, A, {})
      BY <1>0, <3>2, CrowdKept
    <3> QED
      BY <2>4, <3>1, <3>3 DEF Fine, z, f
  <2>11. CASE s.state = "connected" /\ s.stale
    <3>1. z = Deliver(b, x, "stale", None)
      BY <2>2, <2>11, Zenon
    <3>2. News(s, b.subs[x], "stale", None)
      BY <2>6, <2>7, <2>11 DEF News
    <3>3. Fine(Deliver(b, x, "stale", None), Tail(in), S, A, {}, {})
      BY <1>0, <2>1, <2>4, <2>5, <2>8, <3>2, NewsFine
    <3> QED
      BY <3>1, <3>3 DEF z, f
  <2>12. CASE s.state # "connected" /\ ~s.stale
    <3>1. z = Deliver(b, x, "connected", None)
      BY <2>2, <2>12, Zenon
    <3>2. News(s, b.subs[x], "connected", None)
      BY <2>6, <2>7, <2>12 DEF News
    <3>3. Fine(Deliver(b, x, "connected", None), Tail(in), S, A, {}, {})
      BY <1>0, <2>1, <2>4, <2>5, <2>8, <3>2, NewsFine
    <3> QED
      BY <3>1, <3>3 DEF z, f
  <2>13. CASE s.state # "connected" /\ s.stale
    <3> DEFINE d == Deliver(b, x, "connected", None)
               e == Deliver(d, x, "stale", None)
               w == [state |-> "connected", orders |-> s.orders, ready |-> s.ready, stale |-> s.stale]
    <3>1. z = e
      BY <2>2, <2>13, Zenon
    <3>2. ActorOK(d) /\ DeliverEffect(b, d, x, "connected", None)
      BY <2>4, <2>6, <2>8, DeliverLemma
    <3> HIDE DEF d
    <3>3. Delivered(b, d, x, "connected", None)
      BY <2>4, <2>6, <2>8, <3>2, DeliverFields
    <3>4. Rest(b, A, x)
      BY <1>0, <2>5, ElsewhereRest
    <3>5. w.state = "connected" /\ w.orders = s.orders /\ w.ready = s.ready /\ w.stale = s.stale
      OBVIOUS
    <3> HIDE DEF w
    <3>6. \A u \in s.consumers : IsUser(a.users[u]) /\ a.users[u].view # Torn
      BY <1>0, <2>9 DEF ActorOK, UsersOK, Crowd, Whole
    <3>7. \A u \in s.consumers :
            LET v == Told(a.users[u], "connected", None)
            IN  Knows(v, w) /\ v.view # Torn
      <4> TAKE u \in s.consumers
      <4>1. News(s, w, "connected", None)
        BY <3>5 DEF News
      <4>2. IsUser(a.users[u]) /\ a.users[u].view # Torn /\ Knows(a.users[u], s)
        BY <2>9, <3>6
      <4>3. KnowsThen(a.users[u], "connected", None, w, FALSE)
            /\ Knows(Told(a.users[u], "connected", None), w)
        BY <2>8, <4>1, <4>2, NewsKnown
      <4> QED
        BY <4>3, Zenon DEF KnowsThen
    <3>8. Rest(d, A, x)
      <4>1. \A u \in b.subs[x].consumers : Told(b.users[u], "connected", None).view # Torn
        BY <2>6, <3>7, Zenon
      <4> QED
        BY <2>4, <2>6, <2>8, <3>2, <3>4, <4>1, DeliverRest
    <3>9. \A u \in d.subs[x].consumers : Knows(d.users[u], w)
      <4> TAKE u \in d.subs[x].consumers
      <4>1. u \in s.consumers /\ Accepts(a.users[u])
            /\ OfferEffect(a.users[u], d.users[u], "connected", None)
        BY <2>6, <3>3 DEF Delivered
      <4> DEFINE v == Told(a.users[u], "connected", None)
      <4>2. Knows(v, w)
        BY <3>7, <4>1, Zenon
      <4>3. /\ d.users[u].connected = v.connected /\ d.users[u].ready = v.ready
            /\ d.users[u].view = v.view /\ d.users[u].stale = v.stale
        BY <4>1, Zenon DEF OfferEffect
      <4> HIDE DEF v
      <4> QED
        BY <4>2, <4>3 DEF Knows
    <3>10. x \in DOMAIN d.subs /\ News(w, d.subs[x], "stale", None)
      BY <2>6, <2>7, <3>3, <3>5 DEF Delivered, News
    <3>11. Crowd(e, A, {})
      BY <2>8, <3>2, <3>8, <3>9, <3>10, TellNews
    <3>12. ActorOK(e) /\ DeliverEffect(d, e, x, "stale", None)
      BY <2>8, <3>2, <3>10, DeliverLemma
    <3> HIDE DEF e
    <3>13. Linked(d, Tail(in), S, {}, {})
      BY <2>4, <3>2, DeliverAlike, AlikeLinked
    <3>14. Linked(e, Tail(in), S, {}, {})
      BY <3>12, <3>13, DeliverAlike, AlikeLinked
    <3> QED
      BY <3>1, <3>11, <3>12, <3>14 DEF Fine, z, f
  <2> QED
    BY <2>7, <2>10, <2>11, <2>12, <2>13
<1> QED
  BY <1>3, <1>4

-----------------------------------------------------------------------------
(* request_error *)

\* An error about the subscription of an account keeps the invariant.
LEMMA SubscriptionErrorFine ==
  ASSUME NEW a, NEW in, NEW S, NEW A, Fine(a, in, S, A, {}, {}), NEW f, NEW x,
         f.kind = "unknown" => f.sub # None /\ f.sub \notin DOMAIN S
  PROVE  Fine(OnSubscriptionError(a, x, f), in, S, A, {}, {})
<1> DEFINE z == OnSubscriptionError(a, x, f)
<1>1. z = IF f.kind = "unknown" /\ x \in DOMAIN a.subs /\ a.subs[x].sub = f.sub
          THEN EndedByServer(a, x) ELSE Report(a, x)
  BY Zenon DEF OnSubscriptionError
<1> HIDE DEF z
<1>2. CASE f.kind = "unknown" /\ x \in DOMAIN a.subs /\ a.subs[x].sub = f.sub
  <2>1. z = EndedByServer(a, x)
    BY <1>1, <1>2, Zenon
  <2>2. Fine(EndedByServer(a, x), in, S, A, {}, {})
    BY <1>2, EndedFine
  <2> QED
    BY <2>1, <2>2 DEF z
<1>3. CASE ~(f.kind = "unknown" /\ x \in DOMAIN a.subs /\ a.subs[x].sub = f.sub)
  <2>1. z = Report(a, x)
    BY <1>1, <1>3, Zenon
  <2>2. Fine(Report(a, x), in, S, A, {}, {})
    BY ReportFine
  <2> QED
    BY <2>1, <2>2 DEF z
<1> QED
  BY <1>2, <1>3

\* An error keeps the invariant, be it the answer to a request or about a subscription.
LEMMA OnRequestErrorFine ==
  ASSUME NEW a, NEW in, NEW S, NEW A, Fine(a, in, S, A, {}, {}), in # <<>>,
         in[1].kind \in {"forbidden", "cursorInvalid", "unknown"}
  PROVE  Fine(OnRequestError(a, in[1]), Tail(in), S, A, {}, {})
<1> DEFINE f == in[1]
           r == f.id
           rest == Tail(in)
           x == a.pending[r].account
           z == OnRequestError(a, f)
           b == DropRequest(a, r)
           v == a.unsubscribing \ {r}
           marked == [a EXCEPT !.unsubscribing = v]
           forgot == IF x \in DOMAIN b.subs THEN [b EXCEPT !.subs[x].cursor = None] ELSE b
<1>0. /\ ActorOK(a) /\ Linked(a, in, S, {}, {}) /\ Crowd(a, A, {}) /\ Link(a) /\ Wire(a, in)
      /\ Ids(a, in, S)
  BY DEF Fine, Linked
<1>1. Fine(a, rest, S, A, {}, {}) /\ 1 \in DOMAIN in /\ f \in Frames
  BY <1>0, TailFine, TailLinked
<1>2. z = IF r = None
          THEN IF f.sub \in DOMAIN a.bySub THEN OnSubscriptionError(a, a.bySub[f.sub], f)
                                           ELSE ReportAll(a)
          ELSE IF r \in a.unsubscribing THEN marked
          ELSE IF r \notin DOMAIN a.pending THEN a
          ELSE IF a.pending[r].kind # "subscribe" THEN OnSubscriptionError(b, x, f)
          ELSE IF f.kind = "cursorInvalid" THEN Subscribe(forgot, x) ELSE Terminate(b, x)
  <2> DEFINE b2 == [a EXCEPT !.pending = Without(@, {f.id})]
  <2>1. z = IF f.id = None
            THEN IF f.sub \in DOMAIN a.bySub THEN OnSubscriptionError(a, a.bySub[f.sub], f)
                                             ELSE ReportAll(a)
            ELSE IF f.id \in a.unsubscribing THEN [a EXCEPT !.unsubscribing = @ \ {f.id}]
            ELSE IF f.id \notin DOMAIN a.pending THEN a
            ELSE IF a.pending[r].kind # "subscribe" THEN OnSubscriptionError(b2, x, f)
            ELSE IF f.kind = "cursorInvalid"
                 THEN Subscribe(IF x \in DOMAIN b2.subs
                                THEN [b2 EXCEPT !.subs[x].cursor = None] ELSE b2, x)
                 ELSE Terminate(b2, x)
    BY Zenon DEF OnRequestError
  <2>2. b2 = b /\ [a EXCEPT !.unsubscribing = @ \ {f.id}] = marked
    BY Zenon DEF DropRequest
  <2> HIDE DEF b, b2, marked, z
  <2> QED
    BY <2>1, <2>2, Zenon
<1>3. CASE r # None /\ r \in a.unsubscribing
  <2>1. z = marked
    BY <1>2, <1>3, Zenon
  <2>2. SetField(a, marked, "unsubscribing", v) /\ v \in SUBSET Nat
    BY <1>0, SetFields DEF ActorOK
  <2> HIDE DEF marked, v, f, rest, z
  <2>3. Fine(marked, rest, S, A, {}, {})
    BY <1>1, <2>2, AnsweredFine
  <2> QED
    BY <2>1, <2>3 DEF z, f, rest
<1>4. CASE r # None /\ r \notin a.unsubscribing /\ r \notin DOMAIN a.pending
  <2>1. z = a
    BY <1>2, <1>4, Zenon
  <2> QED
    BY <1>1, <2>1
<1>5. CASE r # None /\ r \notin a.unsubscribing /\ r \in DOMAIN a.pending
           /\ a.pending[r].kind = "subscribe"
  <2>1. z = IF f.kind = "cursorInvalid" THEN Subscribe(forgot, x) ELSE Terminate(b, x)
    BY <1>2, <1>5, Zenon
  <2>2. Asks(a, r, x)
    BY <1>5 DEF Asks
  <2> HIDE DEF z, f, rest, x, b
  <2>3. /\ Fine(b, rest, S, A, {x}, {}) /\ MayAsk(b, x) /\ x \in DOMAIN b.subs /\ b.conn # None
    BY <1>1, <2>2, AskerFine DEF b
  <2>4. CASE f.kind = "cursorInvalid"
    <3> DEFINE g == [b EXCEPT !.subs[x].cursor = None]
               h == Subscribe(g, x)
    <3>1. z = h
      BY <2>1, <2>3, <2>4, Zenon
    <3>2. ActorOK(b) /\ Linked(b, rest, S, {x}, {}) /\ Crowd(b, A, {})
      BY <2>3 DEF Fine
    <3>3. ActorOK(g) /\ Linked(g, rest, S, {x}, {}) /\ SameCrowd(b, g) /\ MayAsk(g, x)
          /\ g.conn = b.conn
      BY <2>3, <3>2, CursorLinked
    <3> HIDE DEF g
    <3>4. x \in DOMAIN g.subs /\ g.conn # None
      BY <2>3, <3>3 DEF MayAsk
    <3>5. Subscribed(g, h, x)
      BY <3>3, <3>4, SubscribeEffect
    <3> HIDE DEF h
    <3>6. ActorOK(h) /\ Linked(h, rest, S, {x} \ {x}, {}) /\ SameCrowd(g, h)
      BY <3>3, <3>4, <3>5, SubscribeLinked
    <3>7. {x} \ {x} = {}
      OBVIOUS
    <3>8. Crowd(h, A, {})
      BY <3>2, <3>3, <3>6, CrowdKept
    <3> QED
      BY <3>1, <3>6, <3>7, <3>8 DEF Fine, z, f, rest
  <2>5. CASE f.kind # "cursorInvalid"
    <3>1. z = Terminate(b, x)
      BY <2>1, <2>5, Zenon
    <3>2. Fine(Terminate(b, x), rest, S, A, {}, {})
      BY <2>3, TerminateAskerFine
    <3> QED
      BY <3>1, <3>2 DEF z, f, rest
  <2> QED
    BY <2>4, <2>5
<1>6. CASE r # None /\ r \notin a.unsubscribing /\ r \in DOMAIN a.pending
           /\ a.pending[r].kind # "subscribe"
  <2>1. z = OnSubscriptionError(b, x, f)
    BY <1>2, <1>6, Zenon
  <2>2. Fine(b, rest, S, A, {}, {})
    BY <1>1, <1>6, DropFine
  <2>3. f.kind = "unknown" => f.sub # None /\ f.sub \notin DOMAIN S
    BY <1>0, <1>1, <1>6 DEF Wire, Ids
  <2> HIDE DEF z, f, rest, x, b
  <2>4. Fine(OnSubscriptionError(b, x, f), rest, S, A, {}, {})
    BY <2>2, <2>3, SubscriptionErrorFine
  <2> QED
    BY <2>1, <2>4 DEF z, f, rest
<1>7. CASE r = None /\ f.sub \in DOMAIN a.bySub
  <2>1. z = OnSubscriptionError(a, a.bySub[f.sub], f)
    BY <1>2, <1>7, Zenon
  <2>2. f.kind = "unknown" => f.sub # None /\ f.sub \notin DOMAIN S
    BY <1>0, <1>1, <1>7 DEF Link, Listening, Ids
  <2> HIDE DEF z, f, rest
  <2>3. Fine(OnSubscriptionError(a, a.bySub[f.sub], f), rest, S, A, {}, {})
    BY <1>1, <2>2, SubscriptionErrorFine
  <2> QED
    BY <2>1, <2>3 DEF z, f, rest
<1>8. CASE r = None /\ f.sub \notin DOMAIN a.bySub
  <2>1. z = ReportAll(a)
    BY <1>2, <1>8, Zenon
  <2> HIDE DEF z, f, rest
  <2>2. Fine(ReportAll(a), rest, S, A, {}, {})
    BY <1>1, ReportAllFine
  <2> QED
    BY <2>1, <2>2 DEF z, f, rest
<1> QED
  BY <1>3, <1>4, <1>5, <1>6, <1>7, <1>8

-----------------------------------------------------------------------------
(* The frames of a stream *)

\* Two changes of one account's view are one.
LEMMA OneSubTwice ==
  ASSUME NEW a, NEW b, NEW c, NEW x, NEW s, NEW t, OneSub(a, b, x, s), OneSub(b, c, x, t)
  PROVE  OneSub(a, c, x, t)
<1>1. SetSubKeeps(a, c)
  BY DEF OneSub, SetSubKeeps
<1> QED
  BY <1>1 DEF OneSub

\* The position that the stage of a server subscription stands for.
Placed(v, d) ==
  /\ v.stage \in {"page", "end", "units"} => v.pos \in 1..MaxHistory
  /\ v.stage \in {"page", "end"} => v.pos >= d
\* The frame f is the one after those that s has followed to v, and leads to w.
Step(s, f, v, w, d) ==
  /\ Legal(v, f, w, d) /\ Follows(s, v) /\ Placed(v, d) /\ Placed(w, d)
  /\ d \in Nat /\ (s.ready => s.orders >= d)
StreamFields == {"cursor", "staged", "orders", "ready", "stale", "seq", "retried"}

\* The subscription t has taken the frame that the stream of x brought.
Takes(a, in, S, x, t) ==
  /\ IsSub(t) /\ KeepsSub(a.subs[x], t, StreamFields)
  /\ t.orders <= MaxHistory /\ (t.cursor # None => t.orders = t.cursor)
  /\ \A L, tr, d : Follow(a, in, S, a.subs[x].sub, L, tr, d) =>
       /\ t.seq <= L /\ Follows(t, tr[t.seq]) /\ (t.ready => t.orders >= d)

\* Taking the next frame in order moves the view along its trace and keeps the link in order.
LEMMA TakesLinked ==
  ASSUME NEW a, ActorOK(a), NEW in, NEW S, Linked(a, in, S, {}, {}),
         NEW x \in DOMAIN a.subs, a.subs[x].sub # None,
         NEW t, Takes(a, in, S, x, t), NEW b, OneSub(a, b, x, t)
  PROVE  Linked(b, in, S, {}, {})
<1> DEFINE k == a.subs[x].sub
<1>0. Link(a) /\ AllAsk(a, {}) /\ Cursors(a) /\ Traced(a, in, S) /\ Wire(a, in)
  BY DEF Linked
<1>1. SetSubKeeps(a, b) /\ b.bySub = a.bySub
  BY DEF OneSub
<1>2. LET s == a.subs[x]
      IN  /\ t.id = s.id /\ t.sub = s.sub /\ t.state = s.state /\ t.ackDue = s.ackDue
          /\ t.retryAt = s.retryAt /\ t.confirmed = s.confirmed /\ t.consumers = s.consumers
  BY SMT DEF Takes, KeepsSub, SubFields, StreamFields
<1>3. /\ DOMAIN b.subs = DOMAIN a.subs /\ b.subs[x] = t
      /\ \A y \in DOMAIN a.subs : y # x => b.subs[y] = a.subs[y]
      /\ \A y \in DOMAIN a.subs :
           LET s == a.subs[y]
               u == b.subs[y]
           IN  /\ u.id = s.id /\ u.sub = s.sub /\ u.state = s.state /\ u.ackDue = s.ackDue
               /\ u.retryAt = s.retryAt /\ u.confirmed = s.confirmed /\ u.consumers = s.consumers
  BY <1>2 DEF OneSub
<1>4. SubsKept(a, b)
  BY <1>1, <1>3 DEF SubsKept
<1>5. b.pending = a.pending /\ b.conn = a.conn /\ b.tasks = a.tasks /\ b.out = a.out
      /\ b.generation = a.generation /\ b.reconnectAt = a.reconnectAt /\ b.connecting = a.connecting
  BY <1>1 DEF SetSubKeeps
<1>6. \A r, y : Asks(b, r, y) <=> Asks(a, r, y)
  BY <1>5 DEF Asks
<1>7. k \in DOMAIN a.bySub /\ a.bySub[k] = x /\ k # None
  BY <1>0 DEF Link, Listening
<1>8. OneRequest(b) /\ Listening(b)
  BY <1>0, <1>1, <1>3, <1>5, <1>6, <1>7 DEF Link, OneRequest, Listening
<1>9. AllAsk(b, {})
  BY <1>0, <1>3, <1>5, <1>6 DEF AllAsk, IsAsking, IsOpening
<1>10. \A r \in DOMAIN a.pending : a.pending[r].kind = "subscribe" =>
         a.pending[r].account # x /\ a.pending[r].account \in DOMAIN a.subs
  BY <1>0, <1>7 DEF Asks, Link, Owned, OneRequest
<1>11. Cursors(b)
  <2>1. \A i \in DOMAIN a.out : a.out[i].kind = "subscribe" /\ a.out[i].id \in DOMAIN a.pending =>
          a.pending[a.out[i].id].kind = "subscribe"
    BY <1>0 DEF Wire
  <2>2. \A y \in DOMAIN b.subs :
          /\ b.subs[y].cursor # None => b.subs[y].orders = b.subs[y].cursor
          /\ b.subs[y].orders <= MaxHistory
    BY <1>0, <1>3 DEF Cursors, ViewsAt, Takes
  <2> QED
    <3>1. ViewsAt(b)
      BY <1>0, <1>3, <1>5, <1>10, <2>1, <2>2 DEF Cursors, ViewsAt
    <3>2. AsksAt(b)
      BY <1>0, <1>3, <1>5, <1>10, <2>1, <2>2 DEF Cursors, AsksAt, Asks
    <3>3. SentAt(b)
      BY <1>0, <1>3, <1>5, <1>10, <2>1, <2>2 DEF Cursors, SentAt
    <3> QED
      BY <3>1, <3>2, <3>3 DEF Cursors
<1>12. ASSUME NEW n \in DOMAIN b.bySub \cup SubscribedIn(in)
       PROVE  \E L, tr, d : Follow(b, in, S, n, L, tr, d)
  <2>1. PICK L, tr, d : Follow(a, in, S, n, L, tr, d)
    BY <1>0, <1>1, <1>12 DEF Traced
  <2>2. \A y \in DOMAIN b.subs : b.subs[y].sub = n =>
          /\ b.subs[y].seq <= L /\ Follows(b.subs[y], tr[b.subs[y].seq])
          /\ b.subs[y].ready => b.subs[y].orders >= d
    <3> SUFFICES ASSUME NEW y \in DOMAIN b.subs, b.subs[y].sub = n
                 PROVE  /\ b.subs[y].seq <= L /\ Follows(b.subs[y], tr[b.subs[y].seq])
                        /\ b.subs[y].ready => b.subs[y].orders >= d
      OBVIOUS
    <3>1. CASE y = x
      BY <1>3, <2>1, <3>1 DEF Takes
    <3>2. CASE y # x
      <4>1. y \in DOMAIN a.subs /\ b.subs[y] = a.subs[y]
        BY <1>3, <3>2
      <4> QED
        BY <2>1, <4>1 DEF Follow
    <3> QED
      BY <3>1, <3>2
  <2>3. n \in DOMAIN b.pending /\ b.pending[n].kind = "subscribe" =>
          b.subs[b.pending[n].account].cursor = a.subs[a.pending[n].account].cursor
    BY <1>3, <1>5, <1>10
  <2>4. Follow(b, in, S, n, L, tr, d)
    BY <1>5, <2>1, <2>2, <2>3 DEF Follow
  <2> QED
    BY <2>4
<1>13. Traced(b, in, S)
  BY <1>12 DEF Traced
<1>14. /\ \A y \in DOMAIN a.subs : b.subs[y].ackDue <= a.nextRequest
       /\ \A y \in DOMAIN a.subs : a.conn = None => ~b.subs[y].retryAt /\ b.subs[y].ackDue = None
  BY <1>0, <1>3 DEF Link, Owned, Disconnected
<1> QED
  BY <1>4, <1>8, <1>9, <1>11, <1>13, <1>14, SubsLinked

\* It is enough to take it at the positions of the server.
LEMMA TakesIs ==
  ASSUME NEW a, ActorOK(a), NEW in, NEW S, Linked(a, in, S, {}, {}), 1 \in DOMAIN in,
         NEW x \in DOMAIN a.subs, a.subs[x].sub # None, in[1].sub = a.subs[x].sub,
         in[1].seq # 0, in[1].seq = a.subs[x].seq + 1
  PROVE  /\ \E v, w, d : Step(a.subs[x], in[1], v, w, d)
         /\ \A t : /\ IsSub(t) /\ KeepsSub(a.subs[x], t, StreamFields)
                   /\ t.orders <= MaxHistory /\ (t.cursor # None => t.orders = t.cursor)
                   /\ t.seq = in[1].seq
                   /\ \A v, w, d : Step(a.subs[x], in[1], v, w, d) =>
                        Follows(t, w) /\ (t.ready => t.orders >= d)
                   => Takes(a, in, S, x, t)
<1> DEFINE s == a.subs[x]
           k == s.sub
           f == in[1]
<1>0. Link(a) /\ Traced(a, in, S)
  BY DEF Linked
<1>1. s.seq \in Nat
  BY DEF ActorOK, SubsOK, IsSub
<1>2. k \in DOMAIN a.bySub
  BY <1>0 DEF Link, Listening
<1>3. ASSUME NEW L, NEW tr, NEW d, Follow(a, in, S, k, L, tr, d)
      PROVE  Step(s, f, tr[s.seq], tr[f.seq], d) /\ f.seq <= L
  <2>1. f.seq <= L /\ Legal(tr[f.seq - 1], f, tr[f.seq], d) /\ L \in Nat /\ d \in Nat
    BY <1>3 DEF Follow
  <2>2. f.seq - 1 = s.seq /\ s.seq \in 0..L /\ f.seq \in 0..L
    BY <1>1, <2>1
  <2>3. Placed(tr[s.seq], d) /\ Placed(tr[f.seq], d)
    BY <1>3, <2>2 DEF Follow, Placed
  <2>4. Follows(s, tr[s.seq]) /\ (s.ready => s.orders >= d)
    BY <1>3 DEF Follow
  <2> QED
    BY <2>1, <2>2, <2>3, <2>4 DEF Step
<1>4. \E v, w, d : Step(s, f, v, w, d)
  <2>1. PICK L, tr, d : Follow(a, in, S, k, L, tr, d)
    BY <1>0, <1>2 DEF Traced
  <2> QED
    BY <1>3, <2>1
<1>5. ASSUME NEW t, IsSub(t), KeepsSub(a.subs[x], t, StreamFields),
             t.orders <= MaxHistory, t.cursor # None => t.orders = t.cursor,
             t.seq = f.seq,
             \A v, w, d : Step(s, f, v, w, d) => Follows(t, w) /\ (t.ready => t.orders >= d)
      PROVE  Takes(a, in, S, x, t)
  <2>1. \A L, tr, d : Follow(a, in, S, k, L, tr, d) =>
          /\ t.seq <= L /\ Follows(t, tr[t.seq]) /\ (t.ready => t.orders >= d)
    <3> HIDE DEF s, k, f
    <3> TAKE L, tr, d
    <3> HAVE Follow(a, in, S, k, L, tr, d)
    <3>1. Step(s, f, tr[s.seq], tr[f.seq], d) /\ f.seq <= L
      BY <1>3
    <3>2. Follows(t, tr[f.seq]) /\ (t.ready => t.orders >= d)
      BY <1>5, <3>1, Zenon
    <3> QED
      BY <1>5, <3>1, <3>2
  <2> QED
    BY <1>5, <2>1 DEF Takes
<1> QED
  BY <1>4, <1>5, Zenon

\* The stream goes on, and its consumers are told or not.
LEMMA TakesFine ==
  ASSUME NEW a, NEW in, NEW S, NEW A, Fine(a, in, S, A, {}, {}),
         NEW x \in DOMAIN a.subs, a.subs[x].sub # None,
         NEW t, Takes(a, in, S, x, t), NEW b, OneSub(a, b, x, t)
  PROVE  /\ t.orders = a.subs[x].orders /\ t.stale = a.subs[x].stale /\ t.ready = a.subs[x].ready
            => Fine(b, in, S, A, {}, {})
         /\ \A event \in Events, n \in Nat : News(a.subs[x], t, event, n)
            => Fine(Deliver(b, x, event, n), in, S, A, {}, {})
<1>1. ActorOK(a) /\ Linked(a, in, S, {}, {}) /\ Crowd(a, A, {})
  BY DEF Fine
<1>2. ActorOK(b) /\ Linked(b, in, S, {}, {})
  BY <1>1, TakesLinked DEF OneSub
<1>3. t.state = a.subs[x].state /\ t.consumers = a.subs[x].consumers
  BY SMT DEF Takes, KeepsSub, SubFields, StreamFields
<1>4. /\ DOMAIN b.subs = DOMAIN a.subs /\ b.subs[x] = t /\ b.users = a.users
      /\ \A y \in DOMAIN a.subs : y # x => b.subs[y] = a.subs[y]
  BY DEF OneSub, SetSubKeeps
<1>5. Elsewhere(a, b, x)
  BY <1>3, <1>4 DEF Elsewhere
<1>6. ASSUME t.orders = a.subs[x].orders, t.stale = a.subs[x].stale, t.ready = a.subs[x].ready
      PROVE  Fine(b, in, S, A, {}, {})
  <2>1. SameCrowd(a, b)
    BY <1>3, <1>4, <1>6 DEF SameCrowd
  <2>2. Crowd(b, A, {})
    BY <1>1, <2>1, CrowdKept
  <2> QED
    BY <1>2, <2>2 DEF Fine
<1>7. ASSUME NEW event \in Events, NEW n \in Nat, News(a.subs[x], t, event, n)
      PROVE  Fine(Deliver(b, x, event, n), in, S, A, {}, {})
  BY <1>1, <1>2, <1>4, <1>5, <1>7, NewsFine
<1> QED
  BY <1>6, <1>7

\* What the next frame of a stream says.
StepSays(s, f, w, d) ==
  /\ f.kind = "resync" => w.stage = "begin"
  /\ f.kind = "begin" => w.stage = "page"
  /\ f.kind = "page" => s.staged = <<None>> /\ w.stage = "end" /\ w.pos = f.n
  /\ f.kind = "end" =>
       /\ s.staged = <<f.n>> /\ f.n \in 1..MaxHistory /\ f.n >= d
       /\ w.stage = "units" /\ w.pos = f.n
  /\ f.kind = "unit" =>
       /\ s.orders \in 1..MaxHistory /\ f.n = s.orders + 1 /\ f.n \in 1..MaxHistory
       /\ w.stage = "units" /\ w.pos = f.n /\ (s.ready => f.n >= d)
  /\ f.kind = "ready" => w.stage = "units" /\ w.pos = s.orders /\ s.orders >= d
  /\ f.kind \in {"covered", "unavailable", "available"} =>
       w.stage = "units" /\ w.pos = s.orders /\ f.n = s.orders
  /\ f.kind # "expiring" /\ f.kind # "unsubscribed"
  /\ s.ready => s.orders >= d

\* What one step of a trace says of each kind of frame.
LEMMA StepFacts ==
  ASSUME NEW s, IsSub(s), NEW f, NEW v, NEW w, NEW d, Step(s, f, v, w, d)
  PROVE  StepSays(s, f, w, d)
<1>1. /\ Legal(v, f, w, d) /\ Follows(s, v) /\ Placed(v, d) /\ Placed(w, d)
      /\ d \in Nat /\ (s.ready => s.orders >= d)
  BY DEF Step
<1>2. MaxHistory \in Nat /\ s.orders \in Nat
  BY PrivateOrdersAssumption DEF IsSub
<1>3. f.kind = "resync" => w.stage = "begin"
  BY <1>1 DEF Legal
<1>4. f.kind = "begin" => w.stage = "page"
  BY <1>1 DEF Legal
<1>5. f.kind = "page" => s.staged = <<None>> /\ w.stage = "end" /\ w.pos = f.n
  BY <1>1 DEF Legal, Follows
<1>6. f.kind = "end" =>
        /\ s.staged = <<f.n>> /\ f.n \in 1..MaxHistory /\ f.n >= d
        /\ w.stage = "units" /\ w.pos = f.n
  BY <1>1 DEF Legal, Follows, Placed
<1>7. f.kind = "unit" =>
        /\ s.orders \in 1..MaxHistory /\ f.n = s.orders + 1 /\ f.n \in 1..MaxHistory
        /\ w.stage = "units" /\ w.pos = f.n /\ (s.ready => f.n >= d)
  <2> SUFFICES ASSUME f.kind = "unit"
               PROVE  /\ s.orders \in 1..MaxHistory /\ f.n = s.orders + 1 /\ f.n \in 1..MaxHistory
                      /\ w.stage = "units" /\ w.pos = f.n /\ (s.ready => f.n >= d)
    OBVIOUS
  <2>1. v.stage = "units" /\ w.stage = "units" /\ w.pos = v.pos + 1 /\ f.n = w.pos
    BY <1>1 DEF Legal
  <2>2. s.orders = v.pos /\ v.pos \in 1..MaxHistory /\ w.pos \in 1..MaxHistory
    BY <1>1, <2>1 DEF Follows, Placed
  <2> QED
    BY <1>1, <1>2, <2>1, <2>2
<1>8. f.kind = "ready" => w.stage = "units" /\ w.pos = s.orders /\ s.orders >= d
  BY <1>1 DEF Legal, Follows
<1>9. f.kind \in {"covered", "unavailable", "available"} =>
        w.stage = "units" /\ w.pos = s.orders /\ f.n = s.orders
  BY <1>1 DEF Legal, Follows
<1>10. f.kind # "expiring" /\ f.kind # "unsubscribed"
  BY <1>1 DEF Legal
<1> QED
  BY <1>1, <1>3, <1>4, <1>5, <1>6, <1>7, <1>8, <1>9, <1>10 DEF StepSays

-----------------------------------------------------------------------------
(* The next frame of a stream *)

\* The frame is the first of those that are here, and the next of its stream.
InOrder(in, s) ==
  /\ 1 \in DOMAIN in /\ in[1] \in Frames /\ in[1].kind \in StreamKinds
  /\ s.sub # None /\ in[1].sub = s.sub /\ in[1].seq # 0 /\ in[1].seq = s.seq + 1

\* What the frame makes of the subscription, in the order of the cases.
Taken(s, f) ==
  CASE f.kind = "begin" -> [s EXCEPT !.staged = <<None>>]
    [] f.kind = "page" -> [s EXCEPT !.staged = IF @ = <<>> THEN @ ELSE <<f.n>>]
    [] f.kind = "end" ->
         [s EXCEPT !.staged = <<>>, !.cursor = f.n, !.retried = FALSE, !.orders = s.staged[1]]
    [] f.kind = "unit" ->
         [s EXCEPT !.cursor = f.n, !.retried = FALSE,
                   !.orders = IF @ = None THEN @ ELSE Apply(@, f.n)]
    [] f.kind = "covered" -> [s EXCEPT !.cursor = f.n, !.retried = FALSE]
    [] f.kind = "ready" -> [s EXCEPT !.ready = TRUE, !.retried = FALSE]
    [] f.kind = "unavailable" -> [s EXCEPT !.stale = TRUE]
    [] f.kind = "available" -> [s EXCEPT !.stale = FALSE]
    [] f.kind = "resync" -> s

TakenKinds == {"begin", "page", "end", "unit", "covered", "ready", "unavailable", "available",
               "resync"}

\* The fields that the frame sets.
TakenFields(s, t, f) ==
  /\ IsSub(t) /\ KeepsSub(s, t, StreamFields) /\ t.seq = s.seq
  /\ t.cursor = IF f.kind \in {"end", "unit", "covered"} THEN f.n ELSE s.cursor
  /\ f.kind = "begin" => t.staged = <<None>>
  /\ f.kind = "page" => t.staged = <<f.n>>
  /\ f.kind \notin {"begin", "page", "end"} => t.staged = s.staged
  /\ t.orders = IF f.kind \in {"end", "unit"} THEN f.n ELSE s.orders
  /\ f.kind = "ready" => t.ready = TRUE
  /\ f.kind # "ready" => t.ready = s.ready
  /\ f.kind = "unavailable" => t.stale = TRUE
  /\ f.kind = "available" => t.stale = FALSE
  /\ f.kind \notin {"unavailable", "available"} => t.stale = s.stale

\* The view after a stream frame, field by field.
LEMMA TakenEffect ==
  ASSUME NEW s, IsSub(s), NEW f, f.n \in Nat, f.kind \in TakenKinds,
         NEW w, NEW d, StepSays(s, f, w, d)
  PROVE  TakenFields(s, Taken(s, f), f)
<1> DEFINE t == Taken(s, f)
<1>0. IsMap(s, SubFields) /\ None \in Nat /\ <<>> \in Seq(Nat) /\ <<None>> \in Seq(Nat)
      /\ <<f.n>> \in Seq(Nat)
  BY DEF IsSub, None
<1>1. CASE f.kind = "begin"
  <2>1. t = [s EXCEPT !.staged = <<None>>]
    BY <1>1, Zenon DEF Taken
  <2> HIDE DEF t
  <2>2. IsMap(t, SubFields) /\ t.staged = <<None>> /\ \A g \in SubFields \ {"staged"} : t[g] = s[g]
    BY <1>0, <2>1, Zenon DEF IsMap, SubFields
  <2>3. /\ t.id = s.id /\ t.consumers = s.consumers /\ t.sub = s.sub /\ t.seq = s.seq
        /\ t.cursor = s.cursor /\ t.orders = s.orders /\ t.state = s.state /\ t.stale = s.stale
        /\ t.ready = s.ready /\ t.retried = s.retried /\ t.retryAt = s.retryAt
        /\ t.confirmed = s.confirmed /\ t.ackDue = s.ackDue
    BY <2>2, SMT DEF SubFields
  <2>4. IsSub(t)
    BY <1>0, <2>2, <2>3 DEF IsSub
  <2>5. KeepsSub(s, t, StreamFields)
    BY <2>2 DEF KeepsSub, StreamFields
  <2> QED
    BY <1>1, <2>2, <2>3, <2>4, <2>5 DEF TakenFields, t
<1>2. CASE f.kind = "page"
  <2>1. t = [s EXCEPT !.staged = IF @ = <<>> THEN @ ELSE <<f.n>>]
    BY <1>2, Zenon DEF Taken
  <2>2. s.staged = <<None>> /\ <<None>> # <<>>
    BY <1>2 DEF StepSays
  <2>3. t = [s EXCEPT !.staged = <<f.n>>]
    <3> HIDE DEF t
    <3> QED
      BY <2>1, <2>2, Zenon
  <2> HIDE DEF t
  <2>4. IsMap(t, SubFields) /\ t.staged = <<f.n>> /\ \A g \in SubFields \ {"staged"} : t[g] = s[g]
    BY <1>0, <2>3, Zenon DEF IsMap, SubFields
  <2>5. /\ t.id = s.id /\ t.consumers = s.consumers /\ t.sub = s.sub /\ t.seq = s.seq
        /\ t.cursor = s.cursor /\ t.orders = s.orders /\ t.state = s.state /\ t.stale = s.stale
        /\ t.ready = s.ready /\ t.retried = s.retried /\ t.retryAt = s.retryAt
        /\ t.confirmed = s.confirmed /\ t.ackDue = s.ackDue
    BY <2>4, SMT DEF SubFields
  <2>6. IsSub(t)
    BY <1>0, <2>4, <2>5 DEF IsSub
  <2>7. KeepsSub(s, t, StreamFields)
    BY <2>4 DEF KeepsSub, StreamFields
  <2> QED
    BY <1>2, <2>4, <2>5, <2>6, <2>7 DEF TakenFields, t
<1>3. CASE f.kind = "end"
  <2>1. t = [s EXCEPT !.staged = <<>>, !.cursor = f.n, !.retried = FALSE, !.orders = s.staged[1]]
    BY <1>3, Zenon DEF Taken
  <2>2. s.staged[1] = f.n
    BY <1>3 DEF StepSays
  <2> HIDE DEF t
  <2>4. /\ IsMap(t, SubFields) /\ t.staged = <<>> /\ t.cursor = f.n /\ t.retried = FALSE /\ t.orders = f.n
        /\ \A g \in SubFields \ {"staged", "cursor", "retried", "orders"} : t[g] = s[g]
    BY <1>0, <2>1, <2>2, Zenon DEF IsMap, SubFields
  <2>5. /\ t.id = s.id /\ t.consumers = s.consumers /\ t.sub = s.sub /\ t.seq = s.seq
        /\ t.state = s.state /\ t.stale = s.stale
        /\ t.ready = s.ready /\ t.retryAt = s.retryAt
        /\ t.confirmed = s.confirmed /\ t.ackDue = s.ackDue
    BY <2>4, SMT DEF SubFields
  <2>6. IsSub(t)
    BY <1>0, <2>4, <2>5 DEF IsSub
  <2>7. KeepsSub(s, t, StreamFields)
    BY <2>4 DEF KeepsSub, StreamFields
  <2> QED
    BY <1>3, <2>4, <2>5, <2>6, <2>7 DEF TakenFields, t
<1>4. CASE f.kind = "unit"
  <2>1. t = [s EXCEPT !.cursor = f.n, !.retried = FALSE,
                      !.orders = IF s.orders = None THEN s.orders ELSE Apply(s.orders, f.n)]
    BY <1>4, Zenon DEF Taken
  <2>2. (IF s.orders = None THEN s.orders ELSE Apply(s.orders, f.n)) = f.n
    <3>1. s.orders # None /\ f.n = s.orders + 1
      BY <1>4, PrivateOrdersAssumption DEF StepSays, None
    <3> QED
      BY <3>1 DEF Apply
  <2>3. t = [s EXCEPT !.cursor = f.n, !.retried = FALSE, !.orders = f.n]
    <3> HIDE DEF t
    <3> QED
      BY <2>1, <2>2, Zenon
  <2> HIDE DEF t
  <2>4. /\ IsMap(t, SubFields) /\ t.cursor = f.n /\ t.retried = FALSE /\ t.orders = f.n
        /\ \A g \in SubFields \ {"cursor", "retried", "orders"} : t[g] = s[g]
    BY <1>0, <2>3, Zenon DEF IsMap, SubFields
  <2>5. /\ t.id = s.id /\ t.consumers = s.consumers /\ t.sub = s.sub /\ t.seq = s.seq
        /\ t.state = s.state /\ t.stale = s.stale /\ t.staged = s.staged
        /\ t.ready = s.ready /\ t.retryAt = s.retryAt
        /\ t.confirmed = s.confirmed /\ t.ackDue = s.ackDue
    BY <2>4, SMT DEF SubFields
  <2>6. IsSub(t)
    BY <1>0, <2>4, <2>5 DEF IsSub
  <2>7. KeepsSub(s, t, StreamFields)
    BY <2>4 DEF KeepsSub, StreamFields
  <2> QED
    BY <1>4, <2>4, <2>5, <2>6, <2>7 DEF TakenFields, t
<1>5. CASE f.kind = "covered"
  <2>1. t = [s EXCEPT !.cursor = f.n, !.retried = FALSE]
    BY <1>5, Zenon DEF Taken
  <2> HIDE DEF t
  <2>4. /\ IsMap(t, SubFields) /\ t.cursor = f.n /\ t.retried = FALSE
        /\ \A g \in SubFields \ {"cursor", "retried"} : t[g] = s[g]
    BY <1>0, <2>1, Zenon DEF IsMap, SubFields
  <2>5. /\ t.id = s.id /\ t.consumers = s.consumers /\ t.sub = s.sub /\ t.seq = s.seq
        /\ t.state = s.state /\ t.stale = s.stale /\ t.staged = s.staged /\ t.orders = s.orders
        /\ t.ready = s.ready /\ t.retryAt = s.retryAt
        /\ t.confirmed = s.confirmed /\ t.ackDue = s.ackDue
    BY <2>4, SMT DEF SubFields
  <2>6. IsSub(t)
    BY <1>0, <2>4, <2>5 DEF IsSub
  <2>7. KeepsSub(s, t, StreamFields)
    BY <2>4 DEF KeepsSub, StreamFields
  <2> QED
    BY <1>5, <2>4, <2>5, <2>6, <2>7 DEF TakenFields, t
<1>6. CASE f.kind = "ready"
  <2>1. t = [s EXCEPT !.ready = TRUE, !.retried = FALSE]
    BY <1>6, Zenon DEF Taken
  <2> HIDE DEF t
  <2>4. /\ IsMap(t, SubFields) /\ t.ready = TRUE /\ t.retried = FALSE
        /\ \A g \in SubFields \ {"ready", "retried"} : t[g] = s[g]
    BY <1>0, <2>1, Zenon DEF IsMap, SubFields
  <2>5. /\ t.id = s.id /\ t.consumers = s.consumers /\ t.sub = s.sub /\ t.seq = s.seq
        /\ t.state = s.state /\ t.stale = s.stale /\ t.staged = s.staged /\ t.orders = s.orders
        /\ t.cursor = s.cursor /\ t.retryAt = s.retryAt
        /\ t.confirmed = s.confirmed /\ t.ackDue = s.ackDue
    BY <2>4, SMT DEF SubFields
  <2>6. IsSub(t)
    BY <1>0, <2>4, <2>5 DEF IsSub
  <2>7. KeepsSub(s, t, StreamFields)
    BY <2>4 DEF KeepsSub, StreamFields
  <2> QED
    BY <1>6, <2>4, <2>5, <2>6, <2>7 DEF TakenFields, t
<1>7. CASE f.kind \in {"unavailable", "available"}
  <2>1. t = [s EXCEPT !.stale = (f.kind = "unavailable")]
    <3>1. CASE f.kind = "unavailable"
      BY <3>1, Zenon DEF Taken
    <3>2. CASE f.kind = "available"
      BY <3>2, Zenon DEF Taken
    <3> QED
      BY <1>7, <3>1, <3>2
  <2> HIDE DEF t
  <2>4. /\ IsMap(t, SubFields) /\ t.stale = (f.kind = "unavailable")
        /\ \A g \in SubFields \ {"stale"} : t[g] = s[g]
    BY <1>0, <2>1, Zenon DEF IsMap, SubFields
  <2>5. /\ t.id = s.id /\ t.consumers = s.consumers /\ t.sub = s.sub /\ t.seq = s.seq
        /\ t.state = s.state /\ t.ready = s.ready /\ t.staged = s.staged /\ t.orders = s.orders
        /\ t.cursor = s.cursor /\ t.retryAt = s.retryAt /\ t.retried = s.retried
        /\ t.confirmed = s.confirmed /\ t.ackDue = s.ackDue
    BY <2>4, SMT DEF SubFields
  <2>6. IsSub(t)
    <3>1. t.stale \in BOOLEAN
      BY <2>4, Zenon
    <3> QED
      BY <1>0, <2>4, <2>5, <3>1 DEF IsSub
  <2>7. KeepsSub(s, t, StreamFields)
    BY <2>4 DEF KeepsSub, StreamFields
  <2>8. /\ f.kind = "unavailable" => t.stale = TRUE
        /\ f.kind = "available" => t.stale = FALSE
    BY <2>4, Zenon
  <2> QED
    BY <1>7, <2>4, <2>5, <2>6, <2>7, <2>8 DEF TakenFields, t
<1>8. CASE f.kind = "resync"
  <2>1. t = s
    BY <1>8, Zenon DEF Taken
  <2>2. KeepsSub(s, s, StreamFields)
    BY <1>0 DEF KeepsSub
  <2> QED
    BY <1>8, <2>1, <2>2 DEF TakenFields
<1> QED
  BY <1>1, <1>2, <1>3, <1>4, <1>5, <1>6, <1>7, <1>8 DEF TakenKinds

TakenBy(b, x, f) == [b EXCEPT !.subs[x] = Taken(b.subs[x], f)]

Outcome(b, x, f, z, t) ==
  /\ f.kind \in {"begin", "page", "covered"} => z = t
  /\ f.kind = "resync" => z = b
  /\ f.kind = "end" => z = Deliver(t, x, "snapshot", b.subs[x].staged[1])
  /\ f.kind = "unit" => z = Deliver(t, x, "unit", f.n)
  /\ f.kind = "ready" => z = IF b.subs[x].ready THEN t ELSE Deliver(t, x, "ready", None)
  /\ f.kind = "unavailable" => z = Deliver(t, x, "stale", 1)
  /\ f.kind = "available" => z = Deliver(t, x, "stale", None)

\* What the handler makes of a frame of the stream, one kind at a time.
LEMMA FrameCases ==
  ASSUME NEW b, NEW x, NEW f, f.kind \in TakenKinds,
         f.kind = "end" => b.subs[x].staged = <<f.n>> /\ f.n # None
  PROVE  Outcome(b, x, f, OnStreamFrame(b, x, f), TakenBy(b, x, f))
<1> DEFINE z == OnStreamFrame(b, x, f)
           t == TakenBy(b, x, f)
<1>1. ASSUME f.kind = "begin" PROVE z = t
  BY <1>1, Zenon DEF OnStreamFrame, TakenBy, Taken
<1>2. ASSUME f.kind = "page" PROVE z = t
  BY <1>2, Zenon DEF OnStreamFrame, TakenBy, Taken
<1>3. ASSUME f.kind = "covered" PROVE z = t
  BY <1>3, Zenon DEF OnStreamFrame, TakenBy, Taken
<1>4. ASSUME f.kind = "resync" PROVE z = b
  BY <1>4, Zenon DEF OnStreamFrame
<1>5. ASSUME f.kind = "end" PROVE z = Deliver(t, x, "snapshot", b.subs[x].staged[1])
  <2>1. b.subs[x].staged # <<>> /\ b.subs[x].staged # <<None>>
    <3>1. b.subs[x].staged = <<f.n>> /\ f.n # None
      BY <1>5
    <3>2. \A n, m : n # m => <<n>> # <<>> /\ <<n>> # <<m>>
      OBVIOUS
    <3> QED
      BY <3>1, <3>2, Zenon
  <2> QED
    BY <1>5, <2>1, Zenon DEF OnStreamFrame, TakenBy, Taken
<1>6. ASSUME f.kind = "unit" PROVE z = Deliver(t, x, "unit", f.n)
  BY <1>6, Zenon DEF OnStreamFrame, TakenBy, Taken
<1>7. ASSUME f.kind = "ready"
      PROVE  z = IF b.subs[x].ready THEN t ELSE Deliver(t, x, "ready", None)
  BY <1>7, Zenon DEF OnStreamFrame, TakenBy, Taken
<1>8. ASSUME f.kind = "unavailable" PROVE z = Deliver(t, x, "stale", 1)
  BY <1>8, Zenon DEF OnStreamFrame, TakenBy, Taken
<1>9. ASSUME f.kind = "available" PROVE z = Deliver(t, x, "stale", None)
  BY <1>9, Zenon DEF OnStreamFrame, TakenBy, Taken
<1> HIDE DEF z, t
<1>10. Outcome(b, x, f, z, t)
  BY <1>1, <1>2, <1>3, <1>4, <1>5, <1>6, <1>7, <1>8, <1>9, Zenon DEF Outcome
<1> QED
  BY <1>10, Zenon DEF z, t

Counts(a, b, x, n) == b = [a EXCEPT !.subs[x].seq = n]

\* The sequence number of the frame is the subscription's.
LEMMA Counted ==
  ASSUME NEW a, ActorOK(a), NEW x \in DOMAIN a.subs, NEW n \in Nat,
         NEW b, Counts(a, b, x, n)
  PROVE  /\ OneSub(a, b, x, b.subs[x]) /\ IsSub(b.subs[x])
         /\ KeepsSub(a.subs[x], b.subs[x], {"seq"}) /\ b.subs[x].seq = n
<1> DEFINE t == [a.subs[x] EXCEPT !.seq = n]
<1>1. IsSub(a.subs[x])
  BY DEF ActorOK, SubsOK
<1>2. IsSub(t) /\ KeepsSub(a.subs[x], t, {"seq"}) /\ t.seq = n
  BY <1>1, Zenon DEF IsSub, IsMap, SubFields, KeepsSub
<1>3. b = [a EXCEPT !.subs[x] = t]
  BY Zenon DEF Counts
<1> HIDE DEF t
<1>4. OneSub(a, b, x, t)
  BY <1>2, <1>3, OneSubIs
<1>5. b.subs[x] = t
  BY <1>4 DEF OneSub
<1> QED
  BY <1>2, <1>4, <1>5

\* A frame in sequence takes the subscription where the server's was.
LEMMA TakenTakes ==
  ASSUME NEW a, NEW in, NEW S, NEW A, Fine(a, in, S, A, {}, {}),
         NEW x \in DOMAIN a.subs, InOrder(in, a.subs[x]),
         NEW b, OneSub(a, b, x, b.subs[x]), IsSub(b.subs[x]),
         KeepsSub(a.subs[x], b.subs[x], {"seq"}), b.subs[x].seq = in[1].seq,
         in[1].kind # "badEnd"
  PROVE  /\ in[1].kind \in TakenKinds
         /\ \E w, d : StepSays(b.subs[x], in[1], w, d)
         /\ TakenFields(b.subs[x], Taken(b.subs[x], in[1]), in[1])
         /\ Takes(a, in, S, x, Taken(b.subs[x], in[1]))
         /\ OneSub(a, TakenBy(b, x, in[1]), x, Taken(b.subs[x], in[1]))
<1> DEFINE s == a.subs[x]
           s0 == b.subs[x]
           f == in[1]
           t == Taken(s0, f)
<1>0. ActorOK(a) /\ Linked(a, in, S, {}, {}) /\ Cursors(a)
  BY DEF Fine, Linked
<1>1. /\ 1 \in DOMAIN in /\ f.kind \in StreamKinds /\ s.sub # None /\ f.sub = s.sub
      /\ f.seq # 0 /\ f.seq = s.seq + 1
  BY DEF InOrder
<1>2. f.n \in Nat /\ f.seq \in Nat
  BY DEF InOrder, Frames
<1>3. IsSub(s)
  BY <1>0 DEF ActorOK, SubsOK
<1>4. /\ s0.id = s.id /\ s0.consumers = s.consumers /\ s0.sub = s.sub /\ s0.cursor = s.cursor
      /\ s0.staged = s.staged /\ s0.orders = s.orders /\ s0.state = s.state
      /\ s0.stale = s.stale /\ s0.ready = s.ready
  BY SMT DEF KeepsSub, SubFields
<1>5. \A w, d : StepSays(s, f, w, d) <=> StepSays(s0, f, w, d)
  BY <1>4 DEF StepSays
<1>6. \A v, w, d : Step(s, f, v, w, d) => StepSays(s0, f, w, d)
  <2> HIDE DEF s, s0, f
  <2> QED
    BY <1>3, <1>5, StepFacts
<1>7. \E v, w, d : Step(s, f, v, w, d)
  BY <1>0, <1>1, TakesIs, Zenon
<1>8. PICK w, d : StepSays(s0, f, w, d)
  BY <1>6, <1>7
<1>9. f.kind \in TakenKinds
  BY <1>1, <1>8 DEF StepSays, StreamKinds, TakenKinds
<1>10. TakenFields(s0, t, f)
  <2>1. IsSub(s0)
    OBVIOUS
  <2> HIDE DEF s0, f
  <2> QED
    BY <2>1, <1>2, <1>8, <1>9, TakenEffect
<1> HIDE DEF t
<1>11. /\ IsSub(t) /\ KeepsSub(s0, t, StreamFields) /\ t.seq = f.seq
  BY <1>10 DEF TakenFields
<1>12. KeepsSub(s, t, StreamFields)
  BY <1>11 DEF KeepsSub, StreamFields
<1>13. s.orders <= MaxHistory /\ (s.cursor # None => s.orders = s.cursor)
  BY <1>0 DEF Cursors, ViewsAt, AsksAt, Asks, SentAt
<1>14. t.orders <= MaxHistory /\ (t.cursor # None => t.orders = t.cursor)
  <2>1. /\ t.cursor = IF f.kind \in {"end", "unit", "covered"} THEN f.n ELSE s.cursor
        /\ t.orders = IF f.kind \in {"end", "unit"} THEN f.n ELSE s.orders
    BY <1>4, <1>10 DEF TakenFields
  <2>2. /\ f.kind \in {"end", "unit"} => f.n <= MaxHistory
        /\ f.kind = "covered" => f.n = s.orders
    BY <1>4, <1>8, PrivateOrdersAssumption DEF StepSays
  <2> QED
    BY <1>13, <2>1, <2>2
<1>15. ASSUME NEW v, NEW u, NEW e, Step(s, f, v, u, e)
       PROVE  Follows(t, u) /\ (t.ready => t.orders >= e)
  <2>1. StepSays(s0, f, u, e)
    BY <1>6, <1>15
  <2> HIDE DEF s0, s, f
  <2>2. CASE f.kind \in {"resync", "begin", "page"}
    BY <2>1, <2>2, <1>10 DEF StepSays, TakenFields, Follows
  <2>3. CASE f.kind \in {"end", "unit"}
    <3>1. t.orders = f.n /\ t.ready = s0.ready /\ u.stage = "units" /\ u.pos = f.n
      BY <2>1, <2>3, <1>10 DEF StepSays, TakenFields
    <3>2. t.ready => f.n >= e
      BY <2>1, <2>3, <3>1 DEF StepSays
    <3> QED
      BY <3>1, <3>2 DEF Follows
  <2>4. CASE f.kind \in {"ready", "covered", "unavailable", "available"}
    <3>1. t.orders = s0.orders /\ u.stage = "units" /\ u.pos = s0.orders
      BY <2>1, <2>4, <1>10 DEF StepSays, TakenFields
    <3>2. t.ready => s0.orders >= e
      BY <2>1, <2>4, <1>10 DEF StepSays, TakenFields
    <3> QED
      BY <3>1, <3>2 DEF Follows
  <2> QED
    BY <1>9, <2>2, <2>3, <2>4 DEF TakenKinds
<1>16. Takes(a, in, S, x, t)
  BY <1>0, <1>1, <1>11, <1>12, <1>14, <1>15, TakesIs, Zenon
<1>17. OneSub(a, TakenBy(b, x, f), x, t)
  <2>1. ActorOK(b) /\ x \in DOMAIN b.subs
    BY DEF OneSub
  <2>2. TakenBy(b, x, f) = [b EXCEPT !.subs[x] = t]
    BY Zenon DEF TakenBy, t
  <2>3. OneSub(b, TakenBy(b, x, f), x, t)
    BY <1>11, <2>1, <2>2, OneSubIs
  <2> QED
    BY <2>3, OneSubTwice
<1> QED
  BY <1>8, <1>9, <1>10, <1>16, <1>17 DEF t

\* A stream frame in its order keeps the invariant.
LEMMA TakenFine ==
  ASSUME NEW a, NEW in, NEW S, NEW A, Fine(a, in, S, A, {}, {}),
         NEW x \in DOMAIN a.subs, InOrder(in, a.subs[x]), in[1].kind # "badEnd",
         NEW b, OneSub(a, b, x, b.subs[x]), IsSub(b.subs[x]),
         KeepsSub(a.subs[x], b.subs[x], {"seq"}), b.subs[x].seq = in[1].seq
  PROVE  Fine(OnStreamFrame(b, x, in[1]), in, S, A, {}, {})
<1> DEFINE s == a.subs[x]
           s0 == b.subs[x]
           f == in[1]
           t == Taken(s0, f)
           c == TakenBy(b, x, f)
           z == OnStreamFrame(b, x, f)
<1>1. /\ f.kind \in TakenKinds /\ TakenFields(s0, t, f) /\ Takes(a, in, S, x, t)
      /\ OneSub(a, c, x, t)
  BY TakenTakes, Zenon
<1>2. PICK w, d : StepSays(s0, f, w, d)
  BY TakenTakes, Zenon
<1>3. s.sub # None /\ f.n \in Nat /\ None \in Nat /\ 1 \in Nat
  BY DEF InOrder, Frames, None
<1>4. s0.orders = s.orders /\ s0.state = s.state /\ s0.stale = s.stale /\ s0.ready = s.ready
  BY SMT DEF KeepsSub, SubFields
<1>5. f.kind = "end" => s0.staged = <<f.n>> /\ f.n # None
  BY <1>2, PrivateOrdersAssumption DEF StepSays, None
<1>6. f.kind = "resync" => t = s0
  BY Zenon DEF Taken
<1> HIDE DEF t, c, z
<1>7. t.state = s.state
  BY <1>1, <1>4, SMT DEF TakenFields, KeepsSub, SubFields, StreamFields
<1>8. /\ t.orders = s.orders /\ t.stale = s.stale /\ t.ready = s.ready
         => Fine(c, in, S, A, {}, {})
      /\ \A event \in Events, n \in Nat : News(s, t, event, n)
         => Fine(Deliver(c, x, event, n), in, S, A, {}, {})
  BY <1>1, <1>3, TakesFine, Zenon
<1>9. Outcome(b, x, f, z, c)
  <2>1. f.kind \in TakenKinds
    BY <1>1
  <2> QED
    BY <1>5, <2>1, FrameCases, Zenon DEF z, c
<1>19. s0 = b.subs[x]
  OBVIOUS
<1> HIDE DEF s0, f, s
<1>10. ASSUME f.kind \in {"begin", "page", "covered"} PROVE Fine(z, in, S, A, {}, {})
  BY <1>1, <1>4, <1>8, <1>9, <1>19, <1>10, SMT DEF TakenFields, Outcome
<1>11. ASSUME f.kind = "resync" PROVE Fine(z, in, S, A, {}, {})
  <2>1. t.orders = s.orders /\ t.stale = s.stale /\ t.ready = s.ready
    BY <1>4, <1>6, <1>11
  <2>2. Takes(a, in, S, x, s0) /\ OneSub(a, b, x, s0)
    BY <1>1, <1>6, <1>11 DEF s0
  <2>3. Fine(b, in, S, A, {}, {})
    BY <2>1, <2>2, <1>3, <1>6, <1>11, TakesFine DEF s
  <2> QED
    BY <2>3, <1>9, <1>19, <1>11 DEF Outcome
<1>12. ASSUME f.kind = "end" PROVE Fine(z, in, S, A, {}, {})
  <2>1. s0.staged[1] = f.n /\ f.n # Torn
    BY <1>2, <1>5, <1>12, PrivateOrdersAssumption DEF StepSays, Torn
  <2>2. News(s, t, "snapshot", f.n)
    BY <1>1, <1>4, <1>7, <1>12, <2>1 DEF TakenFields, News
  <2>3. Fine(Deliver(c, x, "snapshot", f.n), in, S, A, {}, {})
    BY <1>3, <1>8, <2>2 DEF Events
  <2> QED
    BY <1>9, <1>19, <1>12, <2>1, <2>3 DEF Outcome
<1>13. ASSUME f.kind = "unit" PROVE Fine(z, in, S, A, {}, {})
  <2>1. f.n = s.orders + 1 /\ f.n # Torn
    BY <1>2, <1>4, <1>13, PrivateOrdersAssumption DEF StepSays, Torn
  <2>2. News(s, t, "unit", f.n)
    BY <1>1, <1>4, <1>7, <1>13, <2>1 DEF TakenFields, News, Apply
  <2>3. Fine(Deliver(c, x, "unit", f.n), in, S, A, {}, {})
    BY <1>3, <1>8, <2>2 DEF Events
  <2> QED
    BY <1>9, <1>19, <1>13, <2>3 DEF Outcome
<1>14. ASSUME f.kind = "ready" /\ s0.ready PROVE Fine(z, in, S, A, {}, {})
  <2>1. t.orders = s.orders /\ t.stale = s.stale /\ t.ready = s.ready
    <3>1. s0.ready = TRUE
      BY <1>14 DEF IsSub, s0
    <3> QED
      BY <1>1, <1>4, <1>14, <3>1 DEF TakenFields
  <2> QED
    BY <2>1, <1>8, <1>9, <1>19, <1>14 DEF Outcome
<1>15. ASSUME f.kind = "ready" /\ ~s0.ready PROVE Fine(z, in, S, A, {}, {})
  <2>1. News(s, t, "ready", None)
    BY <1>1, <1>4, <1>7, <1>15 DEF TakenFields, News
  <2>2. Fine(Deliver(c, x, "ready", None), in, S, A, {}, {})
    BY <1>3, <1>8, <2>1 DEF Events
  <2> QED
    BY <2>2, <1>9, <1>19, <1>15 DEF Outcome
<1>16. ASSUME f.kind = "unavailable" PROVE Fine(z, in, S, A, {}, {})
  <2>0. 1 # None
    BY DEF None
  <2>1. News(s, t, "stale", 1)
    BY <2>0, <1>1, <1>4, <1>7, <1>16 DEF TakenFields, News
  <2>2. Fine(Deliver(c, x, "stale", 1), in, S, A, {}, {})
    BY <1>3, <1>8, <2>1 DEF Events
  <2> QED
    BY <2>2, <1>9, <1>19, <1>16 DEF Outcome
<1>17. ASSUME f.kind = "available" PROVE Fine(z, in, S, A, {}, {})
  <2>1. News(s, t, "stale", None)
    BY <1>1, <1>4, <1>7, <1>17 DEF TakenFields, News
  <2>2. Fine(Deliver(c, x, "stale", None), in, S, A, {}, {})
    BY <1>3, <1>8, <2>1 DEF Events
  <2> QED
    BY <2>2, <1>9, <1>19, <1>17 DEF Outcome
<1>18. Fine(z, in, S, A, {}, {})
  BY <1>1, <1>10, <1>11, <1>12, <1>13, <1>14, <1>15, <1>16, <1>17 DEF TakenKinds
<1> QED
  BY <1>18 DEF z, f

\* Two states with the same fields are the same.
LEMMA SameState ==
  ASSUME NEW a, NEW b, IsMap(a, Fields), IsMap(b, Fields), \A g \in Fields : b[g] = a[g]
  PROVE  b = a
<1>1. b = [g \in Fields |-> b[g]] /\ a = [g \in Fields |-> a[g]]
  BY Zenon DEF IsMap
<1>2. [g \in Fields |-> b[g]] = [g \in Fields |-> a[g]]
  BY Zenon
<1> QED
  BY <1>1, <1>2, Zenon

\* A subscription that counts what it has counted does not change.
LEMMA CountedSame ==
  ASSUME NEW a, ActorOK(a), NEW x \in DOMAIN a.subs
  PROVE  [a EXCEPT !.subs[x].seq = a.subs[x].seq] = a
<1> DEFINE s == a.subs[x]
           t == [s EXCEPT !.seq = s.seq]
           m == [a.subs EXCEPT ![x] = t]
           b == [a EXCEPT !.subs = m]
<1>1. IsMap(a, Fields) /\ IsMap(a.subs, DOMAIN a.subs) /\ IsMap(s, SubFields)
  BY DEF ActorOK, SubsOK, IsSub
<1>2. t = s
  <2> HIDE DEF s
  <2>1. t = [g \in SubFields |-> s[g]]
    BY <1>1, Zenon DEF IsMap, SubFields
  <2> QED
    BY <1>1, <2>1, Zenon DEF IsMap
<1>3. m = a.subs
  <2>1. m = [y \in DOMAIN a.subs |-> a.subs[y]]
    BY <1>1, <1>2, Zenon DEF IsMap
  <2> QED
    BY <1>1, <2>1, Zenon DEF IsMap
<1>4. b = a
  <2> HIDE DEF m
  <2>1. b = [g \in Fields |-> a[g]]
    BY <1>1, <1>3, Zenon DEF IsMap, Fields
  <2> QED
    BY <1>1, <2>1, Zenon DEF IsMap
<1>5. [a EXCEPT !.subs[x].seq = a.subs[x].seq] = b
  BY Zenon
<1> QED
  BY <1>4, <1>5, Zenon

\* A snapshot that cannot be used is forgotten before the account asks again.
LEMMA BadSnapshotFine ==
  ASSUME NEW a, NEW in, NEW S, NEW A, Fine(a, in, S, A, {}, {}),
         NEW x \in DOMAIN a.subs, a.subs[x].sub # None,
         NEW b, OneSub(a, b, x, b.subs[x]), IsSub(b.subs[x]),
         KeepsSub(a.subs[x], b.subs[x], {"seq"}), NEW f
  PROVE  Fine(BadSnapshot(b, x, f), in, S, A, {}, {})
<1> DEFINE s == b.subs[x]
           t == [s EXCEPT !.staged = <<>>, !.cursor = None]
           c == [b EXCEPT !.subs[x] = t]
<1>1. IsSub(s) /\ None \in Nat /\ <<>> \in Seq(Nat)
  BY DEF None
<1>2. IsSub(t) /\ KeepsSub(s, t, {"staged", "cursor"}) /\ t.cursor = None
  <2> HIDE DEF s
  <2>1. IsMap(t, SubFields) /\ t.cursor = None /\ t.staged = <<>>
        /\ \A g \in SubFields \ {"staged", "cursor"} : t[g] = s[g]
    BY <1>1, Zenon DEF IsSub, IsMap, SubFields
  <2>2. /\ t.id = s.id /\ t.consumers = s.consumers /\ t.sub = s.sub /\ t.seq = s.seq
        /\ t.orders = s.orders /\ t.state = s.state /\ t.stale = s.stale
        /\ t.ready = s.ready /\ t.retried = s.retried /\ t.retryAt = s.retryAt
        /\ t.confirmed = s.confirmed /\ t.ackDue = s.ackDue
    BY <2>1, SMT DEF SubFields
  <2> QED
    BY <1>1, <2>1, <2>2 DEF IsSub, KeepsSub
<1>3. BadSnapshot(b, x, f) = Resubscribe(c, x)
  <2>1. [b EXCEPT !.subs[x].staged = <<>>, !.subs[x].cursor = None] = c
    OBVIOUS
  <2> QED
    BY <2>1, Zenon DEF BadSnapshot
<1>10. c = [b EXCEPT !.subs[x] = t]
  OBVIOUS
<1> HIDE DEF t, c
<1>4. OneSub(b, c, x, t)
  <2>1. ActorOK(b) /\ x \in DOMAIN b.subs
    BY DEF OneSub
  <2> QED
    BY <1>2, <1>10, <2>1, OneSubIs
<1>5. OneSub(a, c, x, t)
  BY <1>4, OneSubTwice
<1>6. /\ t.id = s.id /\ t.consumers = s.consumers /\ t.sub = s.sub
      /\ t.orders = s.orders /\ t.state = s.state /\ t.stale = s.stale
      /\ t.retryAt = s.retryAt /\ t.confirmed = s.confirmed /\ t.ackDue = s.ackDue
  BY <1>2, SMT DEF KeepsSub, SubFields
<1>7. LET u == a.subs[x]
      IN  /\ s.id = u.id /\ s.consumers = u.consumers /\ s.sub = u.sub
          /\ s.orders = u.orders /\ s.state = u.state /\ s.stale = u.stale
          /\ s.retryAt = u.retryAt /\ s.confirmed = u.confirmed /\ s.ackDue = u.ackDue
  BY SMT DEF KeepsSub, SubFields
<1> HIDE DEF s
<1>8. Prelude(a, c, x) /\ c.subs[x].sub # None
  BY <1>2, <1>5, <1>6, <1>7 DEF OneSub, Prelude
<1>9. Fine(Resubscribe(c, x), in, S, A, {}, {})
  BY <1>8, ResubscribeFine
<1> QED
  BY <1>3, <1>9

\* The token of the account is asked for before it expires.
LEMMA RefreshFine ==
  ASSUME NEW a, NEW in, NEW S, NEW A, Fine(a, in, S, A, {}, {}),
         NEW x \in DOMAIN a.subs, a.subs[x].sub # None
  PROVE  Fine(Refresh(a, x), in, S, A, {}, {})
<1> DEFINE t == [kind |-> "refresh", owner |-> a.conn, request |-> None,
                 account |-> x, sub |-> a.subs[x].sub]
           b == [a EXCEPT !.tasks = @ \cup {t}]
<1>1. Refresh(a, x) = b
  BY Zenon DEF Refresh, Spawn
<1>2. ActorOK(a) /\ Linked(a, in, S, {}, {}) /\ Crowd(a, A, {}) /\ Link(a) /\ Ids(a, in, S)
  BY DEF Fine, Linked
<1>3. IsMap(a, Fields) /\ a.conn \in Nat /\ x \in Accounts /\ a.subs[x].sub \in Nat /\ None \in Nat
  BY <1>2 DEF ActorOK, SubsOK, IsSub, None
<1>4. t \in Tasks
  BY <1>3 DEF Tasks
<1>5. a.subs[x].sub <= a.nextRequest
  BY <1>2 DEF Link, Listening, Ids
<1>6. Keeps(a, b, {"tasks"}) /\ b.tasks = a.tasks \cup {t}
  <2> HIDE DEF t
  <2> QED
    BY <1>3, Zenon DEF Keeps, IsMap, Fields
<1>7. t.kind = "refresh" /\ t.sub = a.subs[x].sub
  OBVIOUS
<1> HIDE DEF t, b
<1>8. ActorOK(b) /\ Linked(b, in, S, {}, {}) /\ SameCrowd(a, b)
  BY <1>2, <1>4, <1>5, <1>6, <1>7, RenewLinked
<1>9. Crowd(b, A, {})
  BY <1>2, <1>8, CrowdKept
<1> QED
  BY <1>1, <1>8, <1>9 DEF Fine

\* A stream frame, in its order, out of order or for nobody, keeps the invariant.
LEMMA OnStreamFine ==
  ASSUME NEW a, NEW in, NEW S, NEW A, Fine(a, in, S, A, {}, {}), in # <<>>,
         in[1].kind \in StreamKinds
  PROVE  Fine(OnStream(a, in[1]), in, S, A, {}, {})
<1> DEFINE f == in[1]
           x == a.bySub[f.sub]
           n == IF f.seq > 0 THEN f.seq ELSE a.subs[x].seq
           b == [a EXCEPT !.subs[x].seq = n]
<1>0. /\ ActorOK(a) /\ Linked(a, in, S, {}, {}) /\ Link(a) /\ Ids(a, in, S) /\ Wire(a, in)
      /\ in \in Seq(Frames)
  BY DEF Fine, Linked, EndsOK
<1>1. 1 \in DOMAIN in /\ f \in Frames
  BY <1>0, TailIs
<1>2. f.sub \in Nat /\ f.seq \in Nat
  BY <1>1 DEF Frames
<1>3. CASE f.sub \notin DOMAIN a.bySub
  BY <1>3, Zenon DEF OnStream
<1>4. CASE f.sub \in DOMAIN a.bySub
  <2>1. x \in DOMAIN a.subs /\ a.subs[x].sub = f.sub /\ f.sub # None
    BY <1>0, <1>4 DEF Link, Listening
  <2>2. a.subs[x].seq \in Nat
    BY <1>0, <2>1 DEF ActorOK, SubsOK, IsSub
  <2>3. CASE ~InSequence(a.subs[x], f)
    <3>1. OnStream(a, f) = Resubscribe(a, x)
      BY <1>4, <2>1, <2>3, Zenon DEF OnStream
    <3>2. Prelude(a, a, x)
      BY <1>0, <2>1 DEF Prelude, SetSubKeeps
    <3> HIDE DEF f, x
    <3>3. Fine(Resubscribe(a, x), in, S, A, {}, {})
      BY <2>1, <3>2, ResubscribeFine
    <3> QED
      BY <3>1, <3>3 DEF f
  <2>4. CASE InSequence(a.subs[x], f)
    <3>1. OnStream(a, f) = OnStreamFrame(b, x, f)
      BY <1>4, <2>1, <2>4, Zenon DEF OnStream
    <3>2. CASE f.seq = 0
      <4>1. f.kind \in {"expiring", "unsubscribed"}
        BY <1>0, <1>1, <3>2 DEF Wire, Numbered
      <4>2. n = a.subs[x].seq
        BY <3>2
      <4>3. b = a
        <5> HIDE DEF x
        <5> QED
          BY <1>0, <2>1, <4>2, CountedSame
      <4>4. OnStream(a, f) = OnStreamFrame(a, x, f)
        BY <3>1, <4>3
      <4>5. CASE f.kind = "expiring"
        <5>1. OnStreamFrame(a, x, f) = Refresh(a, x)
          BY <4>5, Zenon DEF OnStreamFrame
        <5> HIDE DEF f, x
        <5>2. Fine(Refresh(a, x), in, S, A, {}, {})
          BY <2>1, RefreshFine
        <5> QED
          BY <4>4, <5>1, <5>2 DEF f
      <4>6. CASE f.kind = "unsubscribed"
        <5>1. OnStreamFrame(a, x, f) = EndedByServer(a, x)
          BY <4>6, Zenon DEF OnStreamFrame
        <5>2. f.sub \notin DOMAIN S
          BY <1>0, <1>1, <4>6 DEF Ids
        <5> HIDE DEF f, x
        <5>3. Fine(EndedByServer(a, x), in, S, A, {}, {})
          BY <2>1, <5>2, EndedFine
        <5> QED
          BY <4>4, <5>1, <5>3 DEF f
      <4> QED
        BY <4>1, <4>5, <4>6
    <3>3. CASE f.seq # 0
      <4>1. n = f.seq /\ f.seq = a.subs[x].seq + 1
        BY <1>2, <2>4, <3>3 DEF InSequence
      <4>2. InOrder(in, a.subs[x])
        BY <1>1, <2>1, <3>3, <4>1 DEF InOrder
      <4>3. /\ OneSub(a, b, x, b.subs[x]) /\ IsSub(b.subs[x])
            /\ KeepsSub(a.subs[x], b.subs[x], {"seq"}) /\ b.subs[x].seq = n
        <5> HIDE DEF x, n
        <5>1. n \in Nat
          BY <1>2, <4>1
        <5>2. Counts(a, b, x, n)
          BY Zenon DEF Counts
        <5>3. ActorOK(a) /\ x \in DOMAIN a.subs
          BY <1>0, <2>1
        <5> HIDE DEF b, f
        <5>4. OneSub(a, b, x, b.subs[x])
          BY <5>1, <5>2, <5>3, Counted
        <5>5. IsSub(b.subs[x])
          BY <5>1, <5>2, <5>3, Counted
        <5>6. KeepsSub(a.subs[x], b.subs[x], {"seq"})
          BY <5>1, <5>2, <5>3, Counted
        <5>7. b.subs[x].seq = n
          BY <5>1, <5>2, <5>3, Counted
        <5> QED
          BY <5>4, <5>5, <5>6, <5>7
      <4> HIDE DEF b, x, n
      <4>4. CASE f.kind = "badEnd"
        <5>1. OnStreamFrame(b, x, f) = BadSnapshot(b, x, f)
          BY <4>4, Zenon DEF OnStreamFrame
        <5>2. Fine(BadSnapshot(b, x, f), in, S, A, {}, {})
          BY <2>1, <4>3, BadSnapshotFine
        <5> QED
          BY <3>1, <5>1, <5>2
      <4>5. CASE f.kind # "badEnd"
        <5>1. Fine(OnStreamFrame(b, x, f), in, S, A, {}, {})
          BY <2>1, <4>1, <4>2, <4>3, <4>5, TakenFine
        <5> QED
          BY <3>1, <5>1
      <4> QED
        BY <4>4, <4>5
    <3> QED
      BY <3>2, <3>3
  <2> QED
    BY <2>3, <2>4
<1> QED
  BY <1>3, <1>4

\* A token of no account is asked for before it expires.
LEMMA ReauthFine ==
  ASSUME NEW a, NEW in, NEW S, NEW A, Fine(a, in, S, A, {}, {})
  PROVE  Fine(Spawn(a, "reauth", a.conn, None, None, None), in, S, A, {}, {})
<1> DEFINE t == [kind |-> "reauth", owner |-> a.conn, request |-> None,
                 account |-> None, sub |-> None]
           b == [a EXCEPT !.tasks = @ \cup {t}]
<1>1. Spawn(a, "reauth", a.conn, None, None, None) = b
  BY Zenon DEF Spawn
<1>2. ActorOK(a) /\ Linked(a, in, S, {}, {}) /\ Crowd(a, A, {})
  BY DEF Fine
<1>3. IsMap(a, Fields) /\ a.conn \in Nat /\ None \in Nat /\ a.nextRequest \in Nat /\ None = 0
  BY <1>2 DEF ActorOK, None
<1>4. t \in Tasks /\ t.kind = "reauth" /\ t.sub <= a.nextRequest
  BY <1>3 DEF Tasks
<1>5. Keeps(a, b, {"tasks"}) /\ b.tasks = a.tasks \cup {t}
  <2> HIDE DEF t
  <2> QED
    BY <1>3, Zenon DEF Keeps, IsMap, Fields
<1> HIDE DEF t, b
<1>6. ActorOK(b) /\ Linked(b, in, S, {}, {}) /\ SameCrowd(a, b)
  BY <1>2, <1>4, <1>5, RenewLinked
<1>7. Crowd(b, A, {})
  BY <1>2, <1>6, CrowdKept
<1> QED
  BY <1>1, <1>6, <1>7 DEF Fine

\* Every frame from the server keeps the invariant.
LEMMA OnFrameFine ==
  ASSUME NEW a, NEW in, NEW S, NEW A, Fine(a, in, S, A, {}, {}), in # <<>>, a.conn # None
  PROVE  Fine(OnFrame(a, in[1]), Tail(in), S, A, {}, {})
<1> DEFINE f == in[1]
           b == [a EXCEPT !.heartbeatAt = TRUE]
           z == OnFrame(a, f)
<1>1. in \in Seq(Frames) /\ IsMap(a, Fields)
  BY DEF Fine, Linked, EndsOK, ActorOK
<1>2. 1 \in DOMAIN in /\ f \in Frames
  BY <1>1, TailIs
<1>3. Fine(b, in, S, A, {}, {})
  <2>1. SetField(a, b, "heartbeatAt", TRUE)
    BY <1>1, SetFields, Zenon
  <2> HIDE DEF b
  <2>2. b.heartbeatAt = TRUE
    BY <2>1, Zenon DEF SetField
  <2>3. SetField(a, b, "heartbeatAt", b.heartbeatAt)
    BY <2>1, <2>2, Zenon
  <2> QED
    BY <2>2, <2>3, BeatFine
<1> HIDE DEF b
<1>4. b = [a EXCEPT !.heartbeatAt = TRUE]
  BY DEF b
<1>5. ActorOK(b) /\ Link(b) /\ Wire(b, in)
  BY <1>3 DEF Fine, Linked
<1>6. f.kind # "subscribed" => \A c : Fine(c, in, S, A, {}, {}) => Fine(c, Tail(in), S, A, {}, {})
  BY TailFine
<1>7. ASSUME f.kind = "garbled" PROVE Fine(z, Tail(in), S, A, {}, {})
  <2>1. z = ReportAll(b)
    BY <1>4, <1>7, Zenon DEF OnFrame
  <2> HIDE DEF f, z
  <2> QED
    BY <1>3, <1>6, <1>7, <2>1, ReportAllFine
<1>8. ASSUME f.kind = "subscribed" PROVE Fine(z, Tail(in), S, A, {}, {})
  <2>1. z = OnSubscribed(b, f)
    BY <1>4, <1>8, Zenon DEF OnFrame
  <2>2. Fine(OnSubscribed(b, f), Tail(in), S, A, {}, {})
    BY <1>3, <1>8, OnSubscribedFine
  <2> HIDE DEF z
  <2> QED
    BY <2>1, <2>2
<1>9. ASSUME f.kind = "refreshed" PROVE Fine(z, Tail(in), S, A, {}, {})
  <2>1. z = DropRequest(b, f.id)
    BY <1>4, <1>9, Zenon DEF OnFrame, DropRequest
  <2>2. f.id \in DOMAIN b.pending => b.pending[f.id].kind # "subscribe"
    BY <1>2, <1>5, <1>9 DEF Wire
  <2> HIDE DEF f, z
  <2> QED
    BY <1>3, <1>6, <1>9, <2>1, <2>2, DropFine
<1>10. ASSUME f.kind = "unsubscribed", f.id \in b.unsubscribing
       PROVE  Fine(z, Tail(in), S, A, {}, {})
  <2> DEFINE c == [b EXCEPT !.unsubscribing = @ \ {f.id}]
  <2>1. z = c
    BY <1>4, <1>10, Zenon DEF OnFrame
  <2>2. SetField(b, c, "unsubscribing", b.unsubscribing \ {f.id})
    BY <1>5, Zenon DEF ActorOK, SetField, IsMap, Fields
  <2>3. b.unsubscribing \ {f.id} \in SUBSET Nat
    BY <1>5 DEF ActorOK
  <2> HIDE DEF f, z, c
  <2> QED
    BY <1>3, <1>6, <1>10, <2>1, <2>2, <2>3, AnsweredFine
<1>11. ASSUME f.kind \in {"forbidden", "cursorInvalid", "unknown"}
       PROVE  Fine(z, Tail(in), S, A, {}, {})
  <2>1. z = OnRequestError(b, f)
    BY <1>4, <1>11, Zenon DEF OnFrame
  <2>2. Fine(OnRequestError(b, f), Tail(in), S, A, {}, {})
    BY <1>3, <1>11, OnRequestErrorFine
  <2> HIDE DEF z
  <2> QED
    BY <2>1, <2>2
<1>12. ASSUME f.kind = "tokenExpiring" PROVE Fine(z, Tail(in), S, A, {}, {})
  <2>1. z = Spawn(b, "reauth", b.conn, None, None, None)
    BY <1>4, <1>12, Zenon DEF OnFrame
  <2> HIDE DEF f, z
  <2> QED
    BY <1>3, <1>6, <1>12, <2>1, ReauthFine
<1>13. ASSUME f.kind \in StreamKinds, ~(f.kind = "unsubscribed" /\ f.id \in b.unsubscribing)
       PROVE  Fine(z, Tail(in), S, A, {}, {})
  <2>1. z = OnStream(b, f)
    <3>1. /\ f.kind # "garbled" /\ f.kind # "subscribed" /\ f.kind # "refreshed"
          /\ f.kind \notin {"forbidden", "cursorInvalid", "unknown"} /\ f.kind # "tokenExpiring"
      BY <1>13 DEF StreamKinds
    <3> QED
      BY <1>4, <1>13, <3>1, Zenon DEF OnFrame
  <2>2. Fine(OnStream(b, f), in, S, A, {}, {})
    BY <1>3, <1>13, OnStreamFine
  <2>3. f.kind # "subscribed"
    BY <1>13 DEF StreamKinds
  <2> HIDE DEF f, z
  <2> QED
    BY <1>6, <2>1, <2>2, <2>3
<1>14. f.kind \in StreamKinds \cup {"garbled", "subscribed", "refreshed", "forbidden",
                                    "cursorInvalid", "unknown", "tokenExpiring"}
  BY <1>2 DEF Frames
<1> HIDE DEF f, z
<1>15. Fine(z, Tail(in), S, A, {}, {})
  BY <1>7, <1>8, <1>9, <1>10, <1>11, <1>12, <1>13, <1>14
<1> QED
  BY <1>15 DEF f, z

-----------------------------------------------------------------------------
(* The timers of the socket *)

\* The heartbeat timer, which may find the socket dead, keeps the invariant.
LEMMA HeartbeatFine ==
  ASSUME NEW a, NEW in, NEW S, NEW A, Fine(a, in, S, A, {}, {}), a.heartbeatAt
  PROVE  Fine(HeartbeatTimer(a), in, S, A, {}, {})
<1> DEFINE b == [a EXCEPT !.heartbeatAt = FALSE]
<1>1. IsMap(a, Fields) /\ a.conn # None
  BY DEF Fine, ActorOK, Linked, Link, Disconnected
<1>2. SetField(a, b, "heartbeatAt", FALSE)
  BY <1>1, SetFields, Zenon
<1>3. HeartbeatTimer(a) = IF b.conn = None THEN b ELSE OnClosed(b, FALSE)
  BY Zenon DEF HeartbeatTimer
<1> HIDE DEF b
<1>4. b.heartbeatAt = FALSE
  BY <1>2, Zenon DEF SetField
<1>5. SetField(a, b, "heartbeatAt", b.heartbeatAt)
  BY <1>2, <1>4, Zenon
<1>6. Fine(b, in, S, A, {}, {}) /\ b.conn = a.conn
  BY <1>1, <1>4, <1>5, BeatFine, SetFieldSame
<1> QED
  BY <1>1, <1>3, <1>6, OnClosedFine

\* Nobody waits for a reconnect that was not due yet.
LEMMA UnarmedFine ==
  ASSUME NEW a, NEW in, NEW S, NEW A, Fine(a, in, S, A, {}, {}),
         NEW b, SetField(a, b, "reconnectAt", b.reconnectAt), b.reconnectAt = FALSE
  PROVE  Fine(b, in, S, A, DOMAIN b.subs, {})
<1>0. /\ Link(a) /\ Wire(a, in) /\ Ids(a, in, S) /\ Heard(a, in, S, {})
      /\ Cursors(a) /\ Traced(a, in, S) /\ EndsOK(in, S) /\ ActorOK(a) /\ Crowd(a, A, {})
  BY DEF Fine, Linked
<1>1. IsMap(b, Fields) /\ b.reconnectAt \in BOOLEAN
  BY DEF SetField
<1>2. /\ b.subs = a.subs /\ b.pending = a.pending /\ b.bySub = a.bySub
      /\ b.unsubscribing = a.unsubscribing /\ b.idle = a.idle /\ b.conn = a.conn
      /\ b.writable = a.writable /\ b.out = a.out /\ b.unwritable = a.unwritable
      /\ b.generation = a.generation /\ b.tasks = a.tasks
      /\ b.nextConn = a.nextConn /\ b.nextSubscription = a.nextSubscription
      /\ b.nextRequest = a.nextRequest /\ b.connecting = a.connecting
      /\ b.heartbeatAt = a.heartbeatAt /\ b.users = a.users
  BY SetFieldSame
<1>4. ActorOK(b)
  BY <1>0, <1>1, <1>2 DEF ActorOK
<1>5. Disconnected(b) /\ Opening(b) /\ Quiet(b)
  BY <1>0, <1>2 DEF Link, Disconnected, Opening, Quiet, IsOpening
<1>6. Owned(b) /\ OneRequest(b) /\ Listening(b)
  <2>1. Owned(b)
    BY <1>0, <1>2 DEF Link, Owned
  <2>2. OneRequest(b)
    BY <1>0, <1>2 DEF Link, OneRequest, Asks
  <2>3. Listening(b)
    BY <1>0, <1>2 DEF Link, Listening
  <2> QED
    BY <2>1, <2>2, <2>3
<1>7. Fetching(b)
  BY <1>0, <1>2 DEF Link, Fetching
<1>8. Wire(b, in) /\ Heard(b, in, S, {}) /\ Cursors(b)
  <2>1. Wire(b, in)
    BY <1>0, <1>2 DEF Wire
  <2>2. Heard(b, in, S, {})
    BY <1>0, <1>2 DEF Heard
  <2>3. ViewsAt(b)
    BY <1>0, <1>2 DEF Cursors, ViewsAt
  <2>4. AsksAt(b)
    BY <1>0, <1>2 DEF Wire, Cursors, AsksAt, Asks
  <2>5. SentAt(b)
    BY <1>0, <1>2 DEF Cursors, SentAt
  <2> QED
    BY <2>1, <2>2, <2>3, <2>4, <2>5 DEF Cursors
<1>9. Ids(b, in, S)
  BY <1>0, <1>2 DEF Ids, Unused
<1>10. Traced(b, in, S)
  BY <1>0, <1>2, TracedKept
<1>11. Crowd(b, A, {})
  BY <1>0, <1>2, SameSubs, CrowdKept
<1>12. AllAsk(b, DOMAIN b.subs)
  BY DEF AllAsk
<1> QED
  BY <1>0, <1>4, <1>5, <1>6, <1>7, <1>8, <1>9, <1>10, <1>11, <1>12 DEF Fine, Linked, Link

\* The reconnect timer keeps the invariant.
LEMMA ReconnectFine ==
  ASSUME NEW a, NEW in, NEW S, NEW A, Fine(a, in, S, A, {}, {}), a.reconnectAt
  PROVE  Fine(ReconnectTimer(a), in, S, A, {}, {})
<1> DEFINE b == [a EXCEPT !.reconnectAt = FALSE]
<1>1. IsMap(a, Fields) /\ Link(a) /\ AllAsk(a, {})
  BY DEF Fine, ActorOK, Linked
<1>2. SetField(a, b, "reconnectAt", FALSE)
  BY <1>1, SetFields, Zenon
<1>3. ReconnectTimer(a) = IF DOMAIN b.subs # {} /\ b.conn = None /\ ~b.connecting
                          THEN Open(b) ELSE b
  BY Zenon DEF ReconnectTimer
<1> HIDE DEF b
<1>4. b.reconnectAt = FALSE
  BY <1>2, Zenon DEF SetField
<1>5. SetField(a, b, "reconnectAt", b.reconnectAt)
  BY <1>2, <1>4, Zenon
<1>6. Fine(b, in, S, A, DOMAIN b.subs, {})
  BY <1>4, <1>5, UnarmedFine
<1>7. /\ b.subs = a.subs /\ b.pending = a.pending /\ b.conn = a.conn /\ b.tasks = a.tasks
      /\ b.connecting = a.connecting /\ b.generation = a.generation
  BY <1>5, SetFieldSame
<1>8. DOMAIN b.subs # {}
  BY <1>1, <1>7 DEF Link, Quiet
<1>9. CASE b.conn = None /\ ~b.connecting
  <2>1. Fine(Open(b), in, S, A, {}, {})
    BY <1>6, <1>8, <1>9, OpenFine
  <2> QED
    BY <1>3, <1>8, <1>9, <2>1
<1>10. CASE ~(b.conn = None /\ ~b.connecting)
  <2>1. ReconnectTimer(a) = b
    BY <1>3, <1>10
  <2>2. AllAsk(b, {})
    <3> SUFFICES ASSUME NEW x \in DOMAIN b.subs PROVE IsAsking(b, x)
      BY DEF AllAsk
    <3>1. IsAsking(a, x)
      BY <1>1, <1>7 DEF AllAsk
    <3>2. \A r : Asks(b, r, x) <=> Asks(a, r, x)
      BY <1>7 DEF Asks
    <3> QED
      BY <1>7, <1>10, <3>1, <3>2 DEF IsAsking, IsOpening
  <2> QED
    BY <1>6, <2>1, <2>2 DEF Fine, Linked
<1> QED
  BY <1>9, <1>10

-----------------------------------------------------------------------------
(* The timers of the accounts *)

\* Only the requests of the subscription x end with it.
Trimmed(a, b, x) ==
  /\ DOMAIN b.pending \subseteq DOMAIN a.pending
  /\ DOMAIN b.subs # {} =>
       \A q \in DOMAIN a.pending : a.pending[q].subscription # a.subs[x].id =>
         q \in DOMAIN b.pending /\ b.pending[q] = a.pending[q]

\* teardown of one account leaves the others and their requests alone.
LEMMA TeardownTrims ==
  ASSUME NEW a, ActorOK(a), NEW x \in DOMAIN a.subs
  PROVE  Trimmed(a, Teardown(a, x), x)
<1> DEFINE d == Teardown(a, x)
<1>1. PICK e, done :
        /\ Removed(a, e, x)
        /\ a.subs[x].sub = None => done = e
        /\ a.subs[x].sub # None => Unsubscribed(e, done, a.subs[x].sub)
        /\ d = IF DOMAIN done.subs = {} THEN Shutdown(done) ELSE done
  BY TeardownEffect
<1> HIDE DEF d
<1>2. done.pending = e.pending /\ ActorOK(done)
  <2>1. ActorOK(e)
    BY <1>1, RemovedOK
  <2>2. CASE a.subs[x].sub = None
    BY <1>1, <2>1, <2>2
  <2>3. CASE a.subs[x].sub # None
    <3>1. Unsubscribed(e, done, a.subs[x].sub) /\ a.subs[x].sub \in Nat
      BY <1>1, <2>3 DEF ActorOK, SubsOK, IsSub
    <3>2. ActorOK(done)
      BY <2>1, <3>1, UnsubscribedOK
    <3> QED
      BY <3>1, <3>2 DEF Unsubscribed, UnsubscribeKeeps
  <2> QED
    BY <2>2, <2>3
<1>3. CASE DOMAIN done.subs = {}
  <2>1. d = Shutdown(done)
    BY <1>1, <1>3
  <2>2. Detached(done, Shutdown(done))
    BY <1>2, ShutdownEffect
  <2>3. DOMAIN d.pending = {} /\ DOMAIN d.subs = {}
    BY <1>3, <2>1, <2>2 DEF Detached
  <2> QED
    BY <2>3 DEF Trimmed, d
<1>4. CASE DOMAIN done.subs # {}
  <2>1. d = done
    BY <1>1, <1>4
  <2>2. Trimmed(a, done, x)
    BY <1>1, <1>2 DEF Removed, Trimmed
  <2> QED
    BY <2>1, <2>2 DEF d
<1> QED
  BY <1>3, <1>4

\* terminate of one account leaves the others and their requests alone.
LEMMA TerminateTrims ==
  ASSUME NEW a, NEW in, NEW S, NEW A, NEW X, NEW Y, Fine(a, in, S, A, X, Y), NEW x \in DOMAIN a.subs
  PROVE  Trimmed(a, Terminate(a, x), x)
<1> DEFINE b == Report(a, x)
           s == b.subs[x]
           d == Teardown(b, x)
           us == [c \in Consumers |-> IF c \in s.consumers THEN Goodbye(s, d.users[c]) ELSE d.users[c]]
           t == Terminate(a, x)
<1>1. Fine(b, in, S, A, X, Y) /\ DeliverEffect(a, b, x, "error", None)
  BY ReportFine
<1>2. t = [d EXCEPT !.users = us]
  BY Zenon DEF Terminate, Goodbye
<1> HIDE DEF b, us
<1>3. Alike(a, b)
  BY <1>1, DeliverAlike
<1>4. /\ b.pending = a.pending /\ DOMAIN b.subs = DOMAIN a.subs /\ b.subs[x].id = a.subs[x].id
      /\ ActorOK(b) /\ Linked(b, in, S, X, {})
  BY <1>1, <1>3, AlikeFields DEF Fine
<1>5. Trimmed(b, d, x)
  BY <1>4, TeardownTrims
<1>6. ActorOK(d)
  BY <1>4, TeardownLinked
<1> HIDE DEF d, t
<1>7. t.pending = d.pending /\ t.subs = d.subs
  <2>1. IsMap(d, Fields)
    BY <1>6 DEF ActorOK
  <2> QED
    BY <1>2, <2>1, Zenon DEF IsMap, Fields
<1> QED
  BY <1>4, <1>5, <1>7 DEF Trimmed, t

\* The requests of the other accounts that remain are still there.
StillAsk(a, b, x) ==
  /\ DOMAIN b.subs \subseteq DOMAIN a.subs /\ DOMAIN b.pending \subseteq DOMAIN a.pending
  /\ \A q, y : y # x /\ y \in DOMAIN b.subs /\ Asks(a, q, y) => Asks(b, q, y)

\* The account whose request was not answered asks again, or ends.
LEMMA ExpireFine ==
  ASSUME NEW c, NEW in, NEW S, NEW A, NEW Z, Fine(c, in, S, A, Z, {}),
         NEW x \in DOMAIN c.subs, NEW r, Asks(c, r, x)
  PROVE  /\ Fine(ExpireSubscribe(c, x, r), in, S, A, Z \ {x}, {})
         /\ StillAsk(c, ExpireSubscribe(c, x, r), x)
<1> DEFINE b == ExpireSubscribe(c, x, r)
           failed == DropRequest(c, r)
           d == Report(failed, x)
<1>0. /\ ActorOK(c) /\ Linked(c, in, S, Z, {}) /\ Crowd(c, A, {}) /\ Link(c)
  BY DEF Fine, Linked
<1>1. /\ r \in DOMAIN c.pending /\ c.subs[x].sub = None /\ c.conn # None
  BY <1>0 DEF Link, OneRequest, Disconnected, Asks
<1>2. CASE ~c.subs[x].confirmed
  <2>1. b = Terminate(c, x)
    BY <1>1, <1>2, Zenon DEF ExpireSubscribe
  <2>2. /\ Fine(Terminate(c, x), in, S, A, Z, {})
        /\ DOMAIN Terminate(c, x).subs = DOMAIN c.subs \ {x}
    BY TerminateFine
  <2>3. Trimmed(c, Terminate(c, x), x)
    BY TerminateTrims
  <2> HIDE DEF b
  <2>4. AllAsk(b, Z \ {x})
    BY <2>1, <2>2 DEF Fine, Linked, AllAsk
  <2>5. Fine(b, in, S, A, Z \ {x}, {})
    BY <2>1, <2>2, <2>4 DEF Fine, Linked
  <2>6. StillAsk(c, b, x)
    BY <1>0, <2>1, <2>2, <2>3 DEF StillAsk, Trimmed, Link, Owned, Asks
  <2> QED
    BY <2>5, <2>6 DEF b
<1>3. CASE c.subs[x].confirmed
  <2>1. b = RetrySubscribe(d, x)
    BY <1>1, <1>3, Zenon DEF ExpireSubscribe, DropRequest
  <2>2. DropEffect(c, failed, r)
    BY <1>0, DropRequestEffect
  <2> HIDE DEF failed, b
  <2>3. Askers(c, r) = {x}
    BY DEF Askers, Asks
  <2>4. /\ ActorOK(failed) /\ Linked(failed, in, S, Z \cup Askers(c, r), {})
        /\ SameCrowd(c, failed) /\ \A y \in Askers(c, r) : MayAsk(failed, y)
    BY <1>0, <2>2, DropLinked
  <2>5. Z \cup Askers(c, r) = Z \cup {x} /\ MayAsk(failed, x)
    BY <2>3, <2>4
  <2>6. Crowd(failed, A, {})
    BY <1>0, <2>4, CrowdKept
  <2>7. Fine(failed, in, S, A, Z \cup {x}, {})
    BY <2>4, <2>5, <2>6 DEF Fine
  <2>8. /\ failed.conn # None /\ x \in DOMAIN failed.subs /\ failed.subs = c.subs
        /\ DOMAIN failed.pending = DOMAIN c.pending \ {r}
        /\ \A q \in DOMAIN failed.pending : failed.pending[q] = c.pending[q]
    BY <1>1, <2>2 DEF DropEffect, PendingKeeps
  <2>9. Fine(d, in, S, A, Z \cup {x}, {}) /\ DeliverEffect(failed, d, x, "error", None)
    BY <2>7, <2>8, ReportFine
  <2> HIDE DEF d
  <2>10. Alike(failed, d)
    BY <2>9, DeliverAlike
  <2>11. /\ MayAsk(d, x) /\ d.conn # None /\ d.pending = failed.pending
         /\ DOMAIN d.subs = DOMAIN failed.subs
    BY <2>5, <2>8, <2>10, AlikeFields DEF MayAsk, Asks
  <2>12. ActorOK(d) /\ Linked(d, in, S, Z \cup {x}, {}) /\ Crowd(d, A, {})
    BY <2>9 DEF Fine
  <2>13. /\ ActorOK(b) /\ Linked(b, in, S, (Z \cup {x}) \ {x}, {}) /\ SameCrowd(d, b)
         /\ RetryKeeps(d, b, x)
    BY <2>1, <2>11, <2>12, RetryLinked
  <2>14. (Z \cup {x}) \ {x} = Z \ {x}
    OBVIOUS
  <2>15. Crowd(b, A, {})
    BY <2>12, <2>13, CrowdKept
  <2>16. Fine(b, in, S, A, Z \ {x}, {})
    BY <2>13, <2>14, <2>15 DEF Fine
  <2>17. b.pending = d.pending /\ DOMAIN b.subs = DOMAIN d.subs
    BY <2>13 DEF RetryKeeps, SetSubKeeps
  <2>18. StillAsk(c, b, x)
    BY <2>8, <2>11, <2>17 DEF StillAsk, Asks
  <2> QED
    BY <2>16, <2>18 DEF b
<1> QED
  BY <1>2, <1>3

\* b is a without the deadlines of the accounts of X.
Cleared(a, b, X) ==
  /\ ActorOK(b) /\ SetSubKeeps(a, b) /\ b.bySub = a.bySub /\ DOMAIN b.subs = DOMAIN a.subs
  /\ \A x \in DOMAIN a.subs :
       LET s == a.subs[x]
           t == b.subs[x]
       IN  /\ t.id = s.id /\ t.consumers = s.consumers /\ t.sub = s.sub /\ t.seq = s.seq
           /\ t.cursor = s.cursor /\ t.staged = s.staged /\ t.orders = s.orders
           /\ t.state = s.state /\ t.stale = s.stale /\ t.ready = s.ready
           /\ t.retryAt = s.retryAt
           /\ x \in X => t.ackDue = None
           /\ x \notin X => t.ackDue = s.ackDue

Clear(a, X) ==
  [a EXCEPT !.subs = [x \in DOMAIN @ |-> IF x \in X THEN [@[x] EXCEPT !.ackDue = None] ELSE @[x]]]

\* Clearing the timers of the overdue requests changes only those timers.
LEMMA ClearEffect ==
  ASSUME NEW a, ActorOK(a), NEW X
  PROVE  Cleared(a, Clear(a, X), X)
<1> DEFINE T(x, s) == IF x \in X THEN [s EXCEPT !.ackDue = None] ELSE s
           m == [x \in DOMAIN a.subs |-> T(x, a.subs[x])]
           b == Clear(a, X)
<1>1. b = [a EXCEPT !.subs = m]
  BY Zenon DEF Clear
<1>2. \A x \in DOMAIN a.subs :
        /\ KeepsSub(a.subs[x], T(x, a.subs[x]), {"ackDue"})
        /\ x \in X => T(x, a.subs[x]).ackDue = None
        /\ x \notin X => T(x, a.subs[x]) = a.subs[x]
  <2>1. ASSUME NEW x, NEW s, IsMap(s, SubFields)
        PROVE  /\ KeepsSub(s, T(x, s), {"ackDue"})
               /\ x \in X => T(x, s).ackDue = None
               /\ x \notin X => T(x, s) = s
    <3>1. CASE x \in X
      <4>1. T(x, s) = [s EXCEPT !.ackDue = None]
        BY <3>1, Zenon
      <4> HIDE DEF T
      <4> QED
        BY <2>1, <3>1, <4>1, Zenon DEF IsMap, SubFields, KeepsSub
    <3>2. CASE x \notin X
      <4>1. T(x, s) = s
        BY <3>2, Zenon
      <4> HIDE DEF T
      <4> QED
        BY <2>1, <3>2, <4>1, Zenon DEF IsMap, SubFields, KeepsSub
    <3> QED
      BY <3>1, <3>2, Zenon
  <2> HIDE DEF T
  <2>2. \A x \in DOMAIN a.subs : IsMap(a.subs[x], SubFields)
    BY DEF ActorOK, SubsOK, IsSub
  <2> QED
    BY <2>1, <2>2, Zenon
<1> HIDE DEF T
<1>3. /\ IsMap(m, DOMAIN m) /\ DOMAIN m = DOMAIN a.subs
      /\ \A x \in DOMAIN a.subs : m[x] = T(x, a.subs[x])
  BY Zenon DEF IsMap
<1>4. IsMap(a, Fields)
  BY DEF ActorOK
<1> HIDE DEF m, b
<1>5. SetField(a, b, "subs", m)
  BY <1>1, <1>4, SetFields
<1>6. b.subs = m
  BY <1>5, Zenon DEF SetField
<1>7. SetSubKeeps(a, b) /\ b.bySub = a.bySub
  BY <1>5, SetFieldSame DEF SetSubKeeps
<1>8. ASSUME NEW x \in DOMAIN a.subs
      PROVE  LET s == a.subs[x]
                 t == m[x]
             IN  /\ t.id = s.id /\ t.consumers = s.consumers /\ t.sub = s.sub /\ t.seq = s.seq
                 /\ t.cursor = s.cursor /\ t.staged = s.staged /\ t.orders = s.orders
                 /\ t.state = s.state /\ t.stale = s.stale /\ t.ready = s.ready
                 /\ t.retryAt = s.retryAt /\ t.retried = s.retried /\ t.confirmed = s.confirmed
                 /\ IsMap(t, SubFields)
                 /\ x \in X => t.ackDue = None
                 /\ x \notin X => t.ackDue = s.ackDue
  <2>1. KeepsSub(a.subs[x], m[x], {"ackDue"}) /\ (x \in X => m[x].ackDue = None)
        /\ (x \notin X => m[x] = a.subs[x])
    BY <1>2, <1>3
  <2>2. IsMap(m[x], SubFields) /\ \A f \in SubFields \ {"ackDue"} : m[x][f] = a.subs[x][f]
    BY <2>1, Zenon DEF KeepsSub
  <2> QED
    BY <2>1, <2>2, SMT DEF SubFields
<1>9. \A x \in DOMAIN a.subs : IsSub(m[x])
  <2> SUFFICES ASSUME NEW x \in DOMAIN a.subs
               PROVE  IsSub(m[x])
    OBVIOUS
  <2>1. IsSub(a.subs[x])
    BY DEF ActorOK, SubsOK
  <2>2. m[x].ackDue \in Nat
    BY <1>8, <2>1 DEF IsSub, None
  <2> QED
    BY <1>8, <2>1, <2>2 DEF IsSub
<1>10. SubsOK(b.subs)
  BY <1>3, <1>6, <1>9 DEF SubsOK, ActorOK
<1>11. IsMap(b, Fields)
  BY <1>5 DEF SetField
<1>12. ActorOK(b)
  BY <1>7, <1>10, <1>11 DEF ActorOK, SetSubKeeps
<1> QED
  BY <1>3, <1>6, <1>7, <1>8, <1>12 DEF Cleared, b

\* Those whose request is still pending when its deadline passes.
Overdue(a, X) == {x \in X : x \in DOMAIN a.subs /\ a.subs[x].ackDue \in DOMAIN a.pending}

\* With its timer cleared, an overdue account has yet to ask again.
LEMMA ClearedFine ==
  ASSUME NEW a, NEW in, NEW S, NEW A, Fine(a, in, S, A, {}, {}), NEW X, NEW b, Cleared(a, b, X)
  PROVE  Fine(b, in, S, A, Overdue(a, X), {})
<1> DEFINE D == Overdue(a, X)
<1>0. /\ ActorOK(a) /\ Linked(a, in, S, {}, {}) /\ Crowd(a, A, {})
      /\ Link(a) /\ AllAsk(a, {}) /\ Cursors(a) /\ Traced(a, in, S) /\ ActorOK(b)
  BY DEF Fine, Linked, Cleared
<1>1. SetSubKeeps(a, b) /\ b.bySub = a.bySub /\ DOMAIN b.subs = DOMAIN a.subs
  BY DEF Cleared
<1>2. \A y \in DOMAIN a.subs :
        /\ b.subs[y].id = a.subs[y].id /\ b.subs[y].sub = a.subs[y].sub
        /\ b.subs[y].seq = a.subs[y].seq /\ b.subs[y].cursor = a.subs[y].cursor
        /\ b.subs[y].staged = a.subs[y].staged /\ b.subs[y].orders = a.subs[y].orders
        /\ b.subs[y].state = a.subs[y].state /\ b.subs[y].stale = a.subs[y].stale
        /\ b.subs[y].ready = a.subs[y].ready /\ b.subs[y].retryAt = a.subs[y].retryAt
        /\ b.subs[y].consumers = a.subs[y].consumers
        /\ b.subs[y].ackDue \in {a.subs[y].ackDue, None}
        /\ y \notin X => b.subs[y].ackDue = a.subs[y].ackDue
  BY DEF Cleared
<1>3. SubsKept(a, b)
  BY <1>1, <1>2 DEF SubsKept
<1>4. None \notin DOMAIN a.pending
  BY <1>0 DEF Link, Owned, None
<1>5. OneRequest(b)
  <2>1. OneRequest(a)
    BY <1>0 DEF Link
  <2> QED
    BY <1>1, <1>2, <1>4, <2>1 DEF SetSubKeeps, OneRequest, Asks
<1>6. Listening(b)
  BY <1>0, <1>1, <1>2 DEF SetSubKeeps, Link, Listening
<1>7. AllAsk(b, D)
  <2> SUFFICES ASSUME NEW y \in DOMAIN a.subs, y \notin D
               PROVE  IsAsking(b, y)
    BY <1>1 DEF AllAsk
  <2>1. IsAsking(a, y)
    BY <1>0 DEF AllAsk
  <2>2. \A r : Asks(b, r, y) <=> Asks(a, r, y)
    BY <1>1 DEF SetSubKeeps, Asks
  <2>3. \A r \in DOMAIN a.pending : a.subs[y].ackDue = r => b.subs[y].ackDue = r
    BY <1>2 DEF Overdue
  <2>4. IsOpening(a) <=> IsOpening(b)
    BY <1>1 DEF SetSubKeeps, IsOpening
  <2> QED
    BY <1>1, <1>2, <2>1, <2>2, <2>3, <2>4 DEF SetSubKeeps, IsAsking
<1>8. Cursors(b)
  <2>1. ViewsAt(b)
    BY <1>0, <1>1, <1>2 DEF SetSubKeeps, Cursors, Link, ViewsAt
  <2>2. AsksAt(b)
    BY <1>0, <1>1, <1>2 DEF SetSubKeeps, Cursors, Link, Owned, AsksAt, Asks
  <2>3. SentAt(b)
    BY <1>0, <1>1, <1>2 DEF SetSubKeeps, Cursors, Link, SentAt
  <2> QED
    BY <2>1, <2>2, <2>3 DEF Cursors
<1>9. Traced(b, in, S)
  BY <1>0, <1>1, <1>2, TracedKept DEF SetSubKeeps, Link, Owned
<1>10. \A y \in DOMAIN a.subs : b.subs[y].ackDue <= a.nextRequest
  <2>1. \A y \in DOMAIN a.subs : a.subs[y].ackDue <= a.nextRequest
    BY <1>0 DEF Link, Owned
  <2>2. None <= a.nextRequest
    BY <1>0 DEF ActorOK, None
  <2> QED
    BY <1>2, <2>1, <2>2
<1>11. \A y \in DOMAIN a.subs : a.conn = None => ~b.subs[y].retryAt /\ b.subs[y].ackDue = None
  BY <1>0, <1>2 DEF Link, Disconnected
<1>12. Linked(b, in, S, D, {})
  BY <1>0, <1>3, <1>5, <1>6, <1>7, <1>8, <1>9, <1>10, <1>11, SubsLinked
<1>13. SameCrowd(a, b)
  BY <1>1, <1>2 DEF SameCrowd, SetSubKeeps
<1>14. Crowd(b, A, {})
  BY <1>0, <1>13, CrowdKept
<1> QED
  BY <1>0, <1>12, <1>14 DEF Fine

\* The requests that were not answered in time.
AckStep(e, x, c) == ExpireSubscribe(c, x, e.subs[x].ackDue)
AckInv(e, s, c) ==
  /\ Fine(c, e.in, e.S, e.A, e.D \ s, {})
  /\ \A y \in e.X \ e.D : e.subs[y].ackDue \notin DOMAIN c.pending
  /\ \A y \in e.D \ s : y \in DOMAIN c.subs => Asks(c, e.subs[y].ackDue, y)
Acks == INSTANCE FoldInduction WITH Step <- AckStep, Pick <- Chosen, Inv <- AckInv

\* The loop over the accounts of X, with the deadlines that m held.
AckFrom(m, b, X) == FoldSet(LAMBDA x, c : ExpireSubscribe(c, x, m[x].ackDue), b, X)

\* Any set of acknowledgement timers that ran out together keeps the invariant.
LEMMA AckTimersFine ==
  ASSUME NEW a, NEW in, NEW S, NEW A, Fine(a, in, S, A, {}, {}), NEW X, X \subseteq AckDue(a)
  PROVE  Fine(AckTimers(a, X), in, S, A, {}, {})
<1> DEFINE D == Overdue(a, X)
           e == [in |-> in, S |-> S, A |-> A, X |-> X, D |-> D, subs |-> a.subs]
           b == Clear(a, X)
           z == AckTimers(a, X)
<1>1. /\ e.in = in /\ e.S = S /\ e.A = A /\ e.X = X /\ e.D = D /\ e.subs = a.subs
  BY Zenon
<1> HIDE DEF e
<1>2. z = Acks!Over(e, b, X)
  <2>1. z = AckFrom(a.subs, b, X)
    BY Zenon DEF AckTimers, AckFrom, Clear
  <2> HIDE DEF b, z
  <2>2. AckFrom(a.subs, b, X) = AckFrom(e.subs, b, X)
    BY <1>1
  <2>3. AckFrom(e.subs, b, X) = Acks!Over(e, b, X)
    BY Zenon DEF AckFrom, AckStep, FoldSet, MapThenFoldSet, Acks!Over, Acks!MapThenFoldSet, Chosen
  <2> QED
    BY <2>1, <2>2, <2>3, Zenon
<1>3. IsFiniteSet(X) /\ Acks!IsFiniteSet(X)
  <2>1. IsFiniteSet(DOMAIN a.subs) /\ X \subseteq DOMAIN a.subs
    BY FiniteAccounts DEF Fine, AckDue
  <2>2. IsFiniteSet(X)
    BY <2>1, FS_Subset
  <2> QED
    BY <2>2, Zenon DEF IsFiniteSet, Acks!IsFiniteSet
<1>4. Acks!Picks(X)
  BY ChosenIsIn, Zenon DEF Acks!Picks
<1>5. AckInv(e, {}, b)
  <2>1. Cleared(a, b, X)
    BY ClearEffect DEF Fine
  <2> HIDE DEF b
  <2>2. Fine(b, in, S, A, D, {})
    BY <2>1, ClearedFine
  <2>3. b.pending = a.pending /\ DOMAIN b.subs = DOMAIN a.subs
    BY <2>1 DEF Cleared, SetSubKeeps
  <2>4. D \ {} = D
    OBVIOUS
  <2>5. \A y \in X \ D : a.subs[y].ackDue \notin DOMAIN b.pending
    BY <2>3 DEF Overdue, AckDue
  <2>6. \A y \in D : Asks(b, a.subs[y].ackDue, y)
    <3>1. OneRequest(a)
      BY DEF Fine, Linked, Link
    <3> QED
      BY <2>3, <3>1 DEF Overdue, OneRequest, Asks
  <2> HIDE DEF D
  <2> QED
    BY <1>1, <2>2, <2>4, <2>5, <2>6, Zenon DEF AckInv
<1>6. ASSUME NEW s \in SUBSET X, NEW c, s # {}, AckInv(e, s \ {Chosen(s)}, c)
      PROVE  AckInv(e, s, AckStep(e, Chosen(s), c))
  <2> DEFINE x == Chosen(s)
             r == a.subs[x].ackDue
             Z == D \ (s \ {x})
             d == ExpireSubscribe(c, x, r)
  <2>1. x \in s /\ x \in X
    BY <1>6, ChosenIsIn
  <2> HIDE DEF x
  <2>2. /\ Fine(c, in, S, A, Z, {})
        /\ \A y \in X \ D : a.subs[y].ackDue \notin DOMAIN c.pending
        /\ \A y \in Z : y \in DOMAIN c.subs => Asks(c, a.subs[y].ackDue, y)
    BY <1>1, <1>6, Zenon DEF AckInv, x
  <2>3. /\ Fine(d, in, S, A, D \ s, {})
        /\ \A y \in X \ D : a.subs[y].ackDue \notin DOMAIN d.pending
        /\ \A y \in D \ s : y \in DOMAIN d.subs => Asks(d, a.subs[y].ackDue, y)
    <3>1. CASE x \in D /\ x \in DOMAIN c.subs
      <4>1. Asks(c, r, x) /\ Z \ {x} = D \ s
        BY <2>1, <2>2, <3>1
      <4>2. Fine(d, in, S, A, Z \ {x}, {}) /\ StillAsk(c, d, x)
        BY <2>2, <3>1, <4>1, ExpireFine
      <4> HIDE DEF d, D
      <4>3. Fine(d, in, S, A, D \ s, {})
        BY <4>1, <4>2
      <4>4. \A y \in D \ s : y # x /\ y \in Z
        BY <2>1
      <4> QED
        BY <2>2, <4>2, <4>3, <4>4, Zenon DEF StillAsk
    <3>2. CASE x \notin D \/ x \notin DOMAIN c.subs
      <4>1. d = c
        <5>1. r \notin DOMAIN c.pending \/ x \notin DOMAIN c.subs
          BY <2>1, <2>2, <3>2
        <5> QED
          BY <5>1, Zenon DEF ExpireSubscribe
      <4>2. D \ s \subseteq Z /\ \A y \in Z : y \in D \ s \/ y = x
        BY <2>1
      <4>3. Fine(c, in, S, A, D \ s, {})
        <5>1. AllAsk(c, Z)
          BY <2>2 DEF Fine, Linked
        <5>2. \A y \in DOMAIN c.subs : y \in Z => y \in D \ s
          BY <3>2, <4>2
        <5>3. AllAsk(c, D \ s)
          BY <5>1, <5>2 DEF AllAsk
        <5> QED
          BY <2>2, <5>3 DEF Fine, Linked
      <4> HIDE DEF D, Z, d
      <4> QED
        BY <2>2, <4>1, <4>2, <4>3, Zenon
    <3> QED
      BY <3>1, <3>2
  <2>4. AckStep(e, x, c) = d
    BY <1>1, Zenon DEF AckStep
  <2> HIDE DEF d, D
  <2> QED
    BY <1>1, <2>3, <2>4, Zenon DEF AckInv, x
<1> HIDE DEF b, D, z
<1>7. AckInv(e, X, Acks!Over(e, b, X))
  BY <1>3, <1>4, <1>5, <1>6, Acks!FoldInduction, Zenon
<1>8. D \ X = {}
  BY DEF Overdue, D
<1>9. Fine(z, in, S, A, D \ X, {})
  BY <1>1, <1>2, <1>7, Zenon DEF AckInv
<1> QED
  BY <1>8, <1>9, Zenon DEF z

\* A retry that is due is no longer due.
LEMMA UnretriedFine ==
  ASSUME NEW a, NEW in, NEW S, NEW A, Fine(a, in, S, A, {}, {}),
         NEW x \in DOMAIN a.subs, a.subs[x].retryAt
  PROVE  LET b == [a EXCEPT !.subs[x].retryAt = FALSE]
         IN  /\ Fine(b, in, S, A, {x}, {}) /\ MayAsk(b, x) /\ b.conn # None
             /\ DOMAIN b.subs = DOMAIN a.subs
             /\ \A y \in DOMAIN a.subs : y # x => b.subs[y] = a.subs[y]
<1> DEFINE t == [a.subs[x] EXCEPT !.retryAt = FALSE]
           b == [a EXCEPT !.subs[x].retryAt = FALSE]
<1>0. /\ ActorOK(a) /\ Linked(a, in, S, {}, {}) /\ Crowd(a, A, {})
      /\ Link(a) /\ AllAsk(a, {}) /\ Cursors(a) /\ Traced(a, in, S) /\ IsSub(a.subs[x])
      /\ a.conn # None
  BY DEF Fine, Linked, Link, Disconnected, ActorOK, SubsOK
<1>1. b = [a EXCEPT !.subs[x] = t]
  BY Zenon
<1>2. KeepsSub(a.subs[x], t, {"retryAt"}) /\ t.retryAt = FALSE
  <2>1. IsMap(a.subs[x], SubFields)
    BY <1>0 DEF IsSub
  <2> QED
    BY <2>1, Zenon DEF IsMap, SubFields, KeepsSub
<1> HIDE DEF b, t
<1>3. /\ t.id = a.subs[x].id /\ t.sub = a.subs[x].sub /\ t.seq = a.subs[x].seq
      /\ t.cursor = a.subs[x].cursor /\ t.staged = a.subs[x].staged
      /\ t.orders = a.subs[x].orders /\ t.stale = a.subs[x].stale
      /\ t.ready = a.subs[x].ready /\ t.state = a.subs[x].state
      /\ t.ackDue = a.subs[x].ackDue /\ t.consumers = a.subs[x].consumers
      /\ t.retried = a.subs[x].retried /\ t.confirmed = a.subs[x].confirmed
      /\ IsMap(t, SubFields)
  <2>1. IsMap(t, SubFields) /\ \A f \in SubFields \ {"retryAt"} : t[f] = a.subs[x][f]
    BY <1>2, Zenon DEF KeepsSub
  <2> QED
    BY <2>1, SMT DEF SubFields
<1>4. IsSub(t)
  BY <1>0, <1>2, <1>3 DEF IsSub
<1>5. OneSub(a, b, x, t)
  BY <1>0, <1>1, <1>4, OneSubIs
<1>6. /\ ActorOK(b) /\ SetSubKeeps(a, b) /\ b.bySub = a.bySub /\ DOMAIN b.subs = DOMAIN a.subs
      /\ b.subs[x] = t /\ \A y \in DOMAIN a.subs : y # x => b.subs[y] = a.subs[y]
  BY <1>5 DEF OneSub
<1>7. \A y \in DOMAIN a.subs :
        /\ b.subs[y].id = a.subs[y].id /\ b.subs[y].sub = a.subs[y].sub
        /\ b.subs[y].seq = a.subs[y].seq /\ b.subs[y].cursor = a.subs[y].cursor
        /\ b.subs[y].staged = a.subs[y].staged /\ b.subs[y].orders = a.subs[y].orders
        /\ b.subs[y].state = a.subs[y].state /\ b.subs[y].stale = a.subs[y].stale
        /\ b.subs[y].ready = a.subs[y].ready
        /\ b.subs[y].consumers = a.subs[y].consumers
        /\ b.subs[y].ackDue = a.subs[y].ackDue
        /\ y # x => b.subs[y].retryAt = a.subs[y].retryAt
        /\ b.subs[y].retryAt => a.subs[y].retryAt
  BY <1>2, <1>3, <1>6
<1>8. SubsKept(a, b)
  BY <1>6, <1>7 DEF SubsKept
<1>9. OneRequest(b)
  <2>1. OneRequest(a)
    BY <1>0 DEF Link
  <2> QED
    BY <1>6, <1>7, <2>1 DEF SetSubKeeps, OneRequest, Asks
<1>10. Listening(b)
  BY <1>0, <1>6, <1>7 DEF SetSubKeeps, Link, Listening
<1>11. AllAsk(b, {x})
  BY <1>0, <1>6, <1>7 DEF SetSubKeeps, AllAsk, IsAsking, Asks, IsOpening
<1>12. Cursors(b)
  <2>1. ViewsAt(b)
    BY <1>0, <1>6, <1>7 DEF SetSubKeeps, Cursors, Link, ViewsAt
  <2>2. AsksAt(b)
    BY <1>0, <1>6, <1>7 DEF SetSubKeeps, Cursors, Link, Owned, AsksAt, Asks
  <2>3. SentAt(b)
    BY <1>0, <1>6, <1>7 DEF SetSubKeeps, Cursors, Link, SentAt
  <2> QED
    BY <2>1, <2>2, <2>3 DEF Cursors
<1>13. Traced(b, in, S)
  BY <1>0, <1>6, <1>7, TracedKept DEF SetSubKeeps, Link, Owned
<1>14. \A y \in DOMAIN a.subs : b.subs[y].ackDue <= a.nextRequest
  BY <1>0, <1>7 DEF Link, Owned
<1>15. Linked(b, in, S, {x}, {})
  BY <1>0, <1>8, <1>9, <1>10, <1>11, <1>12, <1>13, <1>14, SubsLinked
<1>16. SameCrowd(a, b)
  BY <1>6, <1>7 DEF SameCrowd, SetSubKeeps
<1>17. Crowd(b, A, {})
  BY <1>0, <1>16, CrowdKept
<1>18. Fine(b, in, S, A, {x}, {})
  BY <1>6, <1>15, <1>17 DEF Fine
<1>19. MayAsk(b, x)
  <2>1. OneRequest(a)
    BY <1>0 DEF Link
  <2> QED
    BY <1>2, <1>3, <1>6, <2>1 DEF MayAsk, OneRequest, Asks, SetSubKeeps
<1>20. b.conn # None
  BY <1>0, <1>6 DEF SetSubKeeps
<1> QED
  BY <1>6, <1>18, <1>19, <1>20 DEF b

RetryStep(e, x, c) ==
  LET b == [c EXCEPT !.subs[x].retryAt = FALSE]
  IN  IF b.subs[x].sub = None THEN Subscribe(b, x) ELSE b
RetryInv(e, s, c) ==
  /\ Fine(c, e.in, e.S, e.A, {}, {})
  /\ \A y \in e.X \ s : y \in DOMAIN c.subs /\ c.subs[y].retryAt
Retries == INSTANCE FoldInduction WITH Step <- RetryStep, Pick <- Chosen, Inv <- RetryInv

\* The accounts whose backoff is over ask again.
LEMMA RetryTimersFine ==
  ASSUME NEW a, NEW in, NEW S, NEW A, Fine(a, in, S, A, {}, {}), NEW X, X \subseteq RetryDue(a)
  PROVE  Fine(RetryTimers(a, X), in, S, A, {}, {})
<1> DEFINE e == [in |-> in, S |-> S, A |-> A, X |-> X]
           z == RetryTimers(a, X)
<1>1. /\ e.in = in /\ e.S = S /\ e.A = A /\ e.X = X
  BY Zenon
<1> HIDE DEF e
<1>2. z = Retries!Over(e, a, X)
  BY <1>1, Zenon DEF RetryTimers, FoldSet, MapThenFoldSet, Retries!Over, Retries!MapThenFoldSet,
     RetryStep, Chosen
<1>3. IsFiniteSet(X) /\ Retries!IsFiniteSet(X)
  <2>1. IsFiniteSet(DOMAIN a.subs) /\ X \subseteq DOMAIN a.subs
    BY FiniteAccounts DEF Fine, RetryDue
  <2>2. IsFiniteSet(X)
    BY <2>1, FS_Subset
  <2> QED
    BY <2>2, Zenon DEF IsFiniteSet, Retries!IsFiniteSet
<1>4. Retries!Picks(X)
  BY ChosenIsIn, Zenon DEF Retries!Picks
<1>5. RetryInv(e, {}, a)
  BY <1>1 DEF RetryInv, RetryDue
<1>6. ASSUME NEW s \in SUBSET X, NEW c, s # {}, RetryInv(e, s \ {Chosen(s)}, c)
      PROVE  RetryInv(e, s, RetryStep(e, Chosen(s), c))
  <2> DEFINE x == Chosen(s)
             b == [c EXCEPT !.subs[x].retryAt = FALSE]
             d == Subscribe(b, x)
  <2>1. x \in s /\ x \in X
    BY <1>6, ChosenIsIn
  <2> HIDE DEF x
  <2>2. /\ Fine(c, in, S, A, {}, {})
        /\ \A y \in X \ (s \ {x}) : y \in DOMAIN c.subs /\ c.subs[y].retryAt
    BY <1>1, <1>6, Zenon DEF RetryInv, x
  <2>3. x \in DOMAIN c.subs /\ c.subs[x].retryAt
    BY <2>1, <2>2
  <2>4. /\ Fine(b, in, S, A, {x}, {}) /\ MayAsk(b, x) /\ b.conn # None
        /\ DOMAIN b.subs = DOMAIN c.subs
        /\ \A y \in DOMAIN c.subs : y # x => b.subs[y] = c.subs[y]
    BY <2>2, <2>3, UnretriedFine
  <2>5. RetryStep(e, x, c) = d
    <3>1. b.subs[x].sub = None
      BY <2>4 DEF MayAsk
    <3> QED
      BY <3>1, Zenon DEF RetryStep
  <2> HIDE DEF b
  <2>6. Subscribed(b, d, x)
    BY <2>3, <2>4, SubscribeEffect DEF Fine
  <2> HIDE DEF d
  <2>7. /\ ActorOK(d) /\ Linked(d, in, S, {x} \ {x}, {}) /\ SameCrowd(b, d) /\ SubscribeKeeps(b, d)
    BY <2>4, <2>6, SubscribeLinked DEF Fine
  <2>8. {x} \ {x} = {}
    OBVIOUS
  <2>9. Crowd(d, A, {})
    BY <2>4, <2>7, CrowdKept DEF Fine
  <2>10. Fine(d, in, S, A, {}, {})
    BY <2>7, <2>8, <2>9 DEF Fine
  <2>11. d.subs = b.subs
    BY <2>7 DEF SubscribeKeeps
  <2>12. \A y \in X \ s : y \in DOMAIN d.subs /\ d.subs[y].retryAt
    BY <2>1, <2>2, <2>4, <2>11
  <2> QED
    BY <1>1, <2>5, <2>10, <2>12, Zenon DEF RetryInv, x
<1>7. RetryInv(e, X, Retries!Over(e, a, X))
  BY <1>3, <1>4, <1>5, <1>6, Retries!FoldInduction, Zenon
<1> QED
  BY <1>1, <1>2, <1>7, Zenon DEF RetryInv

-----------------------------------------------------------------------------
(* The actor's steps *)

\* What is left of the two ends of the socket when a becomes b.
SocketEnds(a, b, in, S, rest, T) ==
  IF b.conn = a.conn /\ a.conn # None THEN rest = in /\ T = S ELSE rest = <<>> /\ T = NoFunction

\* A socket that is dropped takes along what was on it.
LEMMA SocketFine ==
  ASSUME NEW a, NEW b, NEW in, NEW S, NEW A, Fine(b, in, S, A, {}, {}),
         NEW rest, NEW T, SocketEnds(a, b, in, S, rest, T)
  PROVE  /\ Fine(b, rest, T, A, {}, {}) /\ T \in {S, NoFunction}
         /\ b.conn = None => rest = <<>> /\ T = NoFunction
<1>1. CASE b.conn = a.conn /\ a.conn # None
  BY <1>1 DEF SocketEnds
<1>2. CASE ~(b.conn = a.conn /\ a.conn # None)
  <2>0. /\ ActorOK(b) /\ Link(b) /\ Wire(b, in) /\ AllAsk(b, {}) /\ Ids(b, in, S)
        /\ Cursors(b) /\ Traced(b, in, S) /\ Crowd(b, A, {})
    BY DEF Fine, Linked
  <2>1. rest = <<>> /\ T = NoFunction
    BY <1>2 DEF SocketEnds
  <2>2. DOMAIN rest = {} /\ DOMAIN T = {} /\ rest \in Seq(Frames)
    BY <2>1, NoMap
  <2>3. EndsOK(rest, T)
    BY <2>1, <2>2, NoMap DEF EndsOK
  <2>4. SubscribedIn(rest) = {}
    BY <2>2 DEF SubscribedIn
  <2>5. Wire(b, rest) /\ Ids(b, rest, T) /\ Heard(b, rest, T, {})
    BY <2>0, <2>2 DEF Wire, Ids, Unused, Heard
  <2>6. Traced(b, rest, T)
    <3> SUFFICES ASSUME NEW k \in DOMAIN b.bySub
                 PROVE  \E L, tr, d : Follow(b, rest, T, k, L, tr, d)
      BY <2>4 DEF Traced
    <3>1. PICK L, tr, d : Follow(b, in, S, k, L, tr, d)
      BY <2>0 DEF Traced
    <3>2. Follow(b, rest, T, k, L, tr, d)
      BY <2>2, <3>1 DEF Follow
    <3> QED
      BY <3>2
  <2> QED
    BY <2>0, <2>1, <2>3, <2>5, <2>6 DEF Fine, Linked
<1> QED
  BY <1>1, <1>2

\* What every step of the actor keeps.
Kept ==
  /\ Fine(actor', inbox', server', commands', {}, {})
  /\ actor'.conn = None => inbox' = <<>> /\ server' = NoFunction
  /\ server' \in {server, NoFunction}

\* A handler that ends with its socket still matching the server keeps the whole invariant.
LEMMA SocketKept ==
  ASSUME NEW in, Fine(actor', in, server, commands', {}, {}), Socket(in, server)
  PROVE  Kept
<1>1. SocketEnds(actor, actor', in, server, inbox', server')
  BY DEF Socket, SocketEnds
<1> QED
  BY <1>1, SocketFine DEF Kept

\* A handler followed by finish_event and the flush of its frames keeps the whole invariant.
LEMMA HandlesKept ==
  ASSUME NEW in, NEW d, Fine(d, in, server, commands, {}, {}), Handles(d), Socket(in, server),
         commands' = commands
  PROVE  Kept
<1>1. Fine(actor', in, server, commands', {}, {})
  BY FinishEventFine DEF Handles
<1> QED
  BY <1>1, SocketKept

\* A frame is handled.
LEMMA FrameKept ==
  ASSUME IInv, FrameArrives
  PROVE  Kept
<1>1. inbox # <<>> /\ actor.conn # None /\ Fine(actor, inbox, server, commands, {}, {})
  BY DEF IInv, SocketOK, FrameArrives
<1>2. inbox \in Seq(Frames) /\ Head(inbox) = inbox[1]
  BY <1>1, TailIs DEF Fine, Linked, EndsOK
<1>3. Fine(OnFrame(actor, Head(inbox)), Tail(inbox), server, commands, {}, {})
  BY <1>1, <1>2, OnFrameFine
<1> QED
  BY <1>3, HandlesKept DEF FrameArrives

\* The socket ends.
LEMMA CloseKept ==
  ASSUME IInv, SocketCloses
  PROVE  Kept
<1>1. actor.conn # None /\ Fine(actor, inbox, server, commands, {}, {})
  BY DEF IInv, SocketCloses
<1>2. PICK terminal \in BOOLEAN : Handles(OnClosed(actor, terminal))
  BY DEF SocketCloses
<1>3. Fine(OnClosed(actor, terminal), inbox, server, commands, {}, {})
  BY <1>1, OnClosedFine
<1> QED
  BY <1>2, <1>3, HandlesKept DEF SocketCloses

\* Timers fire.
LEMMA TimersKept ==
  ASSUME IInv, TimersFire
  PROVE  Kept
<1>1. Fine(actor, inbox, server, commands, {}, {})
  BY DEF IInv
<1>2. PICK X \in SUBSET AckDue(actor), Y \in SUBSET RetryDue(actor) :
        \/ actor.heartbeatAt /\ Handles(HeartbeatTimer(actor))
        \/ actor.reconnectAt /\ Handles(ReconnectTimer(actor))
        \/ Handles(RetryTimers(AckTimers(actor, X), Y \cap RetryDue(AckTimers(actor, X))))
  BY DEF TimersFire
<1>3. Socket(inbox, server) /\ commands' = commands
  BY DEF TimersFire
<1>4. CASE actor.heartbeatAt /\ Handles(HeartbeatTimer(actor))
  BY <1>1, <1>3, <1>4, HeartbeatFine, HandlesKept
<1>5. CASE actor.reconnectAt /\ Handles(ReconnectTimer(actor))
  BY <1>1, <1>3, <1>5, ReconnectFine, HandlesKept
<1>6. CASE Handles(RetryTimers(AckTimers(actor, X), Y \cap RetryDue(AckTimers(actor, X))))
  <2> DEFINE b == AckTimers(actor, X)
             Z == Y \cap RetryDue(b)
  <2>1. Fine(b, inbox, server, commands, {}, {})
    BY <1>1, AckTimersFine
  <2>2. Z \subseteq RetryDue(b) /\ Handles(RetryTimers(b, Z))
    BY <1>6
  <2> HIDE DEF b, Z
  <2>3. Fine(RetryTimers(b, Z), inbox, server, commands, {}, {})
    BY <2>1, <2>2, RetryTimersFine
  <2> QED
    BY <1>3, <2>2, <2>3, HandlesKept
<1> QED
  BY <1>2, <1>4, <1>5, <1>6

\* A batch of commands ends.
LEMMA BatchKept ==
  ASSUME IInv, BatchEnds
  PROVE  Kept
<1>1. Fine(actor', inbox, server, commands', {}, {})
  BY FinishEventFine DEF IInv, BatchEnds
<1> QED
  BY <1>1, SocketKept DEF BatchEnds

\* A task ends.
LEMMA TaskKept ==
  ASSUME IInv, NEW t \in actor.tasks, NEW result \in Results, TaskEnds(t, result)
  PROVE  Kept
<1> DEFINE a == [actor EXCEPT !.tasks = @ \ {t}]
<1>1. /\ Fine(actor, inbox, server, commands, {}, {}) /\ ActorOK(actor)
      /\ actor.conn = None => inbox = <<>> /\ server = NoFunction
  BY DEF IInv, Fine, SocketOK
<1>2. SetField(actor, a, "tasks", actor.tasks \ {t})
  <2>1. IsMap(actor, Fields)
    BY <1>1 DEF ActorOK
  <2>2. a = [actor EXCEPT !.tasks = actor.tasks \ {t}]
    BY Zenon
  <2> QED
    BY <2>1, <2>2, SetFields
<1>3. Socket(inbox, server) /\ commands' = commands
  BY DEF TaskEnds
<1>4. t.kind \in {"open", "subscribe", "refresh", "reauth"}
  BY <1>1 DEF ActorOK, Tasks
<1>5. Handles(CASE t.kind = "open"      -> OnOpened(a, t.owner, result)
                [] t.kind = "subscribe" -> OnSubscribeToken(a, t.owner, t.request, result)
                [] t.kind = "refresh"   -> OnRefreshToken(a, t.owner, t.account, t.sub, result)
                [] t.kind = "reauth"    -> OnReauthToken(a, t.owner, result))
  BY Zenon DEF TaskEnds
<1> HIDE DEF a
<1>6. CASE t.kind = "open"
  <2>1. Fine(OnOpened(a, t.owner, result), inbox, server, commands, {}, {})
    BY <1>1, <1>2, <1>6, OnOpenedFine
  <2>2. Handles(OnOpened(a, t.owner, result))
    BY <1>5, <1>6
  <2> QED
    BY <1>3, <2>1, <2>2, HandlesKept
<1>7. CASE t.kind = "subscribe"
  <2>1. Fine(OnSubscribeToken(a, t.owner, t.request, result), inbox, server, commands, {}, {})
    BY <1>1, <1>2, <1>7, OnSubscribeTokenFine
  <2>2. Handles(OnSubscribeToken(a, t.owner, t.request, result))
    BY <1>5, <1>7
  <2> QED
    BY <1>3, <2>1, <2>2, HandlesKept
<1>8. CASE t.kind = "refresh"
  <2>1. Fine(OnRefreshToken(a, t.owner, t.account, t.sub, result), inbox, server, commands, {}, {})
    BY <1>1, <1>2, <1>8, OnRefreshTokenFine
  <2>2. Handles(OnRefreshToken(a, t.owner, t.account, t.sub, result))
    BY <1>5, <1>8
  <2> QED
    BY <1>3, <2>1, <2>2, HandlesKept
<1>9. CASE t.kind = "reauth"
  <2>1. Fine(OnReauthToken(a, t.owner, result), inbox, server, commands, {}, {})
    BY <1>1, <1>2, <1>9, OnReauthFine
  <2>2. Handles(OnReauthToken(a, t.owner, result))
    BY <1>5, <1>9
  <2> QED
    BY <1>3, <2>1, <2>2, HandlesKept
<1> QED
  BY <1>4, <1>6, <1>7, <1>8, <1>9

-----------------------------------------------------------------------------
(* Commands *)

\* Only whose add commands are to come matters.
LEMMA CommandsFine ==
  ASSUME NEW a, NEW in, NEW S, NEW A, NEW X, NEW Y, Fine(a, in, S, A, X, Y),
         NEW B, ArrivingIn(B) = ArrivingIn(A), Orderly(a, B)
  PROVE  Fine(a, in, S, B, X, Y)
<1>1. Crowd(a, B, Y)
  BY DEF Fine, Crowd, Audience, Newcomer, Explained
<1> QED
  BY <1>1 DEF Fine

\* cs begins with f and goes on with rest.
LEMMA CommandTail ==
  ASSUME NEW cs \in Seq(Commands), cs # <<>>
  PROVE  /\ Tail(cs) \in Seq(Commands) /\ Head(cs) \in Commands
         /\ 1 \in DOMAIN cs /\ cs[1] = Head(cs)
         /\ \A i \in DOMAIN Tail(cs) : i + 1 \in DOMAIN cs /\ Tail(cs)[i] = cs[i + 1] /\ i + 1 # 1
         /\ \A j \in DOMAIN cs : j = 1 \/ (\E i \in DOMAIN Tail(cs) : j = i + 1)
<1>1. /\ Tail(cs) \in Seq(Commands) /\ Head(cs) \in Commands /\ Head(cs) = cs[1]
      /\ Len(Tail(cs)) = Len(cs) - 1 /\ Len(cs) \in Nat /\ Len(cs) >= 1
      /\ \A i \in 1..Len(Tail(cs)) : Tail(cs)[i] = cs[i + 1]
  OBVIOUS
<1>2. DOMAIN cs = 1..Len(cs) /\ DOMAIN Tail(cs) = 1..Len(Tail(cs))
  BY <1>1
<1>3. ASSUME NEW j \in DOMAIN cs, j # 1
      PROVE  \E i \in DOMAIN Tail(cs) : j = i + 1
  <2>1. j - 1 \in DOMAIN Tail(cs) /\ j = (j - 1) + 1
    BY <1>1, <1>2, <1>3
  <2> QED
    BY <2>1
<1> QED
  BY <1>1, <1>2, <1>3

\* Taking the next command makes its consumer a newcomer that is in no queue any more.
LEMMA NextCommand ==
  ASSUME NEW a, NEW cs \in Seq(Commands), cs # <<>>, Orderly(a, cs)
  PROVE  /\ Orderly(a, Tail(cs)) /\ Head(cs).consumer \in Consumers
         /\ Head(cs).kind = "add" =>
              Arrived(a, cs, Tail(cs), Head(cs).consumer) /\ Head(cs).account \in Accounts
         /\ Head(cs).kind # "add" =>
              /\ ArrivingIn(Tail(cs)) = ArrivingIn(cs)
              /\ a.users[Head(cs).consumer].handle # "open"
<1> DEFINE f == Head(cs)
           rest == Tail(cs)
<1>1. /\ rest \in Seq(Commands) /\ f \in Commands /\ 1 \in DOMAIN cs /\ cs[1] = f
      /\ \A i \in DOMAIN rest : i + 1 \in DOMAIN cs /\ rest[i] = cs[i + 1] /\ i + 1 # 1
      /\ \A j \in DOMAIN cs : j = 1 \/ (\E i \in DOMAIN rest : j = i + 1)
  BY CommandTail
<1>0. \A i \in DOMAIN rest : i \in Nat
  BY <1>1
<1> HIDE DEF f, rest
<1>2. f.consumer \in Consumers /\ (f.kind = "add" => f.account \in Accounts)
      /\ (f.kind # "add" => f.kind = "remove")
  BY <1>1 DEF Commands
<1>3. Orderly(a, rest)
  <2>1. \A i \in DOMAIN rest :
          /\ rest[i].consumer \in Consumers /\ a.users[rest[i].consumer].handle # "new"
          /\ rest[i].kind = "remove" => a.users[rest[i].consumer].handle \in {"closed", "dropped"}
    BY <1>1 DEF Orderly
  <2>2. \A i, j \in DOMAIN rest :
          rest[i].kind = "add" /\ rest[j].kind = "add" /\ rest[i].consumer = rest[j].consumer
            => i = j
    <3> SUFFICES ASSUME NEW i \in DOMAIN rest, NEW j \in DOMAIN rest,
                        rest[i].kind = "add", rest[j].kind = "add",
                        rest[i].consumer = rest[j].consumer
                 PROVE  i = j
      OBVIOUS
    <3>1. i + 1 = j + 1
      BY <1>1 DEF Orderly
    <3> QED
      BY <1>0, <3>1
  <2> QED
    BY <2>1, <2>2 DEF Orderly
<1>4. ASSUME NEW c \in ArrivingIn(rest)
      PROVE  c \in ArrivingIn(cs) /\ (f.kind = "add" => c # f.consumer)
  <2>1. PICK i \in DOMAIN rest : rest[i].kind = "add" /\ rest[i].consumer = c
    BY DEF ArrivingIn
  <2>2. i + 1 \in DOMAIN cs /\ cs[i + 1].kind = "add" /\ cs[i + 1].consumer = c /\ i + 1 # 1
    BY <1>1, <2>1
  <2>3. c \in ArrivingIn(cs)
    BY <2>2 DEF ArrivingIn
  <2>4. f.kind = "add" => c # f.consumer
    BY <1>1, <2>2 DEF Orderly
  <2> QED
    BY <2>3, <2>4
<1>5. ASSUME NEW c \in ArrivingIn(cs)
      PROVE  c \in ArrivingIn(rest) \/ (f.kind = "add" /\ c = f.consumer)
  <2>1. PICK j \in DOMAIN cs : cs[j].kind = "add" /\ cs[j].consumer = c
    BY DEF ArrivingIn
  <2>2. CASE j = 1
    BY <1>1, <2>1, <2>2
  <2>3. CASE j # 1
    <3>1. PICK i \in DOMAIN rest : j = i + 1
      BY <1>1, <2>3
    <3>2. rest[i].kind = "add" /\ rest[i].consumer = c
      BY <1>1, <2>1, <3>1
    <3> QED
      BY <3>2 DEF ArrivingIn
  <2> QED
    BY <2>2, <2>3
<1>6. CASE f.kind = "add"
  <2>1. f.consumer \in ArrivingIn(cs)
    BY <1>1, <1>6 DEF ArrivingIn
  <2>2. f.consumer \notin ArrivingIn(rest)
    BY <1>4, <1>6
  <2>3. a.users[f.consumer].handle # "new"
    BY <1>1 DEF Orderly
  <2>4. Arrived(a, cs, rest, f.consumer)
    BY <1>3, <1>4, <1>5, <2>1, <2>2, <2>3 DEF Arrived
  <2> QED
    BY <1>2, <1>3, <1>6, <2>4 DEF f, rest
<1>7. CASE f.kind # "add"
  <2>1. ArrivingIn(rest) = ArrivingIn(cs)
    BY <1>4, <1>5, <1>7
  <2>2. a.users[f.consumer].handle # "open"
    BY <1>1, <1>2, <1>7 DEF Orderly
  <2> QED
    BY <1>2, <1>3, <1>7, <2>1, <2>2 DEF f, rest
<1> QED
  BY <1>6, <1>7

\* A command of a user keeps the invariant.
LEMMA CommandKept ==
  ASSUME IInv, CommandStep
  PROVE  Kept
<1> DEFINE f == Head(commands)
           rest == Tail(commands)
           b == OnCommand(actor, f)
<1>1. /\ Fine(actor, inbox, server, commands, {}, {}) /\ Orderly(actor, commands)
      /\ commands \in Seq(Commands) /\ commands # <<>>
      /\ actor' = b /\ commands' = rest /\ Socket(inbox, server)
  BY DEF IInv, TypeOK, Fine, Crowd, CommandStep
<1>2. /\ Orderly(actor, rest) /\ f.consumer \in Consumers
      /\ f.kind = "add" => Arrived(actor, commands, rest, f.consumer) /\ f.account \in Accounts
      /\ f.kind # "add" => /\ ArrivingIn(rest) = ArrivingIn(commands)
                           /\ actor.users[f.consumer].handle # "open"
  BY <1>1, NextCommand
<1>3. /\ f.kind = "add" => b = Add(actor, f.account, f.consumer)
      /\ f.kind # "add" => b = RemoveConsumer(actor, f.consumer)
  BY Zenon DEF OnCommand
<1> HIDE DEF f, rest, b
<1>4. CASE f.kind = "add"
  <2>1. Fine(Add(actor, f.account, f.consumer), inbox, server, rest, {}, {})
    BY <1>1, <1>2, <1>4, AddFine
  <2> QED
    BY <1>1, <1>3, <1>4, <2>1, SocketKept
<1>5. CASE f.kind # "add"
  <2>1. Fine(b, inbox, server, commands, {}, {})
    BY <1>1, <1>2, <1>3, <1>5, RemoveFine
  <2>2. b.users = actor.users
    <3>1. IsMap(actor, Fields)
      BY <1>1 DEF Fine, ActorOK
    <3> QED
      BY <1>3, <1>5, <3>1, Zenon DEF RemoveConsumer, IsMap, Fields
  <2>3. Orderly(b, rest)
    BY <1>2, <2>2, OrderlyKept
  <2>4. Fine(b, inbox, server, rest, {}, {})
    BY <1>2, <1>5, <2>1, <2>3, CommandsFine
  <2> QED
    BY <1>1, <2>4, SocketKept
<1> QED
  BY <1>4, <1>5

-----------------------------------------------------------------------------
(* The handles *)

\* The consumer c is u in b, and a is b otherwise.
UserSet(a, b, c, u) ==
  /\ IsMap(b, Fields) /\ \A g \in Fields \ {"users"} : b[g] = a[g]
  /\ IsMap(b.users, Consumers) /\ b.users[c] = u
  /\ \A d \in Consumers : d # c => b.users[d] = a.users[d]

\* A user that acts on its handle changes its own state only.
LEMMA UserSetIs ==
  ASSUME NEW a, ActorOK(a), NEW c \in Consumers, NEW u
  PROVE  UserSet(a, [a EXCEPT !.users[c] = u], c, u)
<1> DEFINE us == [a.users EXCEPT ![c] = u]
           b == [a EXCEPT !.users[c] = u]
<1>1. IsMap(a, Fields) /\ IsMap(a.users, Consumers)
  BY DEF ActorOK, UsersOK
<1>2. b = [a EXCEPT !.users = us]
  BY Zenon
<1>3. IsMap(us, Consumers) /\ us[c] = u /\ \A d \in Consumers : d # c => us[d] = a.users[d]
  BY <1>1, Zenon DEF IsMap
<1> HIDE DEF us, b
<1>4. SetField(a, b, "users", us)
  BY <1>1, <1>2, SetFields
<1>5. b.users = us
  BY <1>4, Zenon DEF SetField
<1> QED
  BY <1>3, <1>4, <1>5 DEF UserSet, SetField, b

\* What the handle of u changes: how it stands, and what it has not read.
SameUser(u, v) ==
  /\ IsUser(v) /\ v.ended = u.ended /\ v.connected = u.connected /\ v.view = u.view
  /\ v.ready = u.ready /\ v.stale = u.stale

\* A user that acts on its handle keeps the invariant.
LEMMA UserFine ==
  ASSUME NEW a, NEW in, NEW S, NEW A, Fine(a, in, S, A, {}, {}), NEW c \in Consumers,
         NEW u, SameUser(a.users[c], u), NEW b, UserSet(a, b, c, u), NEW B,
         \A d : d # c => (d \in ArrivingIn(B) <=> d \in ArrivingIn(A)),
         u.handle = "new" \/ c \in ArrivingIn(B) => Newcomer(a, A, c),
         u.handle = "open" /\ c \notin ArrivingIn(B) =>
           a.users[c].handle = "open" /\ c \notin ArrivingIn(A),
         Orderly(b, B)
  PROVE  Fine(b, in, S, B, {}, {}) /\ b.conn = a.conn
<1>0. ActorOK(a) /\ Linked(a, in, S, {}, {}) /\ Crowd(a, A, {})
  BY DEF Fine
<1>1. SetField(a, b, "users", b.users)
  BY DEF UserSet, SetField
<1>2. /\ b.subs = a.subs /\ b.pending = a.pending /\ b.bySub = a.bySub
      /\ b.unsubscribing = a.unsubscribing /\ b.idle = a.idle /\ b.conn = a.conn
      /\ b.writable = a.writable /\ b.out = a.out /\ b.unwritable = a.unwritable
      /\ b.connecting = a.connecting /\ b.generation = a.generation /\ b.nextConn = a.nextConn
      /\ b.nextSubscription = a.nextSubscription /\ b.nextRequest = a.nextRequest
      /\ b.reconnectAt = a.reconnectAt /\ b.heartbeatAt = a.heartbeatAt /\ b.tasks = a.tasks
  BY <1>1, SetFieldSame
<1>3. /\ b.users[c] = u /\ \A d \in Consumers : d # c => b.users[d] = a.users[d]
      /\ IsMap(b.users, Consumers) /\ IsMap(b, Fields)
  BY DEF UserSet
<1>4. UsersOK(b.users)
  BY <1>0, <1>3 DEF UsersOK, ActorOK, SameUser
<1>5. ActorOK(b)
  BY <1>0, <1>2, <1>3, <1>4 DEF ActorOK
<1>6. KeepsSubs(a, b, {"consumers", "retried"})
  BY <1>0, <1>2 DEF KeepsSubs, KeepsSub, ActorOK, SubsOK, IsSub
<1>7. Keeps(a, b, {"users", "idle", "subs", "unwritable"})
  BY DEF UserSet, Keeps
<1>8. Linked(b, in, S, {}, {})
  BY <1>0, <1>6, <1>7, AlikeLinked DEF Alike
<1>9. \A d \in Consumers :
        /\ b.users[d].view = a.users[d].view /\ b.users[d].connected = a.users[d].connected
        /\ b.users[d].ready = a.users[d].ready /\ b.users[d].stale = a.users[d].stale
        /\ b.users[d].ended = a.users[d].ended
  BY <1>3 DEF SameUser
<1>10. \A d \in Consumers : Newcomer(b, B, d) => Newcomer(a, A, d)
  BY <1>3 DEF Newcomer
<1>11. Audience(b, B)
  BY <1>0, <1>2, <1>9, <1>10 DEF Crowd, Audience
<1>12. Known(b, {})
  <2> SUFFICES ASSUME NEW y \in DOMAIN b.subs, NEW d \in b.subs[y].consumers
               PROVE  Knows(b.users[d], b.subs[y])
    BY DEF Known, KnownTo
  <2>1. KnownTo(a.users[d], a.subs[y], y \in {}) /\ d \in Consumers
    BY <1>0, <1>2, Zenon DEF Crowd, Known, ActorOK, SubsOK, IsSub
  <2>2. Knows(a.users[d], a.subs[y])
    BY <2>1 DEF KnownTo
  <2> QED
    BY <1>2, <1>9, <2>1, <2>2 DEF Knows
<1>13. Whole(b)
  BY <1>0, <1>9 DEF Crowd, Whole
<1>14. Explained(b, B)
  <2> SUFFICES ASSUME NEW d \in Consumers, b.users[d].handle = "open", d \notin ArrivingIn(B),
                      \A y \in DOMAIN b.subs : d \notin b.subs[y].consumers
               PROVE  b.users[d].ended # "no"
    BY DEF Explained
  <2>1. a.users[d].handle = "open" /\ d \notin ArrivingIn(A)
    BY <1>3
  <2> QED
    BY <1>0, <1>2, <1>9, <2>1 DEF Crowd, Explained
<1> QED
  BY <1>2, <1>5, <1>8, <1>11, <1>12, <1>13, <1>14 DEF Fine, Crowd

\* A command that is queued behind the others.
LEMMA QueuedCommand ==
  ASSUME NEW cs \in Seq(Commands), NEW f \in Commands
  PROVE  /\ Append(cs, f) \in Seq(Commands)
         /\ \A d : d \in ArrivingIn(Append(cs, f)) <=>
              d \in ArrivingIn(cs) \/ (f.kind = "add" /\ d = f.consumer)
         /\ \A i \in DOMAIN Append(cs, f) :
              (i \in DOMAIN cs /\ Append(cs, f)[i] = cs[i]) \/ (i = Len(cs) + 1 /\ Append(cs, f)[i] = f)
<1> DEFINE t == Append(cs, f)
           n == Len(cs) + 1
<1>1. /\ t \in Seq(Commands) /\ DOMAIN cs = 1..Len(cs) /\ DOMAIN t = 1..n /\ Len(cs) \in Nat
      /\ t[n] = f /\ \A i \in 1..Len(cs) : t[i] = cs[i]
  OBVIOUS
<1>2. /\ \A i \in DOMAIN cs : i \in DOMAIN t /\ t[i] = cs[i]
      /\ \A i \in DOMAIN t : (i \in DOMAIN cs /\ t[i] = cs[i]) \/ (i = n /\ t[i] = f)
      /\ n \in DOMAIN t /\ t[n] = f
  BY <1>1
<1> HIDE DEF t, n
<1>3. ASSUME NEW d
      PROVE  d \in ArrivingIn(t) <=> d \in ArrivingIn(cs) \/ (f.kind = "add" /\ d = f.consumer)
  <2>1. d \in ArrivingIn(t) <=> \E i \in DOMAIN t : t[i].kind = "add" /\ t[i].consumer = d
    BY DEF ArrivingIn
  <2>2. d \in ArrivingIn(cs) <=> \E i \in DOMAIN cs : cs[i].kind = "add" /\ cs[i].consumer = d
    BY DEF ArrivingIn
  <2> QED
    BY <1>2, <2>1, <2>2
<1> QED
  BY <1>1, <1>2, <1>3 DEF t, n

\* What the steps outside of the actor keep.
LEMMA OthersKept ==
  ASSUME Fine(actor', inbox', server', commands', {}, {}), SocketOK, actor'.conn = actor.conn,
         inbox' = inbox, server' = server
  PROVE  Kept
BY DEF Kept, SocketOK

\* A handle that is opened or closed.
LEMMA HandleIs ==
  ASSUME NEW u, IsUser(u), NEW h \in {"new", "open", "closed", "dropped"}
  PROVE  SameUser(u, [u EXCEPT !.handle = h]) /\ [u EXCEPT !.handle = h].handle = h
<1> DEFINE v == [u EXCEPT !.handle = h]
<1>1. IsMap(u, UserFields)
  BY DEF IsUser
<1>2. IsMap(v, UserFields) /\ v.handle = h /\ \A g \in UserFields \ {"handle"} : v[g] = u[g]
  BY <1>1, Zenon DEF IsMap, UserFields
<1> HIDE DEF v
<1>3. /\ v.queued = u.queued /\ v.ended = u.ended /\ v.connected = u.connected
      /\ v.view = u.view /\ v.ready = u.ready /\ v.stale = u.stale
  BY <1>2 DEF UserFields
<1>4. SameUser(u, v) /\ v.handle = h
  BY <1>2, <1>3 DEF SameUser, IsUser
<1> QED
  BY <1>4 DEF v

\* Events that are taken out of the queue.
LEMMA QueuedIs ==
  ASSUME NEW u, IsUser(u), NEW q \in 0..QueueSize
  PROVE  /\ SameUser(u, [u EXCEPT !.queued = q])
         /\ [u EXCEPT !.queued = q].handle = u.handle
<1> DEFINE v == [u EXCEPT !.queued = q]
<1>1. IsMap(u, UserFields)
  BY DEF IsUser
<1>2. IsMap(v, UserFields) /\ v.queued = q /\ \A g \in UserFields \ {"queued"} : v[g] = u[g]
  BY <1>1, Zenon DEF IsMap, UserFields
<1> HIDE DEF v
<1>3. /\ v.handle = u.handle /\ v.ended = u.ended /\ v.connected = u.connected
      /\ v.view = u.view /\ v.ready = u.ready /\ v.stale = u.stale
  BY <1>2 DEF UserFields
<1>4. SameUser(u, v) /\ v.handle = u.handle
  BY <1>2, <1>3 DEF SameUser, IsUser
<1> QED
  BY <1>4 DEF v

\* The commands stay orderly when the handle of a consumer that is not new
\* changes to another one.
LEMMA OrderlyQueued ==
  ASSUME NEW a, NEW cs \in Seq(Commands), Orderly(a, cs), NEW c \in Consumers, NEW u,
         NEW b, UserSet(a, b, c, u), u.handle # "new", NEW f \in Commands, f.consumer = c,
         f.kind = "add" => \A i \in DOMAIN cs : cs[i].consumer # c,
         f.kind = "remove" => u.handle \in {"closed", "dropped"},
         a.users[c].handle \in {"new", "open"}
  PROVE  Orderly(b, Append(cs, f))
<1> DEFINE t == Append(cs, f)
           n == Len(cs) + 1
<1>1. /\ \A i \in DOMAIN t : (i \in DOMAIN cs /\ t[i] = cs[i]) \/ (i = n /\ t[i] = f)
  BY QueuedCommand, Zenon
<1>2. /\ b.users[c] = u /\ \A d \in Consumers : d # c => b.users[d] = a.users[d]
  BY DEF UserSet
<1>3. f.kind \in {"add", "remove"}
  BY DEF Commands
<1> HIDE DEF t, n
<1>4. \A i \in DOMAIN cs :
        /\ cs[i].consumer \in Consumers /\ b.users[cs[i].consumer].handle # "new"
        /\ cs[i].kind = "remove" => b.users[cs[i].consumer].handle \in {"closed", "dropped"}
  <2> SUFFICES ASSUME NEW i \in DOMAIN cs
               PROVE  /\ cs[i].consumer \in Consumers /\ b.users[cs[i].consumer].handle # "new"
                      /\ cs[i].kind = "remove" =>
                           b.users[cs[i].consumer].handle \in {"closed", "dropped"}
    OBVIOUS
  <2>1. /\ cs[i].consumer \in Consumers /\ a.users[cs[i].consumer].handle # "new"
        /\ cs[i].kind = "remove" => a.users[cs[i].consumer].handle \in {"closed", "dropped"}
    BY DEF Orderly
  <2>2. CASE cs[i].consumer = c
    BY <1>2, <2>1, <2>2
  <2>3. CASE cs[i].consumer # c
    BY <1>2, <2>1, <2>3
  <2> QED
    BY <2>2, <2>3
<1>5. \A i \in DOMAIN t :
        /\ t[i].consumer \in Consumers /\ b.users[t[i].consumer].handle # "new"
        /\ t[i].kind = "remove" => b.users[t[i].consumer].handle \in {"closed", "dropped"}
  BY <1>1, <1>2, <1>4
<1>6. \A i, j \in DOMAIN t :
        t[i].kind = "add" /\ t[j].kind = "add" /\ t[i].consumer = t[j].consumer => i = j
  BY <1>1 DEF Orderly
<1> QED
  BY <1>5, <1>6 DEF Orderly, t

\* A handle is asked for.
LEMMA ConnectKept ==
  ASSUME IInv, NEW c \in Consumers, Connect(c)
  PROVE  Kept
<1> DEFINE u == [actor.users[c] EXCEPT !.handle = "open"]
<1>1. /\ Fine(actor, inbox, server, commands, {}, {}) /\ IsUser(actor.users[c])
      /\ commands \in Seq(Commands) /\ SocketOK /\ ActorOK(actor) /\ Orderly(actor, commands)
  BY DEF IInv, TypeOK, Fine, ActorOK, UsersOK, Crowd
<1>0. 0 \in 0..QueueSize
  BY PrivateOrdersAssumption
<1>2. actor.users[c].handle = "new" /\ inbox' = inbox /\ server' = server
  BY DEF Connect
<1>3. PICK x \in Accounts :
        commands' = Append(commands, [kind |-> "add", account |-> x, consumer |-> c])
  BY DEF Connect
<1>4. actor' = [actor EXCEPT !.users[c] = u]
  BY Zenon DEF Connect
<1>5. SameUser(actor.users[c], u) /\ u.handle = "open"
  BY <1>1, HandleIs
<1> HIDE DEF u
<1>6. UserSet(actor, actor', c, u)
  BY <1>1, <1>4, UserSetIs
<1> DEFINE f == [kind |-> "add", account |-> x, consumer |-> c]
<1>7. f \in Commands /\ f.kind = "add" /\ f.consumer = c
  BY DEF Commands
<1>8. commands' = Append(commands, f)
  BY <1>3
<1> HIDE DEF f
<1>9. \A i \in DOMAIN commands : commands[i].consumer # c
  BY <1>1, <1>2 DEF Orderly
<1>10. Orderly(actor', commands')
  BY <1>1, <1>2, <1>5, <1>6, <1>7, <1>8, <1>9, OrderlyQueued
<1>11. \A d : d \in ArrivingIn(commands') <=> d \in ArrivingIn(commands) \/ d = c
  BY <1>1, <1>7, <1>8, QueuedCommand
<1>12. Fine(actor', inbox, server, commands', {}, {}) /\ actor'.conn = actor.conn
  <2>1. \A d : d # c => (d \in ArrivingIn(commands') <=> d \in ArrivingIn(commands))
    BY <1>11
  <2>2. u.handle = "new" \/ c \in ArrivingIn(commands') => Newcomer(actor, commands, c)
    BY <1>2 DEF Newcomer
  <2>3. ~(u.handle = "open" /\ c \notin ArrivingIn(commands'))
    BY <1>11
  <2> QED
    BY <1>1, <1>5, <1>6, <1>10, <2>1, <2>2, <2>3, UserFine
<1> QED
  BY <1>1, <1>2, <1>12, OthersKept

\* A handle is closed or dropped.
LEMMA LeaveKept ==
  ASSUME IInv, NEW c \in Consumers, Leave(c)
  PROVE  Kept
<1>1. /\ Fine(actor, inbox, server, commands, {}, {}) /\ IsUser(actor.users[c])
      /\ commands \in Seq(Commands) /\ SocketOK /\ ActorOK(actor) /\ Orderly(actor, commands)
  BY DEF IInv, TypeOK, Fine, ActorOK, UsersOK, Crowd
<1>0. 0 \in 0..QueueSize
  BY PrivateOrdersAssumption
<1>2. actor.users[c].handle = "open" /\ inbox' = inbox /\ server' = server
  BY DEF Leave
<1>3. \E u : /\ SameUser(actor.users[c], u) /\ u.handle \in {"closed", "dropped"}
             /\ actor' = [actor EXCEPT !.users[c] = u]
  <2>1. CASE actor' = [actor EXCEPT !.users[c].handle = "closed"]
    <3> DEFINE u == [actor.users[c] EXCEPT !.handle = "closed"]
    <3>1. actor' = [actor EXCEPT !.users[c] = u]
      BY <2>1, Zenon
    <3>2. SameUser(actor.users[c], u) /\ u.handle = "closed"
      BY <1>1, HandleIs
    <3> HIDE DEF u
    <3> QED
      BY <3>1, <3>2
  <2>2. CASE actor' = [actor EXCEPT !.users[c].handle = "dropped", !.users[c].queued = 0]
    <3> DEFINE v == [actor.users[c] EXCEPT !.handle = "dropped"]
               u == [v EXCEPT !.queued = 0]
               b == [actor EXCEPT !.users[c] = v]
    <3>1. SameUser(actor.users[c], v) /\ v.handle = "dropped"
      BY <1>1, HandleIs
    <3>2. actor' = [b EXCEPT !.users[c].queued = 0]
      BY <2>2, Zenon
    <3>3. b.users[c] = v
      <4> HIDE DEF v
      <4>1. UserSet(actor, b, c, v)
        BY <1>1, UserSetIs
      <4> QED
        BY <4>1 DEF UserSet
    <3>4. actor' = [b EXCEPT !.users[c] = u]
      BY <3>2, <3>3, Zenon
    <3>5. actor' = [actor EXCEPT !.users[c] = u]
      BY <3>4, Zenon
    <3>6. IsUser(v)
      BY <3>1 DEF SameUser
    <3> HIDE DEF v
    <3>7. SameUser(v, u) /\ u.handle = v.handle
      BY <1>0, <3>6, QueuedIs
    <3> HIDE DEF u
    <3>8. SameUser(actor.users[c], u) /\ u.handle = "dropped"
      BY <3>1, <3>7 DEF SameUser
    <3> QED
      BY <3>5, <3>8
  <2> QED
    BY <2>1, <2>2 DEF Leave
<1>4. PICK u : /\ SameUser(actor.users[c], u) /\ u.handle \in {"closed", "dropped"}
               /\ actor' = [actor EXCEPT !.users[c] = u]
  BY <1>3
<1>6. UserSet(actor, actor', c, u)
  BY <1>1, <1>4, UserSetIs
<1> DEFINE f == [kind |-> "remove", account |-> None, consumer |-> c]
<1>7. f \in Commands /\ f.kind = "remove" /\ f.consumer = c
  BY DEF Commands
<1>8. commands' = Append(commands, f)
  BY DEF Leave
<1> HIDE DEF f
<1>10. Orderly(actor', commands')
  BY <1>1, <1>2, <1>4, <1>6, <1>7, <1>8, OrderlyQueued
<1>11. \A d : d \in ArrivingIn(commands') <=> d \in ArrivingIn(commands)
  BY <1>1, <1>7, <1>8, QueuedCommand
<1>12. Fine(actor', inbox, server, commands', {}, {}) /\ actor'.conn = actor.conn
  <2>2. u.handle = "new" \/ c \in ArrivingIn(commands') => Newcomer(actor, commands, c)
    BY <1>4, <1>11 DEF Newcomer
  <2>3. ~(u.handle = "open" /\ c \notin ArrivingIn(commands'))
    BY <1>4
  <2> QED
    BY <1>1, <1>4, <1>6, <1>10, <1>11, <2>2, <2>3, UserFine
<1> QED
  BY <1>1, <1>2, <1>12, OthersKept

\* An event is read.
LEMMA RecvKept ==
  ASSUME IInv, NEW c \in Consumers, Recv(c)
  PROVE  Kept
<1>1. /\ Fine(actor, inbox, server, commands, {}, {}) /\ IsUser(actor.users[c])
      /\ commands \in Seq(Commands) /\ SocketOK /\ ActorOK(actor) /\ Orderly(actor, commands)
  BY DEF IInv, TypeOK, Fine, ActorOK, UsersOK, Crowd
<1> DEFINE q == actor.users[c].queued - 1
           u == [actor.users[c] EXCEPT !.queued = q]
<1>2. inbox' = inbox /\ server' = server /\ commands' = commands
  BY DEF Recv
<1>3. actor' = [actor EXCEPT !.users[c] = u]
  BY Zenon DEF Recv
<1>4. q \in 0..QueueSize
  <2>1. actor.users[c].queued \in 0..QueueSize /\ QueueSize \in Nat
    BY <1>1, PrivateOrdersAssumption DEF IsUser
  <2>2. actor.users[c].queued > 0
    BY DEF Recv
  <2> QED
    BY <2>1, <2>2
<1> HIDE DEF q
<1>5. SameUser(actor.users[c], u) /\ u.handle = actor.users[c].handle
  BY <1>1, <1>4, QueuedIs
<1> HIDE DEF u
<1>6. UserSet(actor, actor', c, u)
  BY <1>1, <1>3, UserSetIs
<1>7. \A d \in Consumers : actor'.users[d].handle = actor.users[d].handle
  BY <1>5, <1>6 DEF UserSet
<1>8. Orderly(actor', commands)
  BY <1>1, <1>7, OrderlyKept
<1>9. Fine(actor', inbox, server, commands', {}, {}) /\ actor'.conn = actor.conn
  <2>1. u.handle = "new" \/ c \in ArrivingIn(commands) => Newcomer(actor, commands, c)
    BY <1>5 DEF Newcomer
  <2> QED
    BY <1>1, <1>2, <1>5, <1>6, <1>8, <2>1, UserFine
<1> QED
  BY <1>1, <1>2, <1>9, OthersKept

-----------------------------------------------------------------------------
(* The other end of the socket *)

\* The first frame of a is taken from b, or all of them.
OutLess(a, b) ==
  /\ Keeps(a, b, {"out", "writable"})
  /\ b.out \in Seq(ClientFrames) /\ b.writable \in BOOLEAN
  /\ b.conn = None => ~b.writable /\ b.out = <<>>
  /\ b.out = <<>> \/ RestOf(a.out, b.out)

OutKeeps(a, b) ==
  /\ b.conn = a.conn
  /\ b.heartbeatAt = a.heartbeatAt /\ b.bySub = a.bySub /\ b.pending = a.pending
  /\ b.connecting = a.connecting /\ b.generation = a.generation
  /\ b.nextSubscription = a.nextSubscription /\ b.nextRequest = a.nextRequest
  /\ b.reconnectAt = a.reconnectAt /\ b.subs = a.subs /\ b.users = a.users
  /\ b.unsubscribing = a.unsubscribing /\ b.idle = a.idle
  /\ b.nextConn = a.nextConn /\ b.tasks = a.tasks /\ b.unwritable = a.unwritable

\* Frames that have been sent are no longer spoken of.
LEMMA OutLessLinked ==
  ASSUME NEW a, ActorOK(a), NEW in, NEW S, NEW X, Linked(a, in, S, X, {}),
         NEW b, OutLess(a, b), NEW K, Heard(b, in, S, K)
  PROVE  ActorOK(b) /\ Linked(b, in, S, X, K) /\ SameCrowd(a, b) /\ OutKeeps(a, b)
<1>0. /\ Link(a) /\ Wire(a, in) /\ AllAsk(a, X) /\ Ids(a, in, S)
      /\ Cursors(a) /\ Traced(a, in, S) /\ EndsOK(in, S)
  BY DEF Linked
<1>1. OutKeeps(a, b)
  <2>1. \A f \in Fields \ {"out", "writable"} : b[f] = a[f]
    BY DEF Keeps, OutLess
  <2> QED
    BY <2>1, SMT DEF Fields, OutKeeps
<1>2. ActorOK(b)
  BY <1>1 DEF ActorOK, OutKeeps, OutLess, Keeps
<1>3. \A i \in DOMAIN b.out : \E j \in DOMAIN a.out : b.out[i] = a.out[j]
  BY NoMap DEF OutLess, RestOf
<1>4. ASSUME NEW i \in DOMAIN b.out, NEW j \in DOMAIN b.out, b.out[i].kind = "subscribe",
             b.out[j].id = b.out[i].id
      PROVE  j = i
  <2>1. /\ i \in Nat /\ j \in Nat /\ i + 1 \in DOMAIN a.out /\ j + 1 \in DOMAIN a.out
        /\ b.out[i] = a.out[i + 1] /\ b.out[j] = a.out[j + 1]
    BY NoMap DEF OutLess, RestOf
  <2>2. j + 1 = i + 1
    BY <1>0, <1>4, <2>1 DEF Ids
  <2> QED
    BY <2>1, <2>2
<1>5. Disconnected(b) /\ Opening(b) /\ Quiet(b)
  BY <1>0, <1>1 DEF Link, OutKeeps, OutLess, Disconnected, Opening, IsOpening, Quiet
<1>6. Owned(b) /\ OneRequest(b) /\ Fetching(b) /\ Listening(b) /\ AllAsk(b, X)
  <2>1. Owned(b)
    BY <1>0, <1>1 DEF Link, OutKeeps, Owned
  <2>2. OneRequest(b)
    BY <1>0, <1>1 DEF Link, OutKeeps, OneRequest, Asks
  <2>3. Fetching(b)
    BY <1>0, <1>1 DEF Link, OutKeeps, Fetching
  <2>4. Listening(b)
    BY <1>0, <1>1 DEF Link, OutKeeps, Listening
  <2>5. AllAsk(b, X)
    BY <1>0, <1>1 DEF Link, OutKeeps, AllAsk, IsAsking, Asks, IsOpening
  <2> QED
    BY <2>1, <2>2, <2>3, <2>4, <2>5
<1>7. Wire(b, in)
  <2>1. \A i \in DOMAIN b.out :
          /\ 0 < b.out[i].id /\ b.out[i].id <= a.nextRequest
          /\ b.out[i].id \in DOMAIN a.pending => a.pending[b.out[i].id].kind = b.out[i].kind
          /\ b.out[i].kind # "subscribe" => b.out[i].sub # None
          /\ b.out[i].kind = "subscribe" => b.out[i].sub = None /\ b.out[i].account \in Accounts
    <3> TAKE i \in DOMAIN b.out
    <3>1. PICK j \in DOMAIN a.out : b.out[i] = a.out[j]
      BY <1>3
    <3> QED
      BY <1>0, <3>1 DEF Wire
  <2> QED
    BY <1>0, <1>1, <2>1 DEF Wire, OutKeeps
<1>8. Ids(b, in, S)
  <2>1. \A k : Unused(a, in, S, k) => Unused(b, in, S, k)
    BY <1>1, <1>3 DEF Unused, OutKeeps
  <2>2. \A i \in DOMAIN b.out :
          /\ b.out[i].kind = "subscribe" => Unused(b, in, S, b.out[i].id)
          /\ b.out[i].sub <= a.nextRequest
    <3> TAKE i \in DOMAIN b.out
    <3>1. PICK j \in DOMAIN a.out : b.out[i] = a.out[j]
      BY <1>3
    <3> QED
      BY <1>0, <2>1, <3>1 DEF Ids
  <2>3. \A t \in a.tasks : t.kind = "subscribe" /\ t.request \in DOMAIN a.pending =>
          /\ Unused(b, in, S, t.request)
          /\ \A i \in DOMAIN b.out : b.out[i].id # t.request
    BY <1>0, <1>3, <2>1 DEF Ids
  <2> QED
    BY <1>0, <1>1, <1>4, <2>2, <2>3 DEF Ids, OutKeeps
<1>9. Cursors(b)
  <2>1. \A i \in DOMAIN b.out :
          /\ \A x \in DOMAIN a.subs : b.out[i].kind = "subscribe" /\ Asks(a, b.out[i].id, x) =>
               b.out[i].cursor = a.subs[x].cursor
          /\ b.out[i].cursor <= MaxHistory
    <3> TAKE i \in DOMAIN b.out
    <3>1. PICK j \in DOMAIN a.out : b.out[i] = a.out[j]
      BY <1>3
    <3> QED
      BY <1>0, <3>1 DEF Cursors, AsksAt, SentAt
  <2> QED
    <3>1. ViewsAt(b)
      BY <1>0, <1>1, <2>1 DEF Cursors, ViewsAt, OutKeeps
    <3>2. AsksAt(b)
      BY <1>0, <1>1, <2>1 DEF Cursors, AsksAt, Asks, OutKeeps
    <3>3. SentAt(b)
      BY <1>0, <1>1, <2>1 DEF Cursors, SentAt, OutKeeps
    <3> QED
      BY <3>1, <3>2, <3>3 DEF Cursors
<1>10. Traced(b, in, S)
  BY <1>0, <1>1, TracedKept DEF OutKeeps
<1>11. SameCrowd(a, b)
  BY <1>1, SameSubs DEF OutKeeps
<1> QED
  BY <1>0, <1>1, <1>2, <1>5, <1>6, <1>7, <1>8, <1>9, <1>10, <1>11 DEF Linked, Link

\* The writer fails: what it had to send is lost, and nobody writes any more.
LEMMA WriterKept ==
  ASSUME IInv, WriterFails
  PROVE  Kept
<1>1. /\ Fine(actor, inbox, server, commands, {}, {}) /\ SocketOK /\ ActorOK(actor)
      /\ Linked(actor, inbox, server, {}, {}) /\ Crowd(actor, commands, {})
  BY DEF IInv, Fine
<1>2. /\ actor.conn # None /\ inbox' = inbox /\ server' = server /\ commands' = commands
      /\ actor' = [actor EXCEPT !.writable = FALSE, !.out = <<>>]
  BY DEF WriterFails
<1>3. /\ IsMap(actor', Fields) /\ ~actor'.writable /\ actor'.writable \in BOOLEAN
      /\ actor'.out = <<>> /\ \A g \in Fields \ {"out", "writable"} : actor'[g] = actor[g]
  <2>1. IsMap(actor, Fields)
    BY <1>1 DEF ActorOK
  <2> QED
    BY <1>2, <2>1, Zenon DEF IsMap, Fields
<1>4. OutLess(actor, actor')
  <2>1. <<>> \in Seq(ClientFrames)
    OBVIOUS
  <2> QED
    BY <1>3, <2>1 DEF OutLess, Keeps
<1>5. Heard(actor', inbox, server, {})
  BY <1>3 DEF Heard
<1>6. ActorOK(actor') /\ Linked(actor', inbox, server, {}, {}) /\ SameCrowd(actor, actor')
      /\ actor'.conn = actor.conn
  BY <1>1, <1>4, <1>5, OutLessLinked DEF OutKeeps
<1>7. Crowd(actor', commands, {})
  BY <1>1, <1>6, CrowdKept
<1> QED
  BY <1>1, <1>2, <1>6, <1>7, OthersKept DEF Fine

\* The frame f that the server has read.
Loose(a, in, S, f) ==
  /\ f \in ClientFrames /\ 0 < f.id /\ f.id <= a.nextRequest /\ f.sub <= a.nextRequest
  /\ f.id \in DOMAIN a.pending => a.pending[f.id].kind = f.kind
  /\ f.kind # "subscribe" => f.sub # None
  /\ f.cursor <= MaxHistory
  /\ f.kind = "subscribe" =>
       /\ f.account \in Accounts /\ Unused(a, in, S, f.id)
       /\ f.id \in DOMAIN a.pending => f.cursor = a.subs[a.pending[f.id].account].cursor
       /\ \A i \in DOMAIN a.out : a.out[i].id # f.id
       /\ \A t \in a.tasks : t.kind = "subscribe" /\ t.request \in DOMAIN a.pending =>
            t.request # f.id
  /\ \A i \in DOMAIN a.out : a.out[i].kind = "subscribe" => a.out[i].id # f.sub
  /\ \A t \in a.tasks : t.kind = "subscribe" /\ t.request \in DOMAIN a.pending => t.request # f.sub
\* The subscription that an Unsubscribe frame ends.
EndsWith(f) == IF f.kind = "unsubscribe" THEN {f.sub} ELSE {}

\* The server reads a frame.
LEMMA ReadLinked ==
  ASSUME NEW a, ActorOK(a), NEW in, NEW S, NEW X, Linked(a, in, S, X, {}), a.out # <<>>,
         NEW b, SetField(a, b, "out", Tail(a.out))
  PROVE  /\ ActorOK(b) /\ Linked(b, in, S, X, EndsWith(Head(a.out))) /\ SameCrowd(a, b)
         /\ OutKeeps(a, b) /\ Loose(b, in, S, Head(a.out))
<1> DEFINE f == Head(a.out)
<1>0. /\ Link(a) /\ Wire(a, in) /\ AllAsk(a, X) /\ Ids(a, in, S) /\ Heard(a, in, S, {})
      /\ Cursors(a) /\ Traced(a, in, S) /\ EndsOK(in, S)
  BY DEF Linked
<1>1. a.out \in Seq(ClientFrames) /\ a.writable \in BOOLEAN
  BY DEF ActorOK
<1>2. /\ Tail(a.out) \in Seq(ClientFrames) /\ RestOf(a.out, Tail(a.out))
      /\ 1 \in DOMAIN a.out /\ f = a.out[1] /\ f \in ClientFrames
  <2>1. /\ Tail(a.out) \in Seq(ClientFrames) /\ Len(a.out) \in Nat /\ Len(a.out) > 0
        /\ DOMAIN a.out = 1..Len(a.out) /\ DOMAIN Tail(a.out) = 1..(Len(a.out) - 1)
        /\ \A i \in 1..(Len(a.out) - 1) : Tail(a.out)[i] = a.out[i + 1]
        /\ f = a.out[1] /\ f \in ClientFrames
    BY <1>1, SMT
  <2> QED
    BY <2>1, SMT DEF RestOf
<1> HIDE DEF f
<1>3. b.out = Tail(a.out)
  BY DEF SetField
<1>4. OutKeeps(a, b) /\ b.writable = a.writable
  BY SetFieldSame DEF OutKeeps
<1>5. a.conn # None
  BY <1>0 DEF Link, Disconnected
<1>6. OutLess(a, b)
  <2>1. Keeps(a, b, {"out", "writable"})
    BY DEF SetField, Keeps
  <2> QED
    BY <1>1, <1>2, <1>3, <1>4, <1>5, <2>1 DEF OutLess, OutKeeps
<1>7. RestOf(a.out, b.out)
  BY <1>2, <1>3
<1>8. Heard(b, in, S, EndsWith(f))
  <2> SUFFICES ASSUME b.conn # None, b.writable, NEW k \in DOMAIN S \ EndsWith(f),
                      k \notin DOMAIN b.bySub, k \notin SubscribedIn(in)
               PROVE  \E i \in DOMAIN b.out : b.out[i].kind = "unsubscribe" /\ b.out[i].sub = k
    BY DEF Heard
  <2>1. PICK j \in DOMAIN a.out : a.out[j].kind = "unsubscribe" /\ a.out[j].sub = k
    BY <1>0, <1>4 DEF Heard, OutKeeps
  <2>2. j # 1
    BY <1>2, <2>1 DEF EndsWith
  <2>3. j - 1 \in DOMAIN b.out /\ b.out[j - 1] = a.out[j]
    BY <1>7, <2>2 DEF RestOf
  <2> QED
    BY <2>1, <2>3
<1>9. Loose(b, in, S, f)
  <2>1. \A i \in DOMAIN b.out : \E j \in DOMAIN a.out : b.out[i] = a.out[j] /\ j # 1
    <3> TAKE i \in DOMAIN b.out
    <3>1. i \in Nat /\ i + 1 \in DOMAIN a.out /\ b.out[i] = a.out[i + 1]
      BY <1>7 DEF RestOf
    <3>2. i \in DOMAIN Tail(a.out)
      BY <1>3
    <3>3. i >= 1
      BY <1>2, <3>2
    <3> QED
      BY <3>1, <3>3
  <2>2. /\ 0 < f.id /\ f.id <= a.nextRequest /\ f.sub <= a.nextRequest
        /\ f.id \in DOMAIN a.pending => a.pending[f.id].kind = f.kind
        /\ f.kind # "subscribe" => f.sub # None
        /\ f.cursor <= MaxHistory
        /\ f.kind = "subscribe" =>
             /\ f.account \in Accounts /\ Unused(a, in, S, f.id)
             /\ f.id \in DOMAIN a.pending => f.cursor = a.subs[a.pending[f.id].account].cursor
    <3>1. f.id \in DOMAIN a.pending /\ f.kind = "subscribe" => f.cursor = a.subs[a.pending[f.id].account].cursor
      <4> SUFFICES ASSUME f.id \in DOMAIN a.pending, f.kind = "subscribe"
                   PROVE  f.cursor = a.subs[a.pending[f.id].account].cursor
        OBVIOUS
      <4>1. Asks(a, f.id, a.pending[f.id].account)
        BY <1>0, <1>2 DEF Wire, Asks
      <4>2. a.pending[f.id].account \in DOMAIN a.subs
        BY <1>0 DEF Link, Owned
      <4> QED
        BY <1>0, <1>2, <4>1, <4>2 DEF Cursors, AsksAt
    <3>2. f.cursor <= MaxHistory
      BY <1>0, <1>2 DEF Cursors, SentAt
    <3>3. /\ 0 < f.id /\ f.id <= a.nextRequest
          /\ f.id \in DOMAIN a.pending => a.pending[f.id].kind = f.kind
          /\ f.kind # "subscribe" => f.sub # None
          /\ f.kind = "subscribe" => f.account \in Accounts
      BY <1>0, <1>2 DEF Wire
    <3>4. f.sub <= a.nextRequest /\ (f.kind = "subscribe" => Unused(a, in, S, f.id))
      BY <1>0, <1>2 DEF Ids
    <3> QED
      BY <3>1, <3>2, <3>3, <3>4
  <2>3. Unused(a, in, S, f.id) => Unused(b, in, S, f.id)
    BY <1>4, <2>1 DEF Unused, OutKeeps
  <2>4. f.kind = "subscribe" => \A i \in DOMAIN b.out : b.out[i].id # f.id
    <3> SUFFICES ASSUME f.kind = "subscribe", NEW i \in DOMAIN b.out, b.out[i].id = f.id
                 PROVE  FALSE
      OBVIOUS
    <3>1. PICK j \in DOMAIN a.out : b.out[i] = a.out[j] /\ j # 1
      BY <2>1
    <3> QED
      BY <1>0, <1>2, <3>1 DEF Ids
  <2>5. \A t \in a.tasks : t.kind = "subscribe" /\ t.request \in DOMAIN a.pending =>
          t.request # f.id /\ t.request # f.sub
    BY <1>0, <1>2 DEF Ids, Unused
  <2>6. \A i \in DOMAIN b.out : b.out[i].kind = "subscribe" => b.out[i].id # f.sub
    <3> SUFFICES ASSUME NEW i \in DOMAIN b.out, b.out[i].kind = "subscribe", b.out[i].id = f.sub
                 PROVE  FALSE
      OBVIOUS
    <3>1. PICK j \in DOMAIN a.out : b.out[i] = a.out[j] /\ j # 1
      BY <2>1
    <3> QED
      BY <1>0, <1>2, <3>1 DEF Ids, Unused
  <2> QED
    BY <1>2, <1>4, <2>2, <2>3, <2>4, <2>5, <2>6 DEF Loose, OutKeeps
<1> QED
  BY <1>4, <1>6, <1>8, <1>9, OutLessLinked DEF f

\* The frame g is added to those of in, unless it is lost.
Grows(in, in2, g) ==
  \/ in2 = in
  \/ \E n \in Nat :
       /\ n \in DOMAIN in2 /\ in2[n] = g /\ n \notin DOMAIN in
       /\ \A i \in DOMAIN in : i \in DOMAIN in2 /\ in2[i] = in[i]
       /\ \A i \in DOMAIN in2 : i = n \/ i \in DOMAIN in

\* A frame that arrives stands behind those that arrived before.
LEMMA AppendGrows ==
  ASSUME NEW in \in Seq(Frames), NEW g \in Frames
  PROVE  /\ Append(in, g) \in Seq(Frames) /\ Grows(in, Append(in, g), g)
         /\ \E i \in DOMAIN Append(in, g) : Append(in, g)[i] = g
<1> DEFINE t == Append(in, g)
           n == Len(in) + 1
<1>1. /\ t \in Seq(Frames) /\ DOMAIN in = 1..Len(in) /\ DOMAIN t = 1..n /\ Len(in) \in Nat
      /\ t[n] = g /\ \A i \in 1..Len(in) : t[i] = in[i]
  OBVIOUS
<1>2. /\ n \in Nat /\ n \in DOMAIN t /\ t[n] = g /\ n \notin DOMAIN in
      /\ \A i \in DOMAIN in : i \in DOMAIN t /\ t[i] = in[i]
      /\ \A i \in DOMAIN t : i = n \/ i \in DOMAIN in
  BY <1>1
<1> HIDE DEF t, n
<1> QED
  BY <1>1, <1>2 DEF Grows, t

\* Frames that are there, and the one that came.
LEMMA GrowsFrames ==
  ASSUME NEW in, NEW in2, NEW g, Grows(in, in2, g)
  PROVE  /\ \A i \in DOMAIN in2 : in2[i] = g \/ (i \in DOMAIN in /\ in2[i] = in[i])
         /\ \A i, j \in DOMAIN in2 :
              i = j \/ (i \in DOMAIN in /\ in2[i] = in[i]) \/ (j \in DOMAIN in /\ in2[j] = in[j])
         /\ SubscribedIn(in) \subseteq SubscribedIn(in2)
         /\ SubscribedIn(in2) \subseteq
              SubscribedIn(in) \cup (IF g.kind = "subscribed" THEN {g.sub} ELSE {})
<1>1. /\ \A i \in DOMAIN in2 : in2[i] = g \/ (i \in DOMAIN in /\ in2[i] = in[i])
      /\ \A i, j \in DOMAIN in2 :
           i = j \/ (i \in DOMAIN in /\ in2[i] = in[i]) \/ (j \in DOMAIN in /\ in2[j] = in[j])
      /\ \A i \in DOMAIN in : i \in DOMAIN in2 /\ in2[i] = in[i]
  BY DEF Grows
<1> QED
  BY <1>1 DEF SubscribedIn

\* A frame that is in order when the server's subscriptions become those of S2.
MayCome(a, in, S, S2, g) ==
  /\ g \in Frames /\ g.id <= a.nextRequest /\ g.sub <= a.nextRequest
  /\ g.kind = "subscribed" =>
       /\ g.sub = g.id /\ g.id # None /\ Unused(a, in, S, g.sub)
       /\ g.id \in DOMAIN a.pending => a.pending[g.id].kind = "subscribe"
  /\ g.kind = "refreshed" =>
       (g.id \in DOMAIN a.pending => a.pending[g.id].kind = "refresh")
  /\ g.kind = "unknown" /\ g.id # None => g.sub # None
  /\ g.kind \in Numbered => g.seq # 0
  /\ g.kind \in {"unsubscribed", "unknown"} => g.sub \notin DOMAIN S2
  /\ \A i \in DOMAIN a.out : a.out[i].kind = "subscribe" => a.out[i].id # g.sub
  /\ \A t \in a.tasks : t.kind = "subscribe" /\ t.request \in DOMAIN a.pending => t.request # g.sub
  /\ \A k \in DOMAIN S2 : k \in DOMAIN S \/ (g.kind = "subscribed" /\ k = g.sub)

\* A frame comes, or is lost on the way.
LEMMA ComesLinked ==
  ASSUME NEW a, ActorOK(a), NEW in, NEW S, NEW X, NEW K, Linked(a, in, S, X, K),
         NEW S2, NEW g, MayCome(a, in, S, S2, g), NEW in2, Grows(in, in2, g), EndsOK(in2, S2),
         Heard(a, in2, S2, {}), Traced(a, in2, S2)
  PROVE  Linked(a, in2, S2, X, {})
<1>0. /\ Link(a) /\ Wire(a, in) /\ AllAsk(a, X) /\ Ids(a, in, S) /\ Cursors(a)
      /\ EndsOK(in, S)
  BY DEF Linked
<1>1. /\ \A i \in DOMAIN in2 : in2[i] = g \/ (i \in DOMAIN in /\ in2[i] = in[i])
      /\ \A i, j \in DOMAIN in2 :
           i = j \/ (i \in DOMAIN in /\ in2[i] = in[i]) \/ (j \in DOMAIN in /\ in2[j] = in[j])
  BY GrowsFrames
<1>2. Wire(a, in2)
  <2>1. \A i \in DOMAIN in2 :
          /\ in2[i].id <= a.nextRequest
          /\ in2[i].kind = "subscribed" =>
               /\ in2[i].sub = in2[i].id /\ in2[i].id # None
               /\ in2[i].id \in DOMAIN a.pending => a.pending[in2[i].id].kind = "subscribe"
          /\ in2[i].kind = "refreshed" =>
               (in2[i].id \in DOMAIN a.pending => a.pending[in2[i].id].kind = "refresh")
          /\ in2[i].kind = "unknown" /\ in2[i].id # None => in2[i].sub # None
          /\ in2[i].kind \in Numbered => in2[i].seq # 0
    <3> TAKE i \in DOMAIN in2
    <3>1. CASE in2[i] = g
      BY <3>1 DEF MayCome
    <3>2. CASE i \in DOMAIN in /\ in2[i] = in[i]
      BY <1>0, <3>2 DEF Wire
    <3> QED
      BY <1>1, <3>1, <3>2
  <2> QED
    BY <1>0, <2>1 DEF Wire
<1>3. Ids(a, in2, S2)
  <2>1. ASSUME NEW k, Unused(a, in, S, k), k # g.sub
        PROVE  Unused(a, in2, S2, k)
    BY <1>1, <2>1 DEF Unused, MayCome
  <2>2. \A i \in DOMAIN a.out : a.out[i].kind = "subscribe" =>
          /\ Unused(a, in2, S2, a.out[i].id)
          /\ \A j \in DOMAIN a.out : a.out[j].id = a.out[i].id => j = i
    BY <1>0, <2>1 DEF Ids, MayCome
  <2>3. \A t \in a.tasks : t.kind = "subscribe" /\ t.request \in DOMAIN a.pending =>
          /\ Unused(a, in2, S2, t.request)
          /\ \A i \in DOMAIN a.out : a.out[i].id # t.request
    BY <1>0, <2>1 DEF Ids, MayCome
  <2>4. \A i \in DOMAIN in2 :
          /\ in2[i].kind \in {"unsubscribed", "unknown"} => in2[i].sub \notin DOMAIN S2
          /\ in2[i].kind = "subscribed" => in2[i].sub \notin DOMAIN a.bySub
          /\ in2[i].sub <= a.nextRequest
    <3> TAKE i \in DOMAIN in2
    <3>1. CASE in2[i] = g
      BY <3>1 DEF MayCome, Unused
    <3>2. CASE i \in DOMAIN in /\ in2[i] = in[i]
      BY <1>0, <3>2 DEF Ids, MayCome, Unused
    <3> QED
      BY <1>1, <3>1, <3>2
  <2>5. \A i, j \in DOMAIN in2 :
          in2[i].kind = "subscribed" /\ in2[j].kind = "subscribed" /\ in2[j].sub = in2[i].sub
            => i = j
    <3> SUFFICES ASSUME NEW i \in DOMAIN in2, NEW j \in DOMAIN in2, in2[i].kind = "subscribed",
                        in2[j].kind = "subscribed", in2[j].sub = in2[i].sub, i # j
                 PROVE  FALSE
      OBVIOUS
    <3>1. CASE i \in DOMAIN in /\ in2[i] = in[i] /\ j \in DOMAIN in /\ in2[j] = in[j]
      BY <1>0, <3>1 DEF Ids
    <3>2. CASE in2[i] = g /\ j \in DOMAIN in /\ in2[j] = in[j]
      BY <3>2 DEF MayCome, Unused
    <3>3. CASE in2[j] = g /\ i \in DOMAIN in /\ in2[i] = in[i]
      BY <3>3 DEF MayCome, Unused
    <3> QED
      BY <1>1, <3>1, <3>2, <3>3
  <2>6. \A k \in DOMAIN S2 : k <= a.nextRequest
    BY <1>0 DEF Ids, MayCome
  <2> QED
    BY <1>0, <2>2, <2>3, <2>4, <2>5, <2>6 DEF Ids
<1> QED
  BY <1>0, <1>2, <1>3 DEF Linked

\* Subscriptions that end are no longer to be heard of.
LEMMA HeardKept ==
  ASSUME NEW a, NEW in, NEW S, NEW K, Heard(a, in, S, K), NEW in2, NEW S2,
         SubscribedIn(in) \subseteq SubscribedIn(in2),
         \A k \in DOMAIN S2 : (k \in DOMAIN S /\ k \notin K) \/ k \in SubscribedIn(in2)
  PROVE  Heard(a, in2, S2, {})
BY DEF Heard

\* The server stands where it stood with every subscription that goes on.
Stands(S, S2) ==
  \A k \in DOMAIN S2 :
    /\ k \in DOMAIN S
    /\ S2[k].seq = S[k].seq /\ S2[k].boundary = S[k].boundary
    /\ S2[k].pos = S[k].pos /\ S2[k].stage = S[k].stage

\* A frame without a number moves no subscription.
LEMMA StandsTraced ==
  ASSUME NEW a, NEW in, NEW S, Traced(a, in, S), NEW g, g.seq = 0, g.kind # "subscribed",
         NEW in2, Grows(in, in2, g), NEW S2, Stands(S, S2)
  PROVE  Traced(a, in2, S2)
<1>1. /\ \A i \in DOMAIN in2 : in2[i] = g \/ (i \in DOMAIN in /\ in2[i] = in[i])
      /\ SubscribedIn(in2) \subseteq SubscribedIn(in)
  BY GrowsFrames
<1>2. ASSUME NEW k \in DOMAIN a.bySub \cup SubscribedIn(in2)
      PROVE  \E L, tr, b : Follow(a, in2, S2, k, L, tr, b)
  <2>1. PICK L, tr, b : Follow(a, in, S, k, L, tr, b)
    BY <1>1, <1>2 DEF Traced
  <2>2. \A i \in DOMAIN in2 : in2[i].sub = k /\ in2[i].seq # 0 =>
          in2[i].seq <= L /\ Legal(tr[in2[i].seq - 1], in2[i], tr[in2[i].seq], b)
    BY <1>1, <2>1 DEF Follow
  <2>3. k \in DOMAIN S2 => /\ L = S2[k].seq /\ b = S2[k].boundary
                           /\ tr[L].pos = S2[k].pos /\ tr[L].stage = S2[k].stage
    BY <2>1 DEF Follow, Stands
  <2>4. Follow(a, in2, S2, k, L, tr, b)
    BY <2>1, <2>2, <2>3 DEF Follow
  <2> QED
    BY <2>4
<1> QED
  BY <1>2 DEF Traced

\* The server's answer to a frame that opens nothing.
LEMMA AnswerLinked ==
  ASSUME NEW a, ActorOK(a), NEW in, NEW S, NEW f, NEW X, Linked(a, in, S, X, EndsWith(f)),
         Loose(a, in, S, f), NEW S2, EndsOK(in, S2), Stands(S, S2),
         \A k \in DOMAIN S2 : k \notin EndsWith(f),
         NEW kind \in {"refreshed", "forbidden", "cursorInvalid", "unknown", "unsubscribed"},
         NEW sub \in {None, f.sub},
         kind = "refreshed" => f.kind = "refresh",
         kind = "unknown" => f.kind # "subscribe" /\ sub = f.sub,
         kind \in {"unsubscribed", "unknown"} => sub \notin DOMAIN S2
  PROVE  Linked(a, Append(in, Frame(kind, sub, 0, f.id, None)), S2, X, {})
<1> DEFINE g == Frame(kind, sub, 0, f.id, None)
           in2 == Append(in, g)
<1>0. /\ Link(a) /\ Wire(a, in) /\ Heard(a, in, S, EndsWith(f)) /\ Traced(a, in, S)
  BY DEF Linked
<1>1. f.id \in Nat /\ f.sub \in Nat /\ None = 0 /\ a.nextRequest \in Nat
  BY DEF Loose, ClientFrames, None, ActorOK
<1>2. /\ g.kind = kind /\ g.sub = sub /\ g.seq = 0 /\ g.id = f.id /\ g \in Frames
  BY <1>1 DEF Frame, Frames, StreamKinds, None
<1> HIDE DEF g
<1>3. in2 \in Seq(Frames) /\ Grows(in, in2, g)
  BY <1>2, AppendGrows DEF EndsOK
<1> HIDE DEF in2
<1>4. EndsOK(in2, S2)
  BY <1>3 DEF EndsOK
<1>5. MayCome(a, in, S, S2, g)
  <2>1. /\ g.id <= a.nextRequest /\ g.sub <= a.nextRequest
        /\ g.kind = "refreshed" =>
             (g.id \in DOMAIN a.pending => a.pending[g.id].kind = "refresh")
        /\ g.kind = "unknown" /\ g.id # None => g.sub # None
    BY <1>1, <1>2 DEF Loose
  <2>2. g.kind # "subscribed" /\ g.kind \notin Numbered
    BY <1>2 DEF Numbered, StreamKinds
  <2>3. \A i \in DOMAIN a.out : a.out[i].kind = "subscribe" => a.out[i].id # g.sub
    BY <1>0, <1>1, <1>2 DEF Loose, Wire
  <2>4. \A t \in a.tasks : t.kind = "subscribe" /\ t.request \in DOMAIN a.pending =>
          t.request # g.sub
    BY <1>0, <1>1, <1>2 DEF Loose, Link, Owned
  <2>5. \A k \in DOMAIN S2 : k \in DOMAIN S
    BY DEF Stands
  <2> QED
    BY <1>2, <2>1, <2>2, <2>3, <2>4, <2>5 DEF MayCome
<1>6. Heard(a, in2, S2, {})
  <2>1. SubscribedIn(in) \subseteq SubscribedIn(in2)
    BY <1>3, GrowsFrames
  <2>2. \A k \in DOMAIN S2 : k \in DOMAIN S /\ k \notin EndsWith(f)
    BY DEF Stands
  <2> QED
    BY <1>0, <2>1, <2>2, HeardKept
<1>7. Traced(a, in2, S2)
  BY <1>0, <1>2, <1>3, StandsTraced
<1> QED
  BY <1>3, <1>4, <1>5, <1>6, <1>7, ComesLinked DEF g, in2

\* A subscription that the server opens.
LEMMA OpensTraced ==
  ASSUME NEW a, ActorOK(a), NEW in, NEW S, Traced(a, in, S), Link(a), Cursors(a),
         NEW k \in Nat, k # None, Unused(a, in, S, k), NEW v \in ServerSubs, v.seq = 0,
         v.stage \in {"begin", "resync", "units"}, v.stage = "units" => v.pos \in 1..MaxHistory,
         k \in DOMAIN a.pending => v.pos = a.subs[a.pending[k].account].cursor,
         NEW g, g.kind = "subscribed", g.sub = k, g.seq = 0,
         NEW in2, Grows(in, in2, g)
  PROVE  Traced(a, in2, With(S, k, v))
<1> DEFINE S2 == With(S, k, v)
<1>1. /\ \A i \in DOMAIN in2 : in2[i] = g \/ (i \in DOMAIN in /\ in2[i] = in[i])
      /\ SubscribedIn(in2) \subseteq SubscribedIn(in) \cup {k}
  BY GrowsFrames
<1>2. /\ DOMAIN S2 = DOMAIN S \cup {k} /\ S2[k] = v /\ \A x \in DOMAIN S : x # k => S2[x] = S[x]
  <2>1. DOMAIN S2 = DOMAIN S \cup {k}
    BY Zenon DEF With
  <2>2. S2[k] = v
    BY Zenon DEF With
  <2>3. \A x \in DOMAIN S : x # k => S2[x] = S[x]
    BY Zenon DEF With
  <2> QED
    BY <2>1, <2>2, <2>3
<1> HIDE DEF S2
<1>3. ASSUME NEW x \in DOMAIN a.bySub \cup SubscribedIn(in2), x # k
      PROVE  \E L, tr, b : Follow(a, in2, S2, x, L, tr, b)
  <2>1. PICK L, tr, b : Follow(a, in, S, x, L, tr, b)
    BY <1>1, <1>3 DEF Traced
  <2>2. \A i \in DOMAIN in2 : in2[i].sub = x /\ in2[i].seq # 0 =>
          in2[i].seq <= L /\ Legal(tr[in2[i].seq - 1], in2[i], tr[in2[i].seq], b)
    BY <1>1, <1>3, <2>1 DEF Follow
  <2>3. x \in DOMAIN S2 => /\ L = S2[x].seq /\ b = S2[x].boundary
                           /\ tr[L].pos = S2[x].pos /\ tr[L].stage = S2[x].stage
    BY <1>2, <1>3, <2>1 DEF Follow
  <2>4. Follow(a, in2, S2, x, L, tr, b)
    BY <2>1, <2>2, <2>3 DEF Follow
  <2> QED
    BY <2>4
<1>4. \E L, tr, b : Follow(a, in2, S2, k, L, tr, b)
  <2> DEFINE tr == [q \in 0..0 |-> v]
             b == v.boundary
  <2>1. b \in Nat /\ v.pos \in Nat
    BY DEF ServerSubs
  <2>2. tr[0] = v /\ \A q \in 0..0 : q = 0
    OBVIOUS
  <2> HIDE DEF tr
  <2>3. \A i \in DOMAIN in2 : ~(in2[i].sub = k /\ in2[i].seq # 0)
    BY <1>1 DEF Unused
  <2>4. \A x \in DOMAIN a.subs : a.subs[x].sub # k
    BY DEF Link, Listening, Unused
  <2>5. Follow(a, in2, S2, k, 0, tr, b)
    BY <1>2, <2>1, <2>2, <2>3, <2>4 DEF Follow
  <2> QED
    BY <2>5
<1> QED
  BY <1>3, <1>4 DEF Traced, S2

\* The server opens a subscription.
LEMMA OpensLinked ==
  ASSUME NEW a, ActorOK(a), NEW in, NEW S, NEW f, NEW X, Linked(a, in, S, X, EndsWith(f)),
         Loose(a, in, S, f), f.kind = "subscribe",
         NEW v \in ServerSubs, v.seq = 0, v.pos = f.cursor,
         v.stage \in {"begin", "resync", "units"}, v.stage = "units" => f.cursor # None
  PROVE  Linked(a, Append(in, Frame("subscribed", f.id, 0, f.id, None)), With(S, f.id, v), X, {})
<1> DEFINE k == f.id
           g == Frame("subscribed", k, 0, k, None)
           in2 == Append(in, g)
           S2 == With(S, k, v)
<1>0. /\ Link(a) /\ Wire(a, in) /\ Heard(a, in, S, {}) /\ Traced(a, in, S) /\ Cursors(a)
      /\ EndsOK(in, S)
  BY DEF Linked, EndsWith
<1>1. /\ k \in Nat /\ k # None /\ None = 0 /\ a.nextRequest \in Nat /\ k <= a.nextRequest
      /\ Unused(a, in, S, k)
      /\ k \in DOMAIN a.pending => /\ a.pending[k].kind = "subscribe"
                                   /\ f.cursor = a.subs[a.pending[k].account].cursor
      /\ \A i \in DOMAIN a.out : a.out[i].id # k
      /\ \A t \in a.tasks : t.kind = "subscribe" /\ t.request \in DOMAIN a.pending => t.request # k
      /\ f.cursor \in Nat /\ f.cursor <= MaxHistory
  BY DEF Loose, ClientFrames, None, ActorOK
<1> HIDE DEF k
<1>2. /\ g.kind = "subscribed" /\ g.sub = k /\ g.seq = 0 /\ g.id = k /\ g \in Frames
  BY <1>1 DEF Frame, Frames, StreamKinds, None
<1> HIDE DEF g
<1>3. in2 \in Seq(Frames) /\ Grows(in, in2, g) /\ \E i \in DOMAIN in2 : in2[i] = g
  BY <1>0, <1>2, AppendGrows DEF EndsOK
<1> HIDE DEF in2
<1>4. /\ DOMAIN S2 = DOMAIN S \cup {k} /\ IsMap(S2, DOMAIN S2)
      /\ \A x \in DOMAIN S2 : (x \in DOMAIN S /\ S2[x] = S[x]) \/ (x = k /\ S2[x] = v)
  <2>1. DOMAIN S2 = DOMAIN S \cup {k} /\ IsMap(S2, DOMAIN S2)
    BY Zenon DEF With, IsMap
  <2>2. \A x \in DOMAIN S2 : (x \in DOMAIN S /\ S2[x] = S[x]) \/ (x = k /\ S2[x] = v)
    BY <2>1, Zenon DEF With
  <2> QED
    BY <2>1, <2>2
<1>5. EndsOK(in2, S2)
  <2> HIDE DEF S2
  <2> QED
    BY <1>0, <1>1, <1>3, <1>4 DEF EndsOK
<1>6. Traced(a, in2, S2)
  <2>1. v.stage = "units" => v.pos \in 1..MaxHistory
    BY <1>1, PrivateOrdersAssumption
  <2>2. k \in DOMAIN a.pending => v.pos = a.subs[a.pending[k].account].cursor
    BY <1>1
  <2> QED
    BY <1>0, <1>1, <1>2, <1>3, <2>1, <2>2, OpensTraced
<1> HIDE DEF S2
<1>7. MayCome(a, in, S, S2, g)
  <2>1. g.kind \notin Numbered
    BY <1>2 DEF Numbered, StreamKinds
  <2> QED
    BY <1>1, <1>2, <1>4, <2>1 DEF MayCome
<1>8. Heard(a, in2, S2, {})
  <2>1. SubscribedIn(in) \subseteq SubscribedIn(in2)
    BY <1>3, GrowsFrames
  <2>2. k \in SubscribedIn(in2)
    BY <1>2, <1>3 DEF SubscribedIn
  <2>3. \A x \in DOMAIN S2 : (x \in DOMAIN S /\ x \notin {}) \/ x \in SubscribedIn(in2)
    BY <1>4, <2>2
  <2> QED
    BY <1>0, <2>1, <2>3, HeardKept
<1> QED
  BY <1>3, <1>5, <1>6, <1>7, <1>8, ComesLinked DEF g, in2, S2, k

\* The server does not run ahead of the accounts h.
Behind(S, h) ==
  \A k \in DOMAIN S :
    /\ S[k].stage # "resync" /\ S[k].stage # "begin" => S[k].pos \in 1..MaxHistory
    /\ S[k].stage \in {"page", "end"} => S[k].pos >= S[k].boundary
    /\ S[k].boundary <= h[S[k].account]

\* What the server keeps.
Served(a, in, S, A) ==
  /\ Fine(a, in, S, A, {}, {}) /\ Behind(S, history)
  /\ a.conn = None => in = <<>> /\ S = NoFunction

\* The server's answers.
LEMMA ServesLinked ==
  ASSUME NEW a, ActorOK(a), NEW in, NEW S, NEW f, NEW X, Linked(a, in, S, X, EndsWith(f)),
         Loose(a, in, S, f), Behind(S, history), history \in [Accounts -> 1..MaxHistory],
         inbox = in, server = S, Serves(f)
  PROVE  Linked(a, inbox', server', X, {}) /\ Behind(server', history)
<1>0. EndsOK(in, S) /\ Stands(S, S)
  BY DEF Linked, Stands
<1>1. f \in ClientFrames /\ f.id \in Nat /\ f.cursor \in Nat /\ f.cursor <= MaxHistory
      /\ f.sub \in Nat
  BY DEF Loose, ClientFrames
<1>2. ASSUME NEW stage \in {"begin", "units", "resync"}, f.kind = "subscribe",
             stage = "units" => f.cursor # None,
             inbox' = Append(in, Frame("subscribed", f.id, 0, f.id, None)),
             server' = With(S, f.id, [account |-> f.account, seq |-> 0, pos |-> f.cursor,
                                      stage |-> stage, boundary |-> history[f.account],
                                      ready |-> FALSE, warned |-> FALSE])
      PROVE  Linked(a, inbox', server', X, {}) /\ Behind(server', history)
  <2> DEFINE v == [account |-> f.account, seq |-> 0, pos |-> f.cursor,
                   stage |-> stage, boundary |-> history[f.account],
                   ready |-> FALSE, warned |-> FALSE]
  <2>1. f.account \in Accounts
    BY <1>2 DEF Loose
  <2>2. history[f.account] \in 1..MaxHistory
    BY <2>1
  <2>3. history[f.account] \in Nat
    BY <2>2
  <2>4. /\ v \in ServerSubs /\ v.seq = 0 /\ v.pos = f.cursor /\ v.stage = stage
        /\ v.boundary = history[f.account] /\ v.account = f.account
    BY <1>1, <2>1, <2>3 DEF ServerSubs
  <2>5. server' = With(S, f.id, v)
    BY <1>2
  <2> HIDE DEF v
  <2>6. Linked(a, inbox', server', X, {})
    BY <1>2, <2>4, <2>5, OpensLinked
  <2>7. \A k \in DOMAIN server' :
          (k \in DOMAIN S /\ server'[k] = S[k]) \/ (k = f.id /\ server'[k] = v)
    <3>1. DOMAIN With(S, f.id, v) = DOMAIN S \cup {f.id}
      BY Zenon DEF With
    <3> QED
      BY <2>5, <3>1, Zenon DEF With
  <2>8. /\ v.stage # "resync" /\ v.stage # "begin" => v.pos \in 1..MaxHistory
        /\ v.stage \notin {"page", "end"}
        /\ v.boundary <= history[v.account]
    BY <1>1, <1>2, <2>2, <2>4, PrivateOrdersAssumption DEF None
  <2>9. Behind(server', history)
    BY <2>7, <2>8 DEF Behind
  <2> QED
    BY <2>6, <2>9
<1>3. ASSUME NEW kind \in {"refreshed", "forbidden", "cursorInvalid", "unknown"},
             NEW sub \in {None, f.sub},
             kind = "refreshed" => f.kind = "refresh",
             kind = "unknown" => f.kind # "subscribe" /\ sub = f.sub /\ sub \notin DOMAIN S,
             f.kind = "unsubscribe" => kind = "unknown",
             inbox' = Append(in, Frame(kind, sub, 0, f.id, None)), server' = S
      PROVE  Linked(a, inbox', server', X, {}) /\ Behind(server', history)
  <2>1. \A k \in DOMAIN S : k \notin EndsWith(f)
    BY <1>3 DEF EndsWith
  <2>2. Linked(a, Append(in, Frame(kind, sub, 0, f.id, None)), S, X, {})
    BY <1>0, <1>3, <2>1, AnswerLinked
  <2> QED
    BY <1>3, <2>2
<1>4. ASSUME f.kind = "unsubscribe", f.sub \in DOMAIN S,
             inbox' = Append(in, Frame("unsubscribed", f.sub, 0, f.id, None)),
             server' = Without(S, {f.sub})
      PROVE  Linked(a, inbox', server', X, {}) /\ Behind(server', history)
  <2> DEFINE S2 == Without(S, {f.sub})
  <2>1. /\ IsMap(S2, DOMAIN S2) /\ DOMAIN S2 = DOMAIN S \ {f.sub}
        /\ \A k \in DOMAIN S \ {f.sub} : S2[k] = S[k]
    BY WithoutMap
  <2> HIDE DEF S2
  <2>2. EndsOK(in, S2) /\ Stands(S, S2) /\ f.sub \notin DOMAIN S2
        /\ \A k \in DOMAIN S2 : k \notin EndsWith(f)
    BY <1>0, <1>4, <2>1 DEF EndsOK, Stands, EndsWith
  <2>3. Linked(a, Append(in, Frame("unsubscribed", f.sub, 0, f.id, None)), S2, X, {})
    BY <2>2, AnswerLinked
  <2>4. Behind(S2, history)
    BY <2>1 DEF Behind
  <2> QED
    BY <1>4, <2>3, <2>4 DEF S2
<1> DEFINE Answers(kind, sub) == inbox' = Append(in, Frame(kind, sub, 0, f.id, None))
           opened(stage) == [account |-> f.account, seq |-> 0, pos |-> f.cursor, stage |-> stage,
                             boundary |-> history[f.account], ready |-> FALSE, warned |-> FALSE]
           OpensAs(stage) == Answers("subscribed", f.id) /\ server' = With(S, f.id, opened(stage))
<1>5. \/ f.kind = "subscribe" /\ OpensAs(IF f.cursor = None THEN "begin" ELSE "units")
      \/ f.kind = "subscribe" /\ OpensAs("resync")
      \/ f.kind = "subscribe" /\ Answers("cursorInvalid", None) /\ server' = S
      \/ f.kind = "subscribe" /\ Answers("forbidden", None) /\ server' = S
      \/ f.kind = "unsubscribe" /\ f.sub \in DOMAIN S
         /\ Answers("unsubscribed", f.sub) /\ server' = Without(S, {f.sub})
      \/ f.kind = "refresh" /\ Answers("refreshed", f.sub) /\ server' = S
      \/ f.kind = "refresh" /\ Answers("forbidden", f.sub) /\ server' = S
      \/ f.kind \in {"refresh", "unsubscribe"} /\ f.sub \notin DOMAIN S
         /\ Answers("unknown", f.sub) /\ server' = S
  BY Zenon DEF Serves
<1>6. CASE f.kind = "subscribe" /\ OpensAs(IF f.cursor = None THEN "begin" ELSE "units")
  <2>1. CASE f.cursor = None
    BY <1>2, <1>6, <2>1
  <2>2. CASE f.cursor # None
    BY <1>2, <1>6, <2>2
  <2> QED
    BY <2>1, <2>2
<1>7. CASE f.kind = "subscribe" /\ OpensAs("resync")
  BY <1>2, <1>7
<1>8. CASE f.kind = "subscribe" /\ Answers("cursorInvalid", None) /\ server' = S
  BY <1>3, <1>8
<1>9. CASE f.kind = "subscribe" /\ Answers("forbidden", None) /\ server' = S
  BY <1>3, <1>9
<1>10. CASE /\ f.kind = "unsubscribe" /\ f.sub \in DOMAIN S
            /\ Answers("unsubscribed", f.sub) /\ server' = Without(S, {f.sub})
  BY <1>4, <1>10
<1>11. CASE f.kind = "refresh" /\ Answers("refreshed", f.sub) /\ server' = S
  BY <1>3, <1>11
<1>12. CASE f.kind = "refresh" /\ Answers("forbidden", f.sub) /\ server' = S
  BY <1>3, <1>12
<1>13. CASE /\ f.kind \in {"refresh", "unsubscribe"} /\ f.sub \notin DOMAIN S
            /\ Answers("unknown", f.sub) /\ server' = S
  BY <1>3, <1>13
<1> QED
  BY <1>5, <1>6, <1>7, <1>8, <1>9, <1>10, <1>11, <1>12, <1>13

\* The server reads a frame.
LEMMA ReadsServed ==
  ASSUME IInv, ServerReads
  PROVE  Served(actor', inbox', server', commands')
<1> DEFINE f == Head(actor.out)
<1>1. /\ ActorOK(actor) /\ Linked(actor, inbox, server, {}, {}) /\ Crowd(actor, commands, {})
      /\ history \in [Accounts -> 1..MaxHistory] /\ SocketOK /\ Behind(server, history)
  BY DEF IInv, Fine, TypeOK, ServerOK, Behind
<1>2. /\ actor.out # <<>> /\ commands' = commands /\ Serves(f)
      /\ actor' = [actor EXCEPT !.out = Tail(actor.out)]
  BY Zenon DEF ServerReads
<1>3. SetField(actor, actor', "out", Tail(actor.out))
  <2>1. IsMap(actor, Fields)
    BY <1>1 DEF ActorOK
  <2> QED
    BY <1>2, <2>1, SetFields
<1>4. /\ ActorOK(actor') /\ Linked(actor', inbox, server, {}, EndsWith(f))
      /\ SameCrowd(actor, actor') /\ OutKeeps(actor, actor') /\ Loose(actor', inbox, server, f)
  BY <1>1, <1>2, <1>3, ReadLinked
<1> HIDE DEF f
<1>5. Linked(actor', inbox', server', {}, {}) /\ Behind(server', history)
  BY <1>1, <1>2, <1>4, ServesLinked
<1>6. Crowd(actor', commands', {})
  BY <1>1, <1>2, <1>4, CrowdKept
<1>7. actor'.conn # None
  BY <1>1, <1>2, <1>4 DEF Linked, Link, Disconnected, OutKeeps
<1> QED
  BY <1>4, <1>5, <1>6, <1>7 DEF Served, Fine

\* The frame g takes the server's subscription from v to w.
Moves(v, g, w, b) == g.kind # "subscribed" /\ (g.seq = 0 \/ (g.seq = w.seq /\ Legal(v, g, w, b)))
InPlace(w, b) ==
  /\ w.stage \in {"page", "end", "units"} => w.pos \in 1..MaxHistory
  /\ w.stage \in {"page", "end"} => w.pos >= b

\* Which frame the server may send next depends on the stage and the position alone.
LEMMA LegalSame ==
  ASSUME NEW u, NEW v, NEW g, NEW w, NEW b, u.stage = v.stage, u.pos = v.pos, Legal(v, g, w, b)
  PROVE  Legal(u, g, w, b)
BY DEF Legal

\* One frame of a subscription's stream, that comes or is lost.
LEMMA MovesTraced ==
  ASSUME NEW a, ActorOK(a), NEW in, NEW S, Traced(a, in, S), EndsOK(in, S), NEW k \in DOMAIN S,
         NEW w \in ServerSubs, w.seq = S[k].seq + 1, w.boundary = S[k].boundary,
         InPlace(w, w.boundary), NEW g, Moves(S[k], g, w, w.boundary), g.seq # 0 => g.sub = k,
         NEW in2, Grows(in, in2, g), NEW S2, DOMAIN S2 = DOMAIN S, S2[k] = w,
         \A x \in DOMAIN S : x # k => S2[x] = S[x]
  PROVE  Traced(a, in2, S2)
<1>1. /\ \A i \in DOMAIN in2 : in2[i] = g \/ (i \in DOMAIN in /\ in2[i] = in[i])
      /\ SubscribedIn(in2) \subseteq SubscribedIn(in)
  BY GrowsFrames DEF Moves
<1>2. InTypes(in) /\ S[k].seq \in Nat
  BY InboxTypes DEF EndsOK, ServerSubs
<1>3. ASSUME NEW x \in DOMAIN a.bySub \cup SubscribedIn(in2), x # k
      PROVE  \E L, tr, b : Follow(a, in2, S2, x, L, tr, b)
  <2>1. PICK L, tr, b : Follow(a, in, S, x, L, tr, b)
    BY <1>1, <1>3 DEF Traced
  <2>2. \A i \in DOMAIN in2 : in2[i].sub = x /\ in2[i].seq # 0 =>
          in2[i].seq <= L /\ Legal(tr[in2[i].seq - 1], in2[i], tr[in2[i].seq], b)
    BY <1>1, <1>3, <2>1 DEF Follow
  <2>3. x \in DOMAIN S2 => /\ L = S2[x].seq /\ b = S2[x].boundary
                           /\ tr[L].pos = S2[x].pos /\ tr[L].stage = S2[x].stage
    BY <1>3, <2>1 DEF Follow
  <2>4. Follow(a, in2, S2, x, L, tr, b)
    BY <2>1, <2>2, <2>3 DEF Follow
  <2> QED
    BY <2>4
<1>4. ASSUME k \in DOMAIN a.bySub \cup SubscribedIn(in2)
      PROVE  \E L, tr, b : Follow(a, in2, S2, k, L, tr, b)
  <2>1. PICK L, tr, b : Follow(a, in, S, k, L, tr, b)
    BY <1>1, <1>4 DEF Traced
  <2>2. /\ L = S[k].seq /\ b = w.boundary /\ L \in Nat /\ b \in Nat
        /\ tr[L].pos = S[k].pos /\ tr[L].stage = S[k].stage
    BY <2>1 DEF Follow
  <2> DEFINE M == L + 1
             new == [n \in 0..M |-> IF n = M THEN w ELSE tr[n]]
  <2>3. /\ M \in Nat /\ new[M] = w /\ 0 \in 0..L /\ L \in 0..L
        /\ \A q \in 0..L : new[q] = tr[q] /\ q # M
        /\ \A q \in 0..M : q = M \/ q \in 0..L
    BY <2>2
  <2> HIDE DEF new
  <2>4. \A i \in DOMAIN in2 : in2[i].sub = k /\ in2[i].seq # 0 =>
          in2[i].seq <= M /\ Legal(new[in2[i].seq - 1], in2[i], new[in2[i].seq], b)
    <3> SUFFICES ASSUME NEW i \in DOMAIN in2, in2[i].sub = k, in2[i].seq # 0
                 PROVE  in2[i].seq <= M /\ Legal(new[in2[i].seq - 1], in2[i], new[in2[i].seq], b)
      OBVIOUS
    <3>1. CASE i \in DOMAIN in /\ in2[i] = in[i]
      <4>1. /\ in[i].seq <= L /\ Legal(tr[in[i].seq - 1], in[i], tr[in[i].seq], b)
            /\ in[i].seq \in Nat
        BY <1>2, <2>1, <3>1 DEF Follow, InTypes
      <4>2. in[i].seq \in 0..L /\ in[i].seq - 1 \in 0..L /\ in[i].seq <= M
        BY <2>2, <3>1, <4>1
      <4>3. new[in[i].seq] = tr[in[i].seq] /\ new[in[i].seq - 1] = tr[in[i].seq - 1]
        BY <2>3, <4>2
      <4> QED
        BY <3>1, <4>1, <4>2, <4>3
    <3>2. CASE in2[i] = g
      <4>1. g.seq = M /\ Legal(S[k], g, w, b)
        BY <2>2, <3>2 DEF Moves
      <4>2. M - 1 = L
        BY <2>2
      <4>3. new[M - 1].stage = S[k].stage /\ new[M - 1].pos = S[k].pos
        BY <2>2, <2>3, <4>2
      <4>4. Legal(new[M - 1], g, w, b)
        BY <4>1, <4>3, LegalSame
      <4> QED
        BY <2>3, <3>2, <4>1, <4>4
    <3> QED
      BY <1>1, <3>1, <3>2
  <2>5. /\ \A q \in 0..M : new[q].stage \in {"page", "end", "units"} => new[q].pos \in 1..MaxHistory
        /\ \A q \in 0..M : new[q].stage \in {"page", "end"} => new[q].pos >= b
    BY <2>1, <2>2, <2>3 DEF InPlace, Follow
  <2>6. \A x \in DOMAIN a.subs : a.subs[x].sub = k =>
          /\ a.subs[x].seq <= M /\ Follows(a.subs[x], new[a.subs[x].seq])
          /\ a.subs[x].ready => a.subs[x].orders >= b
    <3> SUFFICES ASSUME NEW x \in DOMAIN a.subs, a.subs[x].sub = k
                 PROVE  /\ a.subs[x].seq <= M /\ Follows(a.subs[x], new[a.subs[x].seq])
                        /\ a.subs[x].ready => a.subs[x].orders >= b
      OBVIOUS
    <3>1. /\ a.subs[x].seq <= L /\ Follows(a.subs[x], tr[a.subs[x].seq])
          /\ a.subs[x].ready => a.subs[x].orders >= b
      BY <2>1 DEF Follow
    <3>2. a.subs[x].seq \in 0..L
      <4>1. a.subs[x].seq \in Nat
        BY DEF ActorOK, SubsOK, IsSub
      <4> QED
        BY <2>2, <3>1, <4>1
    <3> QED
      BY <2>2, <2>3, <3>1, <3>2
  <2>7. k \in DOMAIN a.pending /\ a.pending[k].kind = "subscribe" =>
          \/ new[0].stage \in {"resync", "begin"}
          \/ new[0].stage = "units" /\ new[0].pos = a.subs[a.pending[k].account].cursor
    BY <2>1, <2>2, <2>3 DEF Follow
  <2>8. Follow(a, in2, S2, k, M, new, b)
    BY <2>2, <2>3, <2>4, <2>5, <2>6, <2>7 DEF Follow
  <2> QED
    BY <2>8
<1> QED
  BY <1>3, <1>4 DEF Traced

\* What is sent next on a subscription.
Advanced(w) == [w EXCEPT !.seq = w.seq + 1]

\* A step of the server's stream changes one subscription and sends one frame at most.
LEMMA StreamsIs ==
  ASSUME NEW sub, NEW kind, NEW w, Streams(sub, kind, w)
  PROVE  /\ server' = [server EXCEPT ![sub] = Advanced(w)]
         /\ actor' = actor /\ commands' = commands /\ history' = history
<1>1. server' = [server EXCEPT ![sub] = Advanced(w)]
  BY Zenon DEF Streams, Advanced
<1> QED
  BY <1>1 DEF Streams

\* The next sequence number is one more; the rest of the subscription stays.
LEMMA NextIs ==
  ASSUME NEW w \in ServerSubs
  PROVE  /\ Advanced(w) \in ServerSubs /\ Advanced(w).seq = w.seq + 1 /\ Advanced(w).pos = w.pos
         /\ Advanced(w).stage = w.stage /\ Advanced(w).boundary = w.boundary
         /\ Advanced(w).account = w.account
BY DEF Advanced, ServerSubs

\* A frame of the stream that the server may send.
MayStream(v, kind, w) ==
  /\ w \in ServerSubs /\ w.seq = v.seq /\ w.boundary = v.boundary /\ w.account = v.account
  /\ InPlace(w, w.boundary) /\ w.stage # "resync"
  /\ \A sub \in Nat : Legal(v, Frame(kind, sub, w.seq + 1, None, w.pos), w, w.boundary)

\* A numbered frame that the server sends, that was garbled or that got lost keeps the client's
\* side of the invariant.
LEMMA StreamServed ==
  ASSUME IInv, NEW sub \in DOMAIN server, NEW kind \in Numbered, NEW w,
         MayStream(server[sub], kind, w), NEW g \in Frames, Streams(sub, kind, w),
         \/ g = Frame(kind, sub, w.seq + 1, None, w.pos)
         \/ g = Frame("garbled", None, 0, None, None),
         inbox' \in {inbox, Append(inbox, g)}
  PROVE  Served(actor', inbox', server', commands')
<1> DEFINE v == server[sub]
           w2 == Advanced(w)
<1>1. /\ ActorOK(actor) /\ Linked(actor, inbox, server, {}, {}) /\ Crowd(actor, commands, {})
      /\ SocketOK /\ Behind(server, history) /\ EndsOK(inbox, server)
  BY DEF IInv, Fine, TypeOK, ServerOK, Behind
<1>2. /\ server' = [server EXCEPT ![sub] = w2]
      /\ actor' = actor /\ commands' = commands /\ history' = history
  BY StreamsIs
<1>3. v \in ServerSubs /\ sub \in Nat /\ w \in ServerSubs /\ w.seq = v.seq /\ w.boundary = v.boundary
      /\ w.account = v.account /\ v.seq \in Nat
  BY <1>1 DEF EndsOK, MayStream, ServerSubs
<1>4. /\ w2 \in ServerSubs /\ w2.seq = w.seq + 1 /\ w2.pos = w.pos /\ w2.stage = w.stage
      /\ w2.boundary = w.boundary /\ w2.account = w.account
  BY <1>3, NextIs
<1> HIDE DEF w2
<1>5. /\ IsMap(server', DOMAIN server') /\ DOMAIN server' = DOMAIN server /\ server'[sub] = w2
      /\ \A x \in DOMAIN server : x # sub => server'[x] = server[x]
  <2>1. IsMap(server, DOMAIN server)
    BY <1>1 DEF EndsOK
  <2> QED
    BY <1>2, <2>1, Zenon DEF IsMap
<1>6. /\ g.kind \in {kind, "garbled"} /\ g.sub \in {sub, None} /\ g.id = None
      /\ g.kind \in Numbered => g.seq # 0
      /\ g.seq = 0 \/ (g.seq = w2.seq /\ g.sub = sub /\ g = Frame(kind, sub, w.seq + 1, None, w.pos))
  BY <1>3, <1>4 DEF Frame, None, Numbered, StreamKinds
<1>7. Grows(inbox, inbox', g) /\ inbox' \in Seq(Frames)
  <2>1. inbox \in Seq(Frames)
    BY <1>1 DEF EndsOK
  <2>2. CASE inbox' = inbox
    BY <2>1, <2>2 DEF Grows
  <2>3. CASE inbox' = Append(inbox, g)
    BY <2>1, <2>3, AppendGrows
  <2> QED
    BY <2>2, <2>3
<1>8. EndsOK(inbox', server')
  BY <1>1, <1>4, <1>5, <1>7 DEF EndsOK
<1>9. kind \notin {"subscribed", "refreshed", "unknown", "unsubscribed", "garbled"}
  BY DEF Numbered, StreamKinds
<1>10. MayCome(actor, inbox, server, server', g)
  <2>0. /\ Wire(actor, inbox) /\ Ids(actor, inbox, server) /\ Link(actor)
        /\ actor.nextRequest \in Nat
    BY <1>1 DEF Linked, ActorOK
  <2>1. g.id <= actor.nextRequest /\ g.sub <= actor.nextRequest
    BY <1>6, <2>0 DEF Ids, None
  <2>2. \A i \in DOMAIN actor.out : actor.out[i].kind = "subscribe" => actor.out[i].id # g.sub
    BY <1>6, <2>0 DEF Ids, Unused, Wire, None
  <2>3. \A t \in actor.tasks : t.kind = "subscribe" /\ t.request \in DOMAIN actor.pending =>
          t.request # g.sub
    BY <1>6, <2>0 DEF Ids, Unused, Link, Owned, None
  <2> QED
    BY <1>5, <1>6, <1>9, <2>1, <2>2, <2>3 DEF MayCome
<1>11. Heard(actor, inbox', server', {})
  <2>1. SubscribedIn(inbox) \subseteq SubscribedIn(inbox')
    BY <1>7, GrowsFrames
  <2>2. Heard(actor, inbox, server, {})
    BY <1>1 DEF Linked
  <2>3. \A k \in DOMAIN server' : (k \in DOMAIN server /\ k \notin {}) \/ k \in SubscribedIn(inbox')
    BY <1>5
  <2> QED
    BY <2>1, <2>2, <2>3, HeardKept
<1>12. Traced(actor, inbox', server')
  <2>1. Traced(actor, inbox, server)
    BY <1>1 DEF Linked
  <2>2. InPlace(w2, w2.boundary)
    BY <1>4 DEF MayStream, InPlace
  <2>3. \A u : Legal(v, u, w, w.boundary) => Legal(v, u, w2, w2.boundary)
    BY <1>4 DEF Legal
  <2>4. Legal(v, Frame(kind, sub, w.seq + 1, None, w.pos), w, w.boundary)
    BY <1>3 DEF MayStream
  <2>5. Moves(v, g, w2, w2.boundary)
    BY <1>6, <1>9, <2>3, <2>4 DEF Moves
  <2>6. w2.seq = v.seq + 1 /\ w2.boundary = v.boundary
    BY <1>3, <1>4
  <2> QED
    BY <1>1, <1>4, <1>5, <1>6, <1>7, <2>1, <2>2, <2>5, <2>6, MovesTraced
<1>13. Linked(actor, inbox', server', {}, {})
  BY <1>1, <1>7, <1>8, <1>10, <1>11, <1>12, ComesLinked
<1>14. Behind(server', history)
  <2>1. /\ w2.stage # "resync" /\ w2.stage # "begin" => w2.pos \in 1..MaxHistory
        /\ w2.stage \in {"page", "end"} => w2.pos >= w2.boundary
    BY <1>4 DEF MayStream, InPlace, ServerSubs
  <2>2. w2.boundary <= history[w2.account]
    BY <1>1, <1>3, <1>4 DEF Behind
  <2> QED
    BY <1>1, <1>5, <2>1, <2>2 DEF Behind
<1>15. actor.conn # None
  BY <1>1, NoMap DEF SocketOK
<1> QED
  BY <1>1, <1>2, <1>13, <1>14, <1>15 DEF Served, Fine

\* What a step of a subscription's stream leaves alone, and where it stands.
Stepped(v, w, stage, pos) ==
  /\ w \in ServerSubs /\ w.account = v.account /\ w.seq = v.seq /\ w.boundary = v.boundary
  /\ w.stage = stage /\ w.pos = pos

\* The changes a server step makes to its subscription besides the number.
LEMMA SteppedIs ==
  ASSUME NEW v \in ServerSubs, NEW stage \in {"resync", "begin", "page", "end", "units"},
         NEW pos \in Nat
  PROVE  /\ Stepped(v, v, v.stage, v.pos)
         /\ Stepped(v, [v EXCEPT !.stage = stage], stage, v.pos)
         /\ Stepped(v, [v EXCEPT !.stage = stage, !.pos = pos], stage, pos)
         /\ Stepped(v, [v EXCEPT !.pos = pos], v.stage, pos)
         /\ Stepped(v, [v EXCEPT !.ready = TRUE], v.stage, v.pos)
<1>1. Stepped(v, v, v.stage, v.pos)
  BY DEF Stepped, ServerSubs
<1>2. Stepped(v, [v EXCEPT !.stage = stage], stage, v.pos)
  BY DEF Stepped, ServerSubs
<1>3. Stepped(v, [v EXCEPT !.stage = stage, !.pos = pos], stage, pos)
  BY DEF Stepped, ServerSubs
<1>4. Stepped(v, [v EXCEPT !.pos = pos], v.stage, pos)
  BY DEF Stepped, ServerSubs
<1>5. Stepped(v, [v EXCEPT !.ready = TRUE], v.stage, v.pos)
  BY DEF Stepped, ServerSubs
<1> QED
  BY <1>1, <1>2, <1>3, <1>4, <1>5

\* The frames of a stream that are legal.
LEMMA SteppedSent ==
  ASSUME NEW v \in ServerSubs, NEW w, NEW stage, NEW pos, Stepped(v, w, stage, pos),
         NEW kind,
         v.stage # "resync" /\ v.stage # "begin" => v.pos \in 1..MaxHistory,
         v.stage \in {"page", "end"} => v.pos >= v.boundary,
         \/ kind = "resync" /\ stage = "begin"
         \/ kind = "begin" /\ stage = "page" /\ pos >= v.boundary /\ pos \in 1..MaxHistory
         \/ kind = "page" /\ v.stage = "page" /\ stage = "end" /\ pos = v.pos
         \/ kind \in {"end", "badEnd"} /\ v.stage = "end" /\ stage = "units" /\ pos = v.pos
         \/ /\ kind = "unit" /\ v.stage = "units" /\ stage = "units" /\ pos = v.pos + 1
            /\ pos \in 1..MaxHistory
         \/ /\ kind = "ready" /\ v.stage = "units" /\ stage = "units" /\ pos = v.pos
            /\ v.pos >= v.boundary
         \/ /\ kind \in {"covered", "unavailable", "available"}
            /\ v.stage = "units" /\ stage = "units" /\ pos = v.pos
  PROVE  MayStream(v, kind, w)
<1>1. /\ w \in ServerSubs /\ w.seq = v.seq /\ w.boundary = v.boundary /\ w.account = v.account
      /\ w.stage = stage /\ w.pos = pos
  BY DEF Stepped
<1>2. InPlace(w, w.boundary) /\ w.stage # "resync"
  BY <1>1 DEF InPlace
<1>3. ASSUME NEW sub \in Nat
      PROVE  Legal(v, Frame(kind, sub, w.seq + 1, None, w.pos), w, w.boundary)
  <2> DEFINE g == Frame(kind, sub, w.seq + 1, None, w.pos)
  <2>1. g.kind = kind /\ g.n = w.pos
    BY DEF Frame
  <2> HIDE DEF g
  <2>2. Legal(v, g, w, w.boundary)
    BY <1>1, <2>1 DEF Legal
  <2> QED
    BY <2>2 DEF g
<1> QED
  BY <1>1, <1>2, <1>3 DEF MayStream

\* What the server sends next.
LEMMA NextFrameIs ==
  ASSUME IInv, NEW sub \in DOMAIN server, NEW n \in NextFrame(sub)
  PROVE  /\ n[1] \in Numbered /\ MayStream(server[sub], n[1], n[2])
         /\ n[1] = "end" => MayStream(server[sub], "badEnd", n[2])
<1> DEFINE v == server[sub]
           now == history[v.account]
<1>1. /\ v \in ServerSubs /\ history \in [Accounts -> 1..MaxHistory]
      /\ v.stage # "resync" /\ v.stage # "begin" => v.pos \in 1..MaxHistory
      /\ v.stage \in {"page", "end"} => v.pos >= v.boundary
      /\ v.boundary <= now
  BY DEF IInv, TypeOK, EndsOK, ServerOK
<1>2. v.account \in Accounts /\ v.pos \in Nat
      /\ v.stage \in {"resync", "begin", "page", "end", "units"}
  BY <1>1 DEF ServerSubs
<1>3. now \in 1..MaxHistory
  BY <1>1, <1>2
<1>4. now \in Nat
  BY <1>3
<1>5. NextFrame(sub) =
        CASE v.stage = "resync" -> {<<"resync", [v EXCEPT !.stage = "begin"]>>}
          [] v.stage = "begin" -> {<<"begin", [v EXCEPT !.stage = "page", !.pos = now]>>}
          [] v.stage = "page"  -> {<<"page", [v EXCEPT !.stage = "end"]>>}
          [] v.stage = "end"   -> {<<"end", [v EXCEPT !.stage = "units"]>>}
          [] v.stage = "units" ->
               (IF v.pos < now THEN {<<"unit", [v EXCEPT !.pos = v.pos + 1]>>} ELSE {})
               \cup (IF ~v.ready /\ v.pos >= v.boundary
                     THEN {<<"ready", [v EXCEPT !.ready = TRUE]>>} ELSE {})
  BY Zenon DEF NextFrame
<1> HIDE DEF v, now
<1>6. {"resync", "begin", "page", "end", "unit", "ready"} \subseteq Numbered
  BY DEF Numbered, StreamKinds
<1>7. CASE v.stage = "resync"
  <2>1. n[1] = "resync" /\ n[2] = [v EXCEPT !.stage = "begin"]
    BY <1>5, <1>7
  <2>2. Stepped(v, n[2], "begin", v.pos)
    BY <1>1, <1>2, <2>1, SteppedIs
  <2>3. MayStream(v, n[1], n[2])
    BY <1>1, <2>1, <2>2, SteppedSent
  <2> QED
    BY <1>6, <2>1, <2>3 DEF v
<1>8. CASE v.stage = "begin"
  <2>1. n[1] = "begin" /\ n[2] = [v EXCEPT !.stage = "page", !.pos = now]
    BY <1>5, <1>8
  <2>2. Stepped(v, n[2], "page", now)
    <3>1. Stepped(v, [v EXCEPT !.stage = "page", !.pos = now], "page", now)
      BY <1>1, <1>4, SteppedIs, Zenon
    <3> QED
      BY <2>1, <3>1
  <2>3. MayStream(v, n[1], n[2])
    <3>1. now >= v.boundary /\ now \in 1..MaxHistory
      BY <1>1, <1>3, <1>4 DEF ServerSubs
    <3> QED
      BY <1>1, <2>1, <2>2, <3>1, SteppedSent
  <2> QED
    BY <1>6, <2>1, <2>3 DEF v
<1>9. CASE v.stage = "page"
  <2>1. n[1] = "page" /\ n[2] = [v EXCEPT !.stage = "end"]
    BY <1>5, <1>9
  <2>2. Stepped(v, n[2], "end", v.pos)
    BY <1>1, <1>2, <2>1, SteppedIs
  <2>3. MayStream(v, n[1], n[2])
    BY <1>1, <1>9, <2>1, <2>2, SteppedSent
  <2> QED
    BY <1>6, <2>1, <2>3 DEF v
<1>10. CASE v.stage = "end"
  <2>1. n[1] = "end" /\ n[2] = [v EXCEPT !.stage = "units"]
    BY <1>5, <1>10
  <2>2. Stepped(v, n[2], "units", v.pos)
    BY <1>1, <1>2, <2>1, SteppedIs
  <2>3. MayStream(v, n[1], n[2]) /\ MayStream(v, "badEnd", n[2])
    BY <1>1, <1>10, <2>1, <2>2, SteppedSent
  <2> QED
    BY <1>6, <2>1, <2>3 DEF v
<1>11. CASE v.stage = "units"
  <2>1. \/ n = <<"unit", [v EXCEPT !.pos = v.pos + 1]>> /\ v.pos < now
        \/ n = <<"ready", [v EXCEPT !.ready = TRUE]>> /\ v.pos >= v.boundary
    BY <1>5, <1>11
  <2>2. CASE n = <<"unit", [v EXCEPT !.pos = v.pos + 1]>> /\ v.pos < now
    <3>1. n[1] = "unit" /\ n[2] = [v EXCEPT !.pos = v.pos + 1]
      BY <2>2
    <3>2. v.pos + 1 \in Nat /\ v.pos + 1 \in 1..MaxHistory
      BY <1>2, <1>3, <1>4, <2>2, PrivateOrdersAssumption
    <3>3. Stepped(v, n[2], v.stage, v.pos + 1)
      BY <1>1, <3>1, <3>2, SteppedIs
    <3>4. MayStream(v, n[1], n[2])
      BY <1>1, <1>11, <3>1, <3>2, <3>3, SteppedSent
    <3> QED
      BY <1>6, <3>1, <3>4 DEF v
  <2>3. CASE n = <<"ready", [v EXCEPT !.ready = TRUE]>> /\ v.pos >= v.boundary
    <3>1. n[1] = "ready" /\ n[2] = [v EXCEPT !.ready = TRUE]
      BY <2>3
    <3>2. Stepped(v, n[2], v.stage, v.pos)
      BY <1>1, <3>1, SteppedIs
    <3>3. MayStream(v, n[1], n[2])
      BY <1>1, <1>11, <2>3, <3>1, <3>2, SteppedSent
    <3> QED
      BY <1>6, <3>1, <3>3 DEF v
  <2> QED
    BY <2>1, <2>2, <2>3
<1> QED
  BY <1>2, <1>7, <1>8, <1>9, <1>10, <1>11

\* The frames are of their types.
LEMMA FrameIs ==
  ASSUME NEW kind \in StreamKinds \cup {"garbled", "tokenExpiring", "unknown", "forbidden"},
         NEW sub \in Nat, NEW seq \in Nat, NEW n \in Nat
  PROVE  Frame(kind, sub, seq, None, n) \in Frames
BY DEF Frame, Frames, None

\* The server goes on with a subscription.
LEMMA StreamsServed ==
  ASSUME IInv, ServerStreams
  PROVE  Served(actor', inbox', server', commands')
<1>0. PICK sub \in DOMAIN server : \E n \in NextFrame(sub) :
        \/ Arrives(sub, n[1], n[2])
        \/ Spoiled(sub, n[1], n[2])
        \/ n[1] = "end" /\ Arrives(sub, "badEnd", n[2])
  BY DEF ServerStreams
<1>1. PICK n \in NextFrame(sub) :
        \/ Arrives(sub, n[1], n[2])
        \/ Spoiled(sub, n[1], n[2])
        \/ n[1] = "end" /\ Arrives(sub, "badEnd", n[2])
  BY <1>0
<1>2. /\ n[1] \in Numbered /\ MayStream(server[sub], n[1], n[2])
      /\ n[1] = "end" => MayStream(server[sub], "badEnd", n[2])
  BY NextFrameIs
<1>3. sub \in Nat /\ n[2].seq \in Nat /\ n[2].pos \in Nat /\ Numbered \subseteq StreamKinds
      /\ "badEnd" \in Numbered
  BY <1>2 DEF IInv, TypeOK, EndsOK, MayStream, ServerSubs, Numbered, StreamKinds
<1> DEFINE kind == n[1]
           w == n[2]
<1> HIDE DEF kind, w
<1>4. kind \in Numbered /\ MayStream(server[sub], kind, w) /\ w.seq + 1 \in Nat /\ w.pos \in Nat
  BY <1>2, <1>3 DEF kind, w
<1>5. CASE Arrives(sub, n[1], n[2])
  <2>1. /\ Streams(sub, kind, w)
        /\ inbox' = Append(inbox, Frame(kind, sub, w.seq + 1, None, w.pos))
    BY <1>5 DEF Arrives, kind, w
  <2>2. Frame(kind, sub, w.seq + 1, None, w.pos) \in Frames
    BY <1>3, <1>4, FrameIs
  <2> QED
    BY <1>4, <2>1, <2>2, StreamServed
<1>6. CASE Spoiled(sub, n[1], n[2])
  <2>1. /\ Streams(sub, kind, w)
        /\ inbox' \in {inbox, Append(inbox, Frame("garbled", None, 0, None, None))}
    BY <1>6 DEF Spoiled, kind, w
  <2>2. Frame("garbled", None, 0, None, None) \in Frames
    BY FrameIs DEF None
  <2> QED
    BY <1>4, <2>1, <2>2, StreamServed
<1>7. CASE n[1] = "end" /\ Arrives(sub, "badEnd", n[2])
  <2>1. /\ Streams(sub, "badEnd", w) /\ MayStream(server[sub], "badEnd", w)
        /\ inbox' = Append(inbox, Frame("badEnd", sub, w.seq + 1, None, w.pos))
    BY <1>2, <1>7 DEF Arrives, w
  <2>2. Frame("badEnd", sub, w.seq + 1, None, w.pos) \in Frames
    BY <1>3, <1>4, FrameIs
  <2> QED
    BY <1>3, <2>1, <2>2, StreamServed
<1> QED
  BY <1>1, <1>5, <1>6, <1>7

\* A frame that moves no subscription.
LEMMA NoticeServed ==
  ASSUME IInv, actor.conn # None, actor' = actor, commands' = commands,
         EndsOK(inbox, server'), Stands(server, server'),
         \A k \in DOMAIN server' : server'[k].account = server[k].account,
         NEW kind \in {"expiring", "unsubscribed", "unknown", "forbidden", "tokenExpiring"},
         NEW sub \in DOMAIN server \cup {None},
         kind \in {"unsubscribed", "unknown"} => sub \notin DOMAIN server',
         inbox' = Append(inbox, Frame(kind, sub, 0, None, None))
  PROVE  Served(actor', inbox', server', commands')
<1> DEFINE g == Frame(kind, sub, 0, None, None)
<1>1. /\ ActorOK(actor) /\ Linked(actor, inbox, server, {}, {}) /\ Crowd(actor, commands, {})
      /\ Behind(server, history) /\ EndsOK(inbox, server)
  BY DEF IInv, Fine, TypeOK, ServerOK, Behind
<1>2. sub \in Nat
  BY <1>1 DEF EndsOK, None
<1>3. /\ g.kind = kind /\ g.sub = sub /\ g.seq = 0 /\ g.id = None
      /\ kind \notin Numbered
      /\ kind \in StreamKinds \cup {"garbled", "tokenExpiring", "unknown", "forbidden"}
  BY DEF Frame, Numbered, StreamKinds
<1>4. g \in Frames
  BY <1>2, <1>3, FrameIs DEF None
<1> HIDE DEF g
<1>5. inbox' = Append(inbox, g) /\ inbox \in Seq(Frames)
  BY <1>1 DEF g, EndsOK
<1>6. inbox' \in Seq(Frames) /\ Grows(inbox, inbox', g)
  BY <1>4, <1>5, AppendGrows
<1>7. EndsOK(inbox', server')
  BY <1>6 DEF EndsOK
<1>8. MayCome(actor, inbox, server, server', g)
  <2>0. /\ Wire(actor, inbox) /\ Ids(actor, inbox, server) /\ Link(actor)
        /\ actor.nextRequest \in Nat /\ None = 0
    BY <1>1 DEF Linked, ActorOK, None
  <2>1. g.id <= actor.nextRequest /\ g.sub <= actor.nextRequest
    BY <1>3, <2>0 DEF Ids
  <2>2. \A i \in DOMAIN actor.out : actor.out[i].kind = "subscribe" => actor.out[i].id # g.sub
    BY <1>3, <2>0 DEF Ids, Unused, Wire
  <2>3. \A t \in actor.tasks : t.kind = "subscribe" /\ t.request \in DOMAIN actor.pending =>
          t.request # g.sub
    BY <1>3, <2>0 DEF Ids, Unused, Link, Owned
  <2>4. \A k \in DOMAIN server' : k \in DOMAIN server
    BY DEF Stands
  <2> QED
    BY <1>3, <1>4, <2>1, <2>2, <2>3, <2>4 DEF MayCome
<1>9. Heard(actor, inbox', server', {})
  <2>1. SubscribedIn(inbox) \subseteq SubscribedIn(inbox')
    BY <1>6, GrowsFrames
  <2>2. Heard(actor, inbox, server, {})
    BY <1>1 DEF Linked
  <2>3. \A k \in DOMAIN server' : (k \in DOMAIN server /\ k \notin {}) \/ k \in SubscribedIn(inbox')
    BY DEF Stands
  <2> QED
    BY <2>1, <2>2, <2>3, HeardKept
<1>10. Traced(actor, inbox', server')
  <2>1. Traced(actor, inbox, server)
    BY <1>1 DEF Linked
  <2> QED
    BY <1>3, <1>6, <2>1, StandsTraced
<1>11. Linked(actor, inbox', server', {}, {})
  BY <1>1, <1>6, <1>7, <1>8, <1>9, <1>10, ComesLinked
<1>12. Behind(server', history)
  BY <1>1 DEF Behind, Stands
<1> QED
  BY <1>1, <1>11, <1>12 DEF Served, Fine

\* What the server may say at any time.
LEMMA NoticesServed ==
  ASSUME IInv, ServerNotice
  PROVE  Served(actor', inbox', server', commands')
<1>1. /\ EndsOK(inbox, server) /\ SocketOK /\ DOMAIN NoFunction = {}
      /\ \A k \in DOMAIN server : server[k] \in ServerSubs
  BY NoMap DEF IInv, TypeOK, EndsOK
<1>2. ASSUME NEW sub \in DOMAIN server, server[sub].stage = "units",
             NEW kind \in {"covered", "unavailable", "available"},
             Arrives(sub, kind, server[sub])
      PROVE  Served(actor', inbox', server', commands')
  <2> DEFINE v == server[sub]
  <2>1. v \in ServerSubs /\ v.stage = "units" /\ sub \in Nat /\ v.seq + 1 \in Nat /\ v.pos \in Nat
    BY <1>1, <1>2 DEF EndsOK, ServerSubs
  <2>2. v.pos \in 1..MaxHistory
    BY <1>2 DEF IInv, ServerOK
  <2>3. /\ Streams(sub, kind, v)
        /\ inbox' = Append(inbox, Frame(kind, sub, v.seq + 1, None, v.pos))
    BY <1>2 DEF Arrives
  <2> HIDE DEF v
  <2>4. Stepped(v, v, v.stage, v.pos)
    BY <2>1, SteppedIs
  <2>5. MayStream(v, kind, v)
    BY <2>1, <2>2, <2>4, SteppedSent
  <2>6. kind \in Numbered /\ kind \in StreamKinds
    BY DEF Numbered, StreamKinds
  <2>7. Frame(kind, sub, v.seq + 1, None, v.pos) \in Frames
    BY <2>1, <2>6, FrameIs
  <2> QED
    BY <2>3, <2>5, <2>6, <2>7, StreamServed DEF v
<1>3. ASSUME NEW sub \in DOMAIN server, server[sub].stage = "units",
             Arrives(sub, "resync", [server[sub] EXCEPT !.stage = "begin"])
      PROVE  Served(actor', inbox', server', commands')
  <2> DEFINE v == server[sub]
             w == [v EXCEPT !.stage = "begin"]
  <2>1. v \in ServerSubs /\ v.stage = "units" /\ sub \in Nat /\ v.pos \in Nat
    BY <1>1, <1>3 DEF EndsOK, ServerSubs
  <2>2. v.pos \in 1..MaxHistory
    BY <1>3 DEF IInv, ServerOK
  <2>3. /\ Streams(sub, "resync", w)
        /\ inbox' = Append(inbox, Frame("resync", sub, w.seq + 1, None, w.pos))
    BY <1>3 DEF Arrives
  <2>4. Stepped(v, w, "begin", v.pos)
    <3> HIDE DEF v
    <3> QED
      BY <2>1, SteppedIs
  <2> HIDE DEF w
  <2>5. MayStream(v, "resync", w)
    <3> HIDE DEF v
    <3> QED
      BY <2>1, <2>2, <2>4, SteppedSent
  <2>6. "resync" \in Numbered /\ "resync" \in StreamKinds
    BY DEF Numbered, StreamKinds
  <2>7. w.seq + 1 \in Nat /\ w.pos \in Nat
    BY <2>4 DEF Stepped, ServerSubs
  <2>8. Frame("resync", sub, w.seq + 1, None, w.pos) \in Frames
    BY <2>1, <2>6, <2>7, FrameIs
  <2> QED
    BY <2>3, <2>5, <2>6, <2>8, StreamServed
<1>4. ASSUME NEW sub \in DOMAIN server,
             server' = [server EXCEPT ![sub].warned = TRUE],
             inbox' = Append(inbox, Frame("expiring", sub, 0, None, None)),
             actor' = actor, commands' = commands
      PROVE  Served(actor', inbox', server', commands')
  <2> DEFINE v == server[sub]
             w == [v EXCEPT !.warned = TRUE]
  <2>1. v \in ServerSubs
    BY <1>1
  <2>2. /\ w \in ServerSubs /\ w.seq = v.seq /\ w.boundary = v.boundary /\ w.pos = v.pos
        /\ w.stage = v.stage /\ w.account = v.account
    <3> HIDE DEF v
    <3> QED
      BY <2>1 DEF ServerSubs
  <2>3. server' = [server EXCEPT ![sub] = w]
    BY <1>4, Zenon
  <2> HIDE DEF w
  <2>4. /\ IsMap(server', DOMAIN server') /\ DOMAIN server' = DOMAIN server /\ server'[sub] = w
        /\ \A x \in DOMAIN server : x # sub => server'[x] = server[x]
    <3>1. IsMap(server, DOMAIN server)
      BY <1>1 DEF EndsOK
    <3> QED
      BY <2>3, <3>1, Zenon DEF IsMap
  <2>5. EndsOK(inbox, server') /\ Stands(server, server')
        /\ \A k \in DOMAIN server' : server'[k].account = server[k].account
    BY <1>1, <2>2, <2>4 DEF EndsOK, Stands
  <2>6. actor.conn # None
    BY <1>1 DEF SocketOK
  <2> QED
    BY <1>4, <2>5, <2>6, NoticeServed
<1>5. ASSUME NEW sub \in DOMAIN server, server' = Without(server, {sub}),
             NEW kind \in {"unsubscribed", "unknown"},
             inbox' = Append(inbox, Frame(kind, sub, 0, None, None)),
             actor' = actor, commands' = commands
      PROVE  Served(actor', inbox', server', commands')
  <2> DEFINE S2 == Without(server, {sub})
  <2>1. /\ IsMap(S2, DOMAIN S2) /\ DOMAIN S2 = DOMAIN server \ {sub}
        /\ \A k \in DOMAIN server \ {sub} : S2[k] = server[k]
    BY WithoutMap
  <2> HIDE DEF S2
  <2>2. server' = S2
    BY <1>5 DEF S2
  <2>3. EndsOK(inbox, server') /\ Stands(server, server') /\ sub \notin DOMAIN server'
        /\ \A k \in DOMAIN server' : server'[k].account = server[k].account
    BY <1>1, <2>1, <2>2 DEF EndsOK, Stands
  <2>4. actor.conn # None
    BY <1>1 DEF SocketOK
  <2> QED
    BY <1>5, <2>3, <2>4, NoticeServed
<1>6. ASSUME actor.conn # None, server' = server,
             inbox' = Append(inbox, Frame("tokenExpiring", None, 0, None, None)),
             actor' = actor, commands' = commands
      PROVE  Served(actor', inbox', server', commands')
  <2>1. EndsOK(inbox, server') /\ Stands(server, server')
        /\ \A k \in DOMAIN server' : server'[k].account = server[k].account
    BY <1>1, <1>6 DEF Stands
  <2> QED
    BY <1>6, <2>1, NoticeServed
<1>7. ASSUME actor.conn # None, server' = server, NEW sub \in DOMAIN server \cup {None},
             inbox' = Append(inbox, Frame("forbidden", sub, 0, None, None)),
             actor' = actor, commands' = commands
      PROVE  Served(actor', inbox', server', commands')
  <2>1. EndsOK(inbox, server') /\ Stands(server, server')
        /\ \A k \in DOMAIN server' : server'[k].account = server[k].account
    BY <1>1, <1>7 DEF Stands
  <2> QED
    BY <1>7, <2>1, NoticeServed
<1>8. \/ \E sub \in DOMAIN server :
           \/ /\ server[sub].stage = "units"
              /\ \E kind \in {"covered", "unavailable", "available"} :
                   Arrives(sub, kind, server[sub])
           \/ /\ server[sub].stage = "units"
              /\ Arrives(sub, "resync", [server[sub] EXCEPT !.stage = "begin"])
           \/ /\ server' = [server EXCEPT ![sub].warned = TRUE]
              /\ inbox' = Append(inbox, Frame("expiring", sub, 0, None, None))
              /\ actor' = actor /\ commands' = commands
           \/ /\ server' = Without(server, {sub})
              /\ \E kind \in {"unsubscribed", "unknown"} :
                   inbox' = Append(inbox, Frame(kind, sub, 0, None, None))
              /\ actor' = actor /\ commands' = commands
      \/ /\ actor.conn # None /\ server' = server
         /\ \/ inbox' = Append(inbox, Frame("tokenExpiring", None, 0, None, None))
            \/ \E sub \in DOMAIN server \cup {None} :
                 inbox' = Append(inbox, Frame("forbidden", sub, 0, None, None))
         /\ actor' = actor /\ commands' = commands
  BY Zenon DEF ServerNotice
<1> QED
  BY <1>2, <1>3, <1>4, <1>5, <1>6, <1>7, <1>8

-----------------------------------------------------------------------------
(* The invariant *)

\* What the steps leave of the variables beside the actor and its socket.
Around ==
  /\ commands' \in Seq(Commands) /\ batch' \in BOOLEAN
  /\ history' \in [Accounts -> 1..MaxHistory]
  /\ \A x \in Accounts : history[x] <= history'[x]
  /\ asked' \in [Consumers -> Nat] /\ faults' \in Nat /\ notices' \in Nat

\* The counters of faults and notices stay natural numbers.
LEMMA CountsAround ==
  ASSUME TypeOK, Fault \/ Notice \/ Calm
  PROVE  faults' \in Nat /\ notices' \in Nat
BY DEF TypeOK, Fault, Notice, Calm

\* The steps that leave the accounts and the requests of the users alone.
LEMMA StillAround ==
  ASSUME TypeOK, Fault \/ Notice \/ Calm, history' = history, asked' = asked,
         commands' \in Seq(Commands), batch' \in BOOLEAN
  PROVE  Around
<1>1. history \in [Accounts -> 1..MaxHistory]
  BY DEF TypeOK
<1>2. \A x \in Accounts : history[x] \in 1..MaxHistory
  BY <1>1
<1>3. \A x \in Accounts : history[x] <= history'[x]
  BY <1>2
<1> QED
  BY <1>1, <1>3, CountsAround DEF Around, TypeOK

\* The parts of the type invariant that no handler reads stay as they should be.
LEMMA AroundKept ==
  ASSUME TypeOK, Next
  PROVE  Around
<1>0. /\ commands \in Seq(Commands) /\ batch \in BOOLEAN /\ asked \in [Consumers -> Nat]
      /\ history \in [Accounts -> 1..MaxHistory]
  BY DEF TypeOK
<1>1. CASE CommandStep
  <2>1. commands' \in Seq(Commands)
    BY <1>0, <1>1 DEF CommandStep
  <2> QED
    BY <1>1, <2>1, StillAround DEF CommandStep
<1>2. CASE BatchEnds
  BY <1>0, <1>2, StillAround DEF BatchEnds
<1>3. CASE FrameArrives
  BY <1>0, <1>3, StillAround DEF FrameArrives
<1>4. CASE \E t \in actor.tasks, result \in Results : TaskEnds(t, result)
  BY <1>0, <1>4, StillAround DEF TaskEnds
<1>5. CASE SocketCloses
  BY <1>0, <1>5, StillAround DEF SocketCloses
<1>6. CASE TimersFire
  BY <1>0, <1>6, StillAround DEF TimersFire
<1>7. ASSUME NEW c \in Consumers, Connect(c)
      PROVE  Around
  <2>1. PICK x \in Accounts :
          /\ commands' = Append(commands, [kind |-> "add", account |-> x, consumer |-> c])
          /\ asked' = [asked EXCEPT ![c] = history[x]]
    BY <1>7 DEF Connect
  <2>2. [kind |-> "add", account |-> x, consumer |-> c] \in Commands
    BY DEF Commands
  <2>3. commands' \in Seq(Commands)
    BY <1>0, <2>1, <2>2
  <2>4. history[x] \in Nat
    BY <1>0
  <2>5. asked' \in [Consumers -> Nat]
    BY <1>0, <2>1, <2>4
  <2>6. history' = history /\ batch' = batch /\ Calm
    BY <1>7 DEF Connect
  <2>7. \A y \in Accounts : history[y] <= history'[y]
    <3>1. \A y \in Accounts : history[y] \in 1..MaxHistory
      BY <1>0
    <3> QED
      BY <2>6, <3>1
  <2> QED
    BY <1>0, <2>3, <2>5, <2>6, <2>7, CountsAround DEF Around
<1>8. ASSUME NEW c \in Consumers, Leave(c)
      PROVE  Around
  <2>1. commands' = Append(commands, [kind |-> "remove", account |-> None, consumer |-> c])
    BY <1>8 DEF Leave
  <2>2. [kind |-> "remove", account |-> None, consumer |-> c] \in Commands
    BY DEF Commands
  <2>3. commands' \in Seq(Commands)
    BY <1>0, <2>1, <2>2
  <2> QED
    BY <1>0, <1>8, <2>3, StillAround DEF Leave
<1>9. ASSUME NEW c \in Consumers, Recv(c)
      PROVE  Around
  BY <1>0, <1>9, StillAround DEF Recv
<1>10. ASSUME NEW x \in Accounts, AccountChanges(x)
       PROVE  Around
  <2>1. /\ history' = [history EXCEPT ![x] = history[x] + 1] /\ history[x] < MaxHistory
        /\ asked' = asked /\ commands' = commands /\ batch' = batch /\ Calm
    BY <1>10 DEF AccountChanges
  <2>2. \A y \in Accounts : history[y] \in 1..MaxHistory
    BY <1>0
  <2>3. history[x] + 1 \in 1..MaxHistory
    BY <2>1, <2>2, PrivateOrdersAssumption
  <2>4. history' \in [Accounts -> 1..MaxHistory]
    BY <1>0, <2>1, <2>3
  <2>5. \A y \in Accounts : history[y] <= history'[y]
    BY <1>0, <2>1, <2>2
  <2> QED
    BY <1>0, <2>1, <2>4, <2>5, CountsAround DEF Around
<1>11. CASE WriterFails
  BY <1>0, <1>11, StillAround DEF WriterFails
<1>12. CASE ServerReads
  <2>1. Fault \/ Calm
    BY <1>12 DEF ServerReads, Serves
  <2> QED
    BY <1>0, <1>12, <2>1, StillAround DEF ServerReads
<1>13. CASE ServerStreams
  <2>1. Fault \/ Calm
    BY <1>13 DEF ServerStreams, Spoiled
  <2>2. history' = history /\ asked' = asked /\ commands' = commands /\ batch' = batch
    BY <1>13 DEF ServerStreams, Spoiled, Arrives, Streams
  <2> QED
    BY <1>0, <2>1, <2>2, StillAround
<1>14. CASE ServerNotice
  <2>1. history' = history /\ asked' = asked /\ commands' = commands /\ batch' = batch
    BY <1>14 DEF ServerNotice, Arrives, Streams
  <2> QED
    BY <1>0, <1>14, <2>1, StillAround DEF ServerNotice
<1> QED
  BY <1>1, <1>2, <1>3, <1>4, <1>5, <1>6, <1>7, <1>8, <1>9, <1>10, <1>11, <1>12, <1>13, <1>14
     DEF Next, ActorStep

\* A step that leaves the accounts alone.
LEMMA KeptServed ==
  ASSUME IInv, Kept, history' = history
  PROVE  Fine(actor', inbox', server', commands', {}, {}) /\ SocketOK' /\ ServerOK'
<1>1. ServerOK'
  <2>1. CASE server' = server
    BY <2>1 DEF IInv, ServerOK
  <2>2. CASE server' = NoFunction
    BY <2>2, NoMap DEF ServerOK
  <2> QED
    BY <2>1, <2>2 DEF Kept
<1> QED
  BY <1>1 DEF Kept, SocketOK

\* What the server's steps establish is the invariant after them.
LEMMA ServedKept ==
  ASSUME Served(actor', inbox', server', commands'), history' = history
  PROVE  Fine(actor', inbox', server', commands', {}, {}) /\ SocketOK' /\ ServerOK'
BY DEF Served, Behind, SocketOK, ServerOK

\* Every step keeps the actor, the socket and the server's subscriptions as the invariant says.
LEMMA StepKept ==
  ASSUME IInv, Next
  PROVE  Fine(actor', inbox', server', commands', {}, {}) /\ SocketOK' /\ ServerOK'
<1>1. CASE CommandStep
  BY <1>1, CommandKept, KeptServed DEF CommandStep
<1>2. CASE BatchEnds
  BY <1>2, BatchKept, KeptServed DEF BatchEnds
<1>3. CASE FrameArrives
  BY <1>3, FrameKept, KeptServed DEF FrameArrives
<1>4. ASSUME NEW t \in actor.tasks, NEW result \in Results, TaskEnds(t, result)
      PROVE  Fine(actor', inbox', server', commands', {}, {}) /\ SocketOK' /\ ServerOK'
  BY <1>4, TaskKept, KeptServed DEF TaskEnds
<1>5. CASE SocketCloses
  BY <1>5, CloseKept, KeptServed DEF SocketCloses
<1>6. CASE TimersFire
  BY <1>6, TimersKept, KeptServed DEF TimersFire
<1>7. ASSUME NEW c \in Consumers, Connect(c)
      PROVE  Fine(actor', inbox', server', commands', {}, {}) /\ SocketOK' /\ ServerOK'
  BY <1>7, ConnectKept, KeptServed DEF Connect
<1>8. ASSUME NEW c \in Consumers, Leave(c)
      PROVE  Fine(actor', inbox', server', commands', {}, {}) /\ SocketOK' /\ ServerOK'
  BY <1>8, LeaveKept, KeptServed DEF Leave
<1>9. ASSUME NEW c \in Consumers, Recv(c)
      PROVE  Fine(actor', inbox', server', commands', {}, {}) /\ SocketOK' /\ ServerOK'
  BY <1>9, RecvKept, KeptServed DEF Recv
<1>10. ASSUME NEW x \in Accounts, AccountChanges(x)
       PROVE  Fine(actor', inbox', server', commands', {}, {}) /\ SocketOK' /\ ServerOK'
  <2>1. actor' = actor /\ inbox' = inbox /\ server' = server /\ commands' = commands
    BY <1>10 DEF AccountChanges
  <2>2. Fine(actor, inbox, server, commands, {}, {}) /\ SocketOK /\ ServerOK /\ TypeOK
    BY DEF IInv
  <2>3. Around
    BY <1>10, <2>2, AroundKept DEF Next
  <2>4. ASSUME NEW k \in DOMAIN server
        PROVE  server[k].boundary <= history'[server[k].account]
    <3>1. server[k].account \in Accounts /\ server[k].boundary \in Nat
      BY <2>2 DEF TypeOK, EndsOK, ServerSubs
    <3>2. history[server[k].account] \in 1..MaxHistory
      BY <2>2, <3>1 DEF TypeOK
    <3>3. history'[server[k].account] \in 1..MaxHistory
      BY <2>3, <3>1 DEF Around
    <3>4. history[server[k].account] <= history'[server[k].account]
      BY <2>3, <3>1 DEF Around
    <3>5. server[k].boundary <= history[server[k].account]
      BY <2>2 DEF ServerOK
    <3> QED
      BY <3>1, <3>2, <3>3, <3>4, <3>5
  <2>5. ServerOK'
    BY <2>1, <2>2, <2>4 DEF ServerOK
  <2> QED
    BY <2>1, <2>2, <2>5 DEF SocketOK
<1>11. CASE WriterFails
  BY <1>11, WriterKept, KeptServed DEF WriterFails
<1>12. CASE ServerReads
  BY <1>12, ReadsServed, ServedKept DEF ServerReads
<1>13. CASE ServerStreams
  <2>1. history' = history
    BY <1>13 DEF ServerStreams, Spoiled, Arrives, Streams
  <2> QED
    BY <1>13, <2>1, StreamsServed, ServedKept
<1>14. CASE ServerNotice
  <2>1. history' = history
    BY <1>14 DEF ServerNotice, Arrives, Streams
  <2> QED
    BY <1>14, <2>1, NoticesServed, ServedKept
<1> QED
  BY <1>1, <1>2, <1>3, <1>4, <1>5, <1>6, <1>7, <1>8, <1>9, <1>10, <1>11, <1>12, <1>13, <1>14
     DEF Next, ActorStep

\* Every step preserves the invariant.
LEMMA IInvStep ==
  ASSUME IInv, [Next]_vars
  PROVE  IInv'
<1>1. CASE Next
  <2>1. Fine(actor', inbox', server', commands', {}, {}) /\ SocketOK' /\ ServerOK'
    BY <1>1, StepKept
  <2>2. Around
    BY <1>1, AroundKept DEF IInv
  <2>3. ActorOK(actor') /\ EndsOK(inbox', server')
    BY <2>1 DEF Fine, Linked
  <2>4. TypeOK'
    BY <2>2, <2>3 DEF TypeOK, Around
  <2> QED
    BY <2>1, <2>4 DEF IInv
<1>2. CASE UNCHANGED vars
  BY <1>2 DEF vars, IInv, TypeOK, SocketOK, ServerOK
<1> QED
  BY <1>1, <1>2

\* It holds of the actor before anybody has connected.
LEMMA IInvInit ==
  ASSUME Init
  PROVE  IInv
<1> DEFINE u == [handle |-> "new", queued |-> 0, ended |-> "no", connected |-> FALSE,
                 view |-> None, ready |-> FALSE, stale |-> FALSE]
<1>1. actor = [subs |-> NoFunction, pending |-> NoFunction, bySub |-> NoFunction,
               unsubscribing |-> {}, idle |-> {},
               conn |-> None, writable |-> FALSE, out |-> <<>>, unwritable |-> None,
               connecting |-> FALSE, generation |-> 0,
               nextConn |-> 0, nextSubscription |-> 0, nextRequest |-> 0,
               reconnectAt |-> FALSE, heartbeatAt |-> FALSE,
               tasks |-> {}, users |-> [c \in Consumers |-> u]]
  BY Zenon DEF Init
<1>2. /\ actor.subs = NoFunction /\ actor.pending = NoFunction /\ actor.bySub = NoFunction
      /\ actor.unsubscribing = {} /\ actor.idle = {} /\ actor.conn = None
      /\ actor.writable = FALSE /\ actor.out = <<>> /\ actor.unwritable = None
      /\ actor.connecting = FALSE /\ actor.generation = 0 /\ actor.nextConn = 0
      /\ actor.nextSubscription = 0 /\ actor.nextRequest = 0 /\ actor.reconnectAt = FALSE
      /\ actor.heartbeatAt = FALSE /\ actor.tasks = {}
      /\ actor.users = [c \in Consumers |-> u]
  <2> HIDE DEF u
  <2> QED
    BY <1>1
<1>3. IsMap(actor, Fields)
  <2> HIDE DEF u
  <2> QED
    BY <1>1 DEF IsMap, Fields
<1>4. IsUser(u)
  <2>1. IsMap(u, UserFields)
    BY DEF IsMap, UserFields
  <2> QED
    BY <2>1, PrivateOrdersAssumption DEF IsUser, None
<1>5. /\ u.handle = "new" /\ u.ended = "no" /\ ~u.connected /\ u.view = None /\ ~u.ready
      /\ ~u.stale
  OBVIOUS
<1> HIDE DEF u
<1>6. UsersOK(actor.users) /\ \A c \in Consumers : actor.users[c] = u
  <2>1. IsMap(actor.users, Consumers)
    BY <1>2, Zenon DEF IsMap
  <2> QED
    BY <1>2, <1>4, <2>1 DEF UsersOK
<1>7. /\ IsMap(NoFunction, {}) /\ DOMAIN NoFunction = {} /\ DOMAIN actor.subs = {}
      /\ DOMAIN actor.pending = {} /\ DOMAIN actor.bySub = {} /\ None = 0 /\ DOMAIN server = {}
      /\ DOMAIN inbox = {} /\ DOMAIN actor.out = {} /\ DOMAIN commands = {}
  <2>1. DOMAIN <<>> = {}
    OBVIOUS
  <2> QED
    BY <1>2, <2>1, NoMap DEF Init, None
<1>8. ActorOK(actor)
  <2>1. SubsOK(actor.subs) /\ PendingOK(actor.pending) /\ BySubOK(actor.bySub)
    BY <1>2, <1>7 DEF SubsOK, PendingOK, BySubOK
  <2>2. actor.out \in Seq(ClientFrames)
    BY <1>2
  <2>3. /\ actor.writable \in BOOLEAN /\ actor.connecting \in BOOLEAN
        /\ actor.reconnectAt \in BOOLEAN /\ actor.heartbeatAt \in BOOLEAN
    BY <1>2
  <2>4. /\ actor.unsubscribing \in SUBSET Nat /\ actor.idle \in SUBSET Accounts
        /\ actor.tasks \in SUBSET Tasks
    BY <1>2
  <2>5. /\ actor.conn \in Nat /\ actor.unwritable \in Nat /\ actor.generation \in Nat
        /\ actor.nextConn \in Nat /\ actor.nextSubscription \in Nat /\ actor.nextRequest \in Nat
    BY <1>2, <1>7
  <2> QED
    BY <1>3, <1>6, <2>1, <2>2, <2>3, <2>4, <2>5 DEF ActorOK
<1>9. EndsOK(inbox, server)
  BY <1>7 DEF EndsOK, Init
<1>10. TypeOK
  <2>1. 1 \in 1..MaxHistory /\ 1 \in Nat /\ 0 \in Nat
    BY PrivateOrdersAssumption
  <2>2. /\ history \in [Accounts -> 1..MaxHistory] /\ asked \in [Consumers -> Nat]
        /\ commands \in Seq(Commands)
    BY <2>1 DEF Init
  <2> QED
    BY <1>8, <1>9, <2>1, <2>2 DEF TypeOK, Init
<1>11. SocketOK /\ ServerOK
  BY <1>7 DEF SocketOK, ServerOK, Init
<1>12. Link(actor)
  <2>1. Disconnected(actor) /\ Opening(actor) /\ Quiet(actor)
    BY <1>2, <1>7 DEF Disconnected, Opening, IsOpening, Quiet
  <2>2. Owned(actor) /\ OneRequest(actor) /\ Fetching(actor) /\ Listening(actor)
    BY <1>2, <1>7 DEF Owned, OneRequest, Fetching, Listening
  <2> QED
    BY <2>1, <2>2 DEF Link
<1>13. Linked(actor, inbox, server, {}, {})
  <2>1. SubscribedIn(inbox) = {}
    BY <1>7 DEF SubscribedIn
  <2>2. Wire(actor, inbox) /\ AllAsk(actor, {}) /\ Ids(actor, inbox, server)
    BY <1>2, <1>7 DEF Wire, AllAsk, Ids, Unused
  <2>3. Heard(actor, inbox, server, {}) /\ Cursors(actor) /\ Traced(actor, inbox, server)
    BY <1>2, <1>7, <2>1 DEF Heard, Cursors, ViewsAt, AsksAt, Asks, SentAt, Traced
  <2> QED
    BY <1>9, <1>12, <2>2, <2>3 DEF Linked
<1>14. Crowd(actor, commands, {})
  <2>1. ArrivingIn(commands) = {}
    BY <1>7 DEF ArrivingIn
  <2>2. Audience(actor, commands) /\ Known(actor, {}) /\ Orderly(actor, commands)
    BY <1>5, <1>6, <1>7 DEF Audience, Known, Orderly
  <2>3. Whole(actor) /\ Explained(actor, commands)
    BY <1>5, <1>6, <1>7, PrivateOrdersAssumption DEF Whole, Explained, Torn
  <2> QED
    BY <2>2, <2>3 DEF Crowd
<1> QED
  BY <1>8, <1>10, <1>11, <1>13, <1>14 DEF IInv, Fine

\* The inductive invariant, of which the others are consequences.
THEOREM Invariance == Spec => []IInv
<1>1. Init => IInv
  BY IInvInit
<1>2. IInv /\ [Next]_vars => IInv'
  BY IInvStep
<1> QED
  BY <1>1, <1>2, PTL DEF Spec

\* The state of the actor, of its socket, of its channel and of its users is of
\* its type in every state.
THEOREM OrdersTypes == Spec => []TypeOK
<1>1. IInv => TypeOK
  BY DEF IInv
<1> QED
  BY <1>1, Invariance, PTL

\* No consumer is shown a torn view: a unit is applied to the view it follows,
\* whatever is lost, garbled or taken again.
THEOREM WholeTheorem == Spec => []ViewsAreWhole
<1>1. IInv => ViewsAreWhole
  BY DEF IInv, Fine, Crowd, Whole, ViewsAreWhole
<1> QED
  BY <1>1, Invariance, PTL

\* However late it joined, a consumer of an account knows what the others know.
THEOREM KnowledgeTheorem == Spec => []SameKnowledge
<1>1. IInv => SameKnowledge
  <2> SUFFICES ASSUME IInv, NEW x \in DOMAIN actor.subs, NEW c \in actor.subs[x].consumers
               PROVE  Knows(actor.users[c], actor.subs[x])
    BY DEF SameKnowledge, Knows
  <2>1. Known(actor, {})
    BY DEF IInv, Fine, Crowd
  <2> QED
    BY <2>1 DEF Known, KnownTo
<1> QED
  BY <1>1, Invariance, PTL

\* Between its handlers the actor owes every account a next subscription: a
\* request, a retry, a timer or a socket that is being opened asks for it.
THEOREM AskingTheorem == Spec => []NeverForgotten
<1>1. IInv => NeverForgotten
  <2> SUFFICES ASSUME IInv, NEW x \in DOMAIN actor.subs
               PROVE  Asking(x)
    BY DEF NeverForgotten
  <2>1. /\ IsAsking(actor, x) /\ Owned(actor) /\ ActorOK(actor)
    BY DEF IInv, Fine, Linked, Link, AllAsk
  <2>2. CASE actor.conn # None /\ (actor.subs[x].sub # None \/ actor.subs[x].retryAt)
    BY <2>2 DEF Asking
  <2>3. CASE \E r \in DOMAIN actor.pending :
               /\ Asks(actor, r, x)
               /\ actor.subs[x].ackDue = r
                  \/ \E t \in actor.tasks : t.kind = "subscribe" /\ t.request = r
    <3>1. PICK r \in DOMAIN actor.pending :
               /\ Asks(actor, r, x)
               /\ actor.subs[x].ackDue = r
                  \/ \E t \in actor.tasks : t.kind = "subscribe" /\ t.request = r
      BY <2>3
    <3>2. /\ actor.pending[r].kind = "subscribe"
          /\ actor.pending[r].subscription = actor.subs[x].id
      BY <2>1, <3>1 DEF Asks, Owned
    <3> QED
      BY <3>1, <3>2 DEF Asking
  <2>4. CASE actor.conn = None /\ actor.reconnectAt /\ ~actor.connecting
    BY <2>4 DEF Asking
  <2>5. CASE actor.conn = None /\ actor.connecting /\ IsOpening(actor)
    BY <2>5 DEF Asking, IsOpening
  <2> QED
    BY <2>1, <2>2, <2>3, <2>4, <2>5 DEF IsAsking
<1> QED
  BY <1>1, Invariance, PTL

\* At most one server subscription of an account is listened to, and none stays
\* open that nobody has heard of and nobody will.
THEOREM SubscriptionTheorem == Spec => []OneServerSubscription
<1>1. IInv => OneServerSubscription
  <2> SUFFICES ASSUME IInv
               PROVE  OneServerSubscription
    OBVIOUS
  <2>1. Listening(actor) /\ Heard(actor, inbox, server, {})
    BY DEF IInv, Fine, Linked, Link
  <2>2. \A k \in SubscribedIn(inbox) :
          \E i \in DOMAIN inbox : inbox[i].kind = "subscribed" /\ inbox[i].sub = k
    BY DEF SubscribedIn
  <2> QED
    BY <2>1, <2>2 DEF OneServerSubscription, Listening, Heard
<1> QED
  BY <1>1, Invariance, PTL

\* Once the last consumer has left, no socket, timer or request remains.
THEOREM NothingTheorem == Spec => []NothingLeftBehind
<1>1. IInv => NothingLeftBehind
  <2> SUFFICES ASSUME IInv
               PROVE  NothingLeftBehind
    OBVIOUS
  <2>1. Quiet(actor)
    BY DEF IInv, Fine, Linked, Link
  <2> QED
    BY <2>1 DEF Quiet, IsOpening, NothingLeftBehind
<1> QED
  BY <1>1, Invariance, PTL

\* A consumer that has neither left nor a stream was told why it ended.
THEOREM ExplainedTheorem == Spec => []EndIsExplained
<1>1. IInv => EndIsExplained
  <2> SUFFICES ASSUME IInv, NEW c \in Consumers, actor.users[c].handle = "open",
                      ~Arriving(c), ~InStream(c)
               PROVE  actor.users[c].ended # "no"
    BY DEF EndIsExplained
  <2>1. Explained(actor, commands)
    BY DEF IInv, Fine, Crowd
  <2>2. c \notin ArrivingIn(commands)
    BY DEF Arriving, ArrivingIn
  <2> QED
    BY <2>1, <2>2 DEF Explained, InStream
<1> QED
  BY <1>1, Invariance, PTL

\* A subscription that is ready has reached the boundary of its server's.
THEOREM ReadyTheorem == Spec => []ReadyIsCurrent
<1>1. IInv => ReadyIsCurrent
  <2> SUFFICES ASSUME IInv, NEW x \in DOMAIN actor.subs, actor.subs[x].ready,
                      actor.subs[x].sub \in DOMAIN server
               PROVE  actor.subs[x].orders >= server[actor.subs[x].sub].boundary
    BY DEF ReadyIsCurrent
  <2> DEFINE k == actor.subs[x].sub
  <2>1. Listening(actor) /\ Traced(actor, inbox, server)
    BY DEF IInv, Fine, Linked, Link
  <2>2. k \in DOMAIN actor.bySub
    BY <2>1 DEF Listening
  <2>3. PICK L, tr, b : Follow(actor, inbox, server, k, L, tr, b)
    BY <2>1, <2>2 DEF Traced
  <2> QED
    BY <2>3 DEF Follow
<1> QED
  BY <1>1, Invariance, PTL
=============================================================================
